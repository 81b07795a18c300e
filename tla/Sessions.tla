------------------------------ MODULE Sessions ------------------------------
(***************************************************************************)
(* Proxied sessions (proxy/proxy.go runSession, proxy/session.go).  Every  *)
(* session is a goroutine that dials the server for its client, hands its  *)
(* send functions to the mods, starts a ticker and two pipes, waits for    *)
(* the first error and closes both connections.  What the mods make of the *)
(* packets, and of being shared, is module Commands; here they drop some.  *)
(***************************************************************************)
EXTENDS Integers, Sequences

CONSTANTS
  Sessions,   (* the clients that may connect, a session each              *)
  Stream      (* Stream[s][e]: what end e of s sends (bound): at each      *)
              (* position whether the packet is a command a mod drops      *)

Ends == {"client", "server"}
Other(e) == IF e = "client" THEN "server" ELSE "client"
Positions(s, e) == 1..Len(Stream[s][e])

\* No registered mod drops a packet that comes from the server.
ASSUME SessionsAssumption ==
  /\ Stream \in [Sessions -> [Ends -> Seq(BOOLEAN)]]
  /\ \A s \in Sessions : \A i \in Positions(s, "server") :
       ~Stream[s]["server"][i]

VARIABLES
  main,       (* main[s]: where runSession is                              *)
  conn,       (* conn[s][e]: the connection to end e                       *)
  ticker,     (* ticker[s]: the ticker goroutine                           *)
  errs,       (* errs[s]: errors in the channel errc                       *)
  pipe,       (* pipe[s][e]: the pipe that reads e, with its packet        *)
  nread,      (* nread[s][e]: packets it has read                          *)
  passed      (* passed[s][e]: those it has written to the other end       *)

pipeVars == <<pipe, nread, passed>>
vars == <<main, conn, ticker, errs, pipeVars>>

MainPC == {"new", "dial", "startgame", "init", "session", "closeClient",
           "closeServer", "stopTick", "done"}
PipePC == {"off", "read", "mods", "write", "failed", "done"}

Init ==
  /\ main = [s \in Sessions |-> "new"]
  /\ conn = [s \in Sessions |-> [e \in Ends |-> "none"]]
  /\ ticker = [s \in Sessions |-> "off"]
  /\ errs = [s \in Sessions |-> 0]
  /\ pipe = [s \in Sessions |-> [e \in Ends |-> [pc |-> "off", pk |-> 0]]]
  /\ nread = [s \in Sessions |-> [e \in Ends |-> 0]]
  /\ passed = [s \in Sessions |-> [e \in Ends |-> << >>]]

Step(s, from, to) == main[s] = from /\ main' = [main EXCEPT ![s] = to]
Connection(s, e, state) == conn' = [conn EXCEPT ![s][e] = state]

-----------------------------------------------------------------------------
\* The accept loop hands a client to a session of its own.
Connect(s) ==
  /\ Step(s, "new", "dial")
  /\ Connection(s, "client", "open")
  /\ UNCHANGED <<ticker, errs, pipeVars>>

DialOK(s) ==
  /\ Step(s, "dial", "startgame")
  /\ Connection(s, "server", "open")
  /\ UNCHANGED <<ticker, errs, pipeVars>>

DialFails(s) ==
  /\ Step(s, "dial", "done")
  /\ Connection(s, "client", "closed")
  /\ UNCHANGED <<ticker, errs, pipeVars>>

StartGameOK(s) ==
  /\ Step(s, "startgame", "init")
  /\ conn[s]["client"] = "open"
  /\ UNCHANGED <<conn, ticker, errs, pipeVars>>

\* The mutant only returns.
StartGameJustFails(s) ==
  /\ Step(s, "startgame", "done")
  /\ UNCHANGED <<conn, ticker, errs, pipeVars>>
StartGameFails(s) ==
  /\ Step(s, "startgame", "closeClient")
  /\ UNCHANGED <<conn, ticker, errs, pipeVars>>

\* initMods, then runTicker and the two pipes.
StartPipes(s) ==
  /\ Step(s, "init", "session")
  /\ ticker' = [ticker EXCEPT ![s] = "run"]
  /\ pipe' = [pipe EXCEPT ![s] = [e \in Ends |-> [pc |-> "read", pk |-> 0]]]
  /\ UNCHANGED <<conn, errs, nread, passed>>

FirstError(s) ==
  /\ Step(s, "session", "closeClient") /\ errs[s] > 0
  /\ errs' = [errs EXCEPT ![s] = @ - 1]
  /\ UNCHANGED <<conn, ticker, pipeVars>>

CloseClient(s) ==
  /\ Step(s, "closeClient", "closeServer")
  /\ Connection(s, "client", "closed")
  /\ UNCHANGED <<ticker, errs, pipeVars>>

\* Mutant: the server connection is left open.
KeepServer(s) ==
  /\ Step(s, "closeServer", IF ticker[s] = "run" THEN "stopTick" ELSE "done")
  /\ UNCHANGED <<conn, ticker, errs, pipeVars>>
CloseServer(s) ==
  /\ Step(s, "closeServer", IF ticker[s] = "run" THEN "stopTick" ELSE "done")
  /\ Connection(s, "server", "closed")
  /\ UNCHANGED <<ticker, errs, pipeVars>>

\* The deferred stopTick closes the channel; the ticker sees it at a select.
StopTick(s) ==
  /\ Step(s, "stopTick", "done")
  /\ UNCHANGED <<conn, ticker, errs, pipeVars>>

TickerEnds(s) ==
  /\ ticker[s] = "run" /\ main[s] = "done"
  /\ ticker' = [ticker EXCEPT ![s] = "done"]
  /\ UNCHANGED <<main, conn, errs, pipeVars>>

-----------------------------------------------------------------------------
At(s, e, pc) == pipe[s][e].pc = pc
Goes(s, e, pc, pk) == pipe' = [pipe EXCEPT ![s][e] = [pc |-> pc, pk |-> pk]]

\* A closed connection may first hand out packets it had received.
PipeReads(s, e) ==
  /\ At(s, e, "read") /\ nread[s][e] < Len(Stream[s][e])
  /\ nread' = [nread EXCEPT ![s][e] = @ + 1]
  /\ Goes(s, e, "mods", nread[s][e] + 1)
  /\ UNCHANGED <<main, conn, ticker, errs, passed>>

Command(s, e) == Stream[s][e][pipe[s][e].pk]

\* The loop over the mods drops a command.  Mutants: the pipe forgets to look
\* at Drop; it writes a packet that Drop has emptied.
NeverDropped(s, e) == Goes(s, e, "write", pipe[s][e].pk)
EmptyWritten(s, e) ==
  Goes(s, e, "write", IF Command(s, e) THEN 0 ELSE pipe[s][e].pk)
DropOrWrite(s, e) ==
  IF Command(s, e) THEN Goes(s, e, "read", 0)
                   ELSE Goes(s, e, "write", pipe[s][e].pk)

ModsHandle(s, e) ==
  /\ At(s, e, "mods")
  /\ DropOrWrite(s, e)
  /\ UNCHANGED <<main, conn, ticker, errs, nread, passed>>

PipeWrites(s, e) ==
  /\ At(s, e, "write") /\ conn[s][Other(e)] = "open"
  /\ passed' = [passed EXCEPT ![s][e] = Append(@, pipe[s][e].pk)]
  /\ Goes(s, e, "read", 0)
  /\ UNCHANGED <<main, conn, ticker, errs, nread>>

PipeFails(s, e) ==
  /\ \/ At(s, e, "read") /\ conn[s][e] = "closed"
     \/ At(s, e, "write") /\ conn[s][Other(e)] = "closed"
  /\ Goes(s, e, "failed", pipe[s][e].pk)
  /\ UNCHANGED <<main, conn, ticker, errs, nread, passed>>

\* errc <- err.  The mutant has no buffer: it needs main to be receiving.
ErrcUnbuffered(s) == main[s] = "session" /\ errs[s] = 0
ErrcHasRoom(s) == errs[s] < 2

PipeReturns(s, e) ==
  /\ At(s, e, "failed") /\ ErrcHasRoom(s)
  /\ errs' = [errs EXCEPT ![s] = @ + 1]
  /\ Goes(s, e, "done", pipe[s][e].pk)
  /\ UNCHANGED <<main, conn, ticker, nread, passed>>

\* An end of a session goes away.
Drops(s, e) ==
  /\ conn[s][e] = "open"
  /\ Connection(s, e, "closed")
  /\ UNCHANGED <<main, ticker, errs, pipeVars>>

-----------------------------------------------------------------------------
MainStep(s) ==
  \/ DialOK(s) \/ DialFails(s) \/ StartGameOK(s) \/ StartGameFails(s)
  \/ StartPipes(s) \/ FirstError(s)
  \/ CloseClient(s) \/ CloseServer(s) \/ StopTick(s)

PipeStep(s, e) ==
  ModsHandle(s, e) \/ PipeWrites(s, e) \/ PipeFails(s, e) \/ PipeReturns(s, e)

Next ==
  \E s \in Sessions :
    \/ Connect(s) \/ MainStep(s) \/ TickerEnds(s)
    \/ \E e \in Ends : PipeReads(s, e) \/ PipeStep(s, e) \/ Drops(s, e)

Spec == Init /\ [][Next]_vars

\* Dial and StartGame return, both have a time limit; every goroutine that can
\* run does.  Nothing makes a packet arrive or a connection drop.
Fairness ==
  \A s \in Sessions :
    /\ WF_vars(MainStep(s))
    /\ WF_vars(TickerEnds(s))
    /\ \A e \in Ends : WF_vars(PipeStep(s, e))

FairSpec == Spec /\ Fairness

-----------------------------------------------------------------------------
ConnState == {"none", "open", "closed"}

TypeOK ==
  /\ main \in [Sessions -> MainPC]
  /\ conn \in [Sessions -> [Ends -> ConnState]]
  /\ ticker \in [Sessions -> {"off", "run", "done"}]
  /\ errs \in [Sessions -> 0..2]
  /\ pipe \in [Sessions -> [Ends -> [pc : PipePC, pk : Nat]]]
  /\ nread \in [Sessions -> [Ends -> Nat]]
  /\ passed \in [Sessions -> [Ends -> Seq(Nat \ {0})]]

\* What a session is for: each of its streams reaches the other end in order,
\* each packet once and none skipped but the commands (session.go:48-71); and
\* when one end goes the other is hung up (proxy.go:71-77).
Kept ==
  [s \in Sessions |->
     [e \in Ends |-> {i \in Positions(s, e) : ~Stream[s][e][i]}]]
R == INSTANCE Relay WITH up <- conn
InOrder == R!Spec
HungUp == R!HangsUp

\* runSession returns with nothing left open, whichever way it returns.
NothingLeftOpen ==
  \A s \in Sessions : main[s] = "done" => \A e \in Ends : conn[s][e] # "open"

\* The goroutines of a session that has returned end (errc has room for both
\* pipes, proxy.go:71).
GoroutinesEnd ==
  \A s \in Sessions :
    main[s] = "done" ~> /\ ticker[s] # "run"
                        /\ \A e \in Ends : pipe[s][e].pc \in {"off", "done"}

=============================================================================
