------------------------------- MODULE Panel --------------------------------
(***************************************************************************)
(* The control panel of main.go: HTTP handlers that share botRunning, the  *)
(* log ring and, through botchat.go, activeBot with the bot goroutines     *)
(* they start.  A handler is one request; net/http runs each of them in a  *)
(* goroutine of its own.  The bot loop itself is the module Headless; here *)
(* it is its start (StartHeadlessAndListen up to the loop) and the bot it  *)
(* publishes and withdraws.                                                *)
(***************************************************************************)
EXTENDS Integers, SequencesExt

CONSTANTS
  Reqs,       (* the requests, each made at most once (bound)              *)
  NoReq,      (* nobody: botMu is free; the program's own log entries      *)
  MaxLogs,    (* entries the log keeps, 200 in the code                    *)
  MaxPrinted  (* bound: entries in all when the bot prints one more        *)

ASSUME PanelAssumption ==
  NoReq \notin Reqs /\ MaxLogs \in Nat \ {0} /\ MaxPrinted \in Nat

VARIABLES
  req,        (* req[r]: kind of request, program counter, answer          *)
  botMu,      (* the request inside botMu, or NoReq                        *)
  botRunning,
  gor,        (* gor[r]: where the goroutine that start r launched is      *)
  published,  (* activeBot # nil                                           *)
  withdrawn,  (* chats between whose two reads of activeBot it became nil  *)
  logs,       (* the log, an entry being whoever wrote it                  *)
  written,    (* every entry ever written                                  *)
  starts,     (* starts that got past the check of botRunning              *)
  stops,      (* stops                                                     *)
  exited      (* log.Fatalf has ended the process                          *)

flagVars == <<botMu, botRunning, starts, stops>>
botVars  == <<gor, published, withdrawn, exited>>
logVars  == <<logs, written>>
vars == <<req, flagVars, botVars, logVars>>

Writers == Reqs \cup {NoReq}
Kinds == {"start", "stop", "status", "chat"}
Answered == {"bad request", "already running", "started", "stopped", "online",
             "offline", "sent"}
ReqStates ==
  [kind : Kinds \cup {"none"}, answer : {"none"},
   pc : {"new", "lock", "locked", "log", "spawn", "check", "deref",
         "panicked"}]
  \cup [kind : Kinds, answer : Answered, pc : {"done"}]

Init ==
  /\ req = [r \in Reqs |-> [kind |-> "none", pc |-> "new", answer |-> "none"]]
  /\ botMu = NoReq /\ botRunning = FALSE
  /\ gor = [r \in Reqs |-> "none"]
  /\ published = FALSE /\ withdrawn = {}
  /\ logs = <<NoReq>> /\ written = <<NoReq>>   \* "Panel starting on"
  /\ starts = 0 /\ stops = 0
  /\ exited = FALSE

At(r, kind, pc) == ~exited /\ req[r].kind = kind /\ req[r].pc = pc
Goes(r, pc) == req' = [req EXCEPT ![r].pc = pc]
Answers(r, a) == req' = [req EXCEPT ![r].pc = "done", ![r].answer = a]

-----------------------------------------------------------------------------
\* A request arrives.  Start and chat are answered at once when they are not a
\* POST or lack the server or the message.
Arrive(r) ==
  /\ ~exited /\ req[r].pc = "new"
  /\ \E kind \in Kinds :
       \/ req' = [req EXCEPT ![r].kind = kind,
                             ![r].pc = IF kind = "chat" THEN "log" ELSE "lock"]
       \/ /\ kind \in {"start", "chat"}
          /\ req' = [req EXCEPT ![r] = [kind |-> kind, pc |-> "done",
                                        answer |-> "bad request"]]
  /\ UNCHANGED <<flagVars, botVars, logVars>>

Lock(r) ==
  /\ ~exited /\ req[r].pc = "lock" /\ botMu = NoReq
  /\ botMu' = r
  /\ Goes(r, "locked")
  /\ UNCHANGED <<botRunning, starts, stops, botVars, logVars>>

\* The 409 return of handleStart.  Mutants: without botMu.Unlock; without the
\* return.
RefuseLocked(r) == Answers(r, "already running") /\ UNCHANGED flagVars
RefuseAndGoOn(r) ==
  /\ req' = [req EXCEPT ![r].pc = "log", ![r].answer = "already running"]
  /\ botMu' = NoReq
  /\ UNCHANGED <<botRunning, starts, stops>>
Refuse(r) ==
  /\ Answers(r, "already running")
  /\ botMu' = NoReq
  /\ UNCHANGED <<botRunning, starts, stops>>

\* The other way out.  The mutant leaves the flag to the goroutine.
ClaimLate(r) ==
  /\ starts' = starts + 1
  /\ botMu' = NoReq
  /\ Goes(r, "log")
  /\ UNCHANGED <<botRunning, stops>>
Claim(r) ==
  /\ botRunning' = TRUE
  /\ starts' = starts + 1
  /\ botMu' = NoReq
  /\ Goes(r, "log")
  /\ UNCHANGED stops

StartLocked(r) ==
  /\ At(r, "start", "locked")
  /\ IF botRunning THEN Refuse(r) ELSE Claim(r)
  /\ UNCHANGED <<botVars, logVars>>

\* The flag after a stop.  The mutant toggles it.
FlagToggled == ~botRunning
FlagStopped == FALSE

StopLocked(r) ==
  /\ At(r, "stop", "locked")
  /\ botRunning' = FlagStopped
  /\ stops' = stops + 1
  /\ botMu' = NoReq
  /\ Answers(r, "stopped")
  /\ UNCHANGED <<starts, botVars, logVars>>

StatusLocked(r) ==
  /\ At(r, "status", "locked")
  /\ botMu' = NoReq
  /\ Answers(r, IF botRunning THEN "online" ELSE "offline")
  /\ UNCHANGED <<botRunning, starts, stops, botVars, logVars>>

\* logs = logs[len(logs)-200:] once it is longer.  The mutant is one off.
TrimmedShort(s) == IF Len(s) > MaxLogs THEN SubSeq(s, Len(s) - MaxLogs + 2, Len(s))
                                       ELSE s
Trimmed(s) == IF Len(s) > MaxLogs THEN SubSeq(s, Len(s) - MaxLogs + 1, Len(s))
                                  ELSE s

\* addLog, a critical section of logMu; what it logs is never blank here.
Logged(w) == logs' = Trimmed(Append(logs, w)) /\ written' = Append(written, w)

AddLog(r) ==
  /\ ~exited /\ req[r].pc = "log"
  /\ Logged(r)
  /\ Goes(r, IF req[r].kind = "start" THEN "spawn" ELSE "check")
  /\ UNCHANGED <<flagVars, botVars>>

\* What a bot goroutine prints comes back through the stdout pipe.
Printed ==
  /\ ~exited /\ Len(written) < MaxPrinted
  /\ \E g \in Reqs : gor[g] # "none"
  /\ Logged(NoReq)
  /\ UNCHANGED <<req, flagVars, botVars>>

Spawn(r) ==
  /\ At(r, "start", "spawn")
  /\ gor' = [gor EXCEPT ![r] = "auth"]
  /\ Answers(r, "started")
  /\ UNCHANGED <<flagVars, published, withdrawn, exited, logVars>>

-----------------------------------------------------------------------------
\* SendBotChat reads activeBot twice, without activeBotMu.  Nothing ever sets
\* a bot's server field, so a bot found both times still gets no packet.  The
\* mutant leaves the first read out.
ChatUnchecked(r) ==
  /\ At(r, "chat", "check")
  /\ Goes(r, "deref")
  /\ UNCHANGED <<flagVars, botVars, logVars>>
ChatCheck(r) ==
  /\ At(r, "chat", "check")
  /\ IF published THEN Goes(r, "deref") ELSE Answers(r, "sent")
  /\ UNCHANGED <<flagVars, botVars, logVars>>

\* A nil activeBot panics; net/http recovers and drops the connection, and no
\* answer is sent.
ChatDeref(r) ==
  /\ At(r, "chat", "deref")
  /\ IF published THEN Answers(r, "sent") /\ withdrawn' = withdrawn \ {r}
                  ELSE Goes(r, "panicked") /\ UNCHANGED withdrawn
  /\ UNCHANGED <<flagVars, gor, published, exited, logVars>>

-----------------------------------------------------------------------------
\* The goroutine of start g.  StartHeadlessAndListen never returns, so the
\* reset of botRunning after it is never reached.
AuthOK(g) ==
  /\ ~exited /\ gor[g] = "auth"
  /\ gor' = [gor EXCEPT ![g] = "listen"]
  /\ UNCHANGED <<req, flagVars, published, withdrawn, exited, logVars>>

AuthFails(g) ==
  /\ ~exited /\ gor[g] = "auth"
  /\ exited' = TRUE
  /\ UNCHANGED <<req, flagVars, gor, published, withdrawn, logVars>>

\* The listening port is held by the goroutine whose Listen succeeded first.
PortFree == \A g \in Reqs : gor[g] # "loop"

ListenOK(g) ==
  /\ ~exited /\ gor[g] = "listen" /\ PortFree
  /\ gor' = [gor EXCEPT ![g] = "loop"]
  /\ UNCHANGED <<req, flagVars, published, withdrawn, exited, logVars>>

\* log.Fatalf.  The mutant logs the error and goes on to the loop.
ListenErrorLogged(g) ==
  /\ ~exited /\ gor[g] = "listen"
  /\ gor' = [gor EXCEPT ![g] = "loop"]
  /\ UNCHANGED <<req, flagVars, published, withdrawn, exited, logVars>>
ListenFails(g) ==
  /\ ~exited /\ gor[g] = "listen"
  /\ exited' = TRUE
  /\ UNCHANGED <<req, flagVars, gor, published, withdrawn, logVars>>

\* runBot publishes its bot and withdraws it again.
RunBot(g) ==
  /\ ~exited /\ gor[g] = "loop"
  /\ published' = ~published
  /\ withdrawn' = withdrawn \cup {r \in Reqs : published /\ req[r].pc = "deref"}
  /\ UNCHANGED <<req, flagVars, gor, exited, logVars>>

Handler(r) ==
  \/ Lock(r) \/ StartLocked(r) \/ StopLocked(r) \/ StatusLocked(r)
  \/ AddLog(r) \/ Spawn(r) \/ ChatCheck(r) \/ ChatDeref(r)

Next ==
  \/ Printed
  \/ \E r \in Reqs :
       \/ Arrive(r) \/ Handler(r)
       \/ AuthOK(r) \/ AuthFails(r) \/ ListenOK(r) \/ ListenFails(r) \/ RunBot(r)

Spec == Init /\ [][Next]_vars

\* Every handler that can run does, and a sync.Mutex does not starve a waiter
\* (starvation mode).  Nothing makes a user sign in or a request arrive.
Fairness ==
  \A r \in Reqs :
    /\ SF_vars(Lock(r))
    /\ WF_vars(Handler(r))
    /\ WF_vars(ListenOK(r) \/ ListenFails(r))

FairSpec == Spec /\ Fairness

-----------------------------------------------------------------------------
TypeOK ==
  /\ req \in [Reqs -> ReqStates]
  /\ botMu \in Reqs \cup {NoReq}
  /\ botRunning \in BOOLEAN
  /\ gor \in [Reqs -> {"none", "auth", "listen", "loop"}]
  /\ published \in BOOLEAN /\ withdrawn \subseteq Reqs
  /\ logs \in Seq(Writers)
  /\ written \in Seq(Writers)
  /\ starts \in Nat /\ stops \in Nat
  /\ exited \in BOOLEAN

\* However the requests interleave, a bot is started over a running one only
\* after a stop: starts that pass the check are at most one more than stops,
\* and not even one more while the flag is down (main.go:87-90, :114).
StartsNeedStops == starts + (IF botRunning THEN 0 ELSE 1) <= stops + 1

\* Headless has one bot loop, and only it publishes: whatever the panel was
\* asked to start, one goroutine at most gets past Listen (headless.go:56-59).
OneBotLoop ==
  /\ \A g, h \in Reqs : gor[g] = "loop" /\ gor[h] = "loop" => g = h
  /\ published => \E g \in Reqs : gor[g] = "loop"

\* A start past its check, until its goroutine runs and from then on.
UnderWay(r) ==
  gor[r] # "none" \/ (req[r].kind = "start" /\ req[r].pc \in {"log", "spawn"})

\* While the panel says Online a start is being carried out or its goroutine
\* exists (main.go:89 sets the flag before main.go:92 launches it).
OnlineHasBot == botRunning => \E r \in Reqs : UnderWay(r)

\* The log is the last MaxLogs of all entries, in order (main.go:34-35).
LogIsWindow ==
  /\ Len(logs) = IF Len(written) < MaxLogs THEN Len(written) ELSE MaxLogs
  /\ \A i \in 1..Len(logs) : logs[i] = written[Len(written) - Len(logs) + i]

\* Every request that has arrived is answered while the process lives: no way
\* out of a handler keeps botMu (main.go:88 unlocks it by hand).  The one that is
\* not is a chat that runs into a nil activeBot, and only because runBot withdrew
\* the bot between the two reads (botchat.go:8).
AllAnswered ==
  \A r \in Reqs :
    req[r].pc # "new" ~> \/ req[r].pc = "done" \/ exited
                         \/ req[r].pc = "panicked" /\ r \in withdrawn

-----------------------------------------------------------------------------
\* html.go:46 shows "Offline" when the flag is down: then no bot loop runs.
OfflineMeansNoBot == ~botRunning => \A g \in Reqs : gor[g] # "loop"
=============================================================================
