------------------------------ MODULE Headless ------------------------------
(***************************************************************************)
(* The headless bot of proxy/headless.go: runBot dials the game server,    *)
(* publishes itself as activeBot, caches state packets and blocks until a  *)
(* real client takes the bot over; then it replays the cache, pipes the    *)
(* session and, when that ends, goes back to dialling.                     *)
(*                                                                         *)
(* Goroutines: main (the bot loop), accept (the listener loop), and, per   *)
(* bot, the mods' ticker, the server reader and the two pipes.  A bot is   *)
(* one call of runBot past a successful Dial, numbered in order; a packet  *)
(* is its position in the stream the server sends that bot.  What a tick   *)
(* does is the module Schematic.                                           *)
(***************************************************************************)
EXTENDS Integers, SequencesExt

CONSTANTS
  Conns,      (* client connections the listener can accept, each once     *)
  NoConn,     (* the nil *minecraft.Conn                                   *)
  MaxBots,    (* bound: successful dials                                   *)
  MaxPkts,    (* bound: packets a server sends on one connection           *)
  StatePkts   (* the packets of a kind runBot caches for replay            *)

ASSUME HeadlessAssumption ==
  /\ NoConn \notin Conns
  /\ MaxBots \in Nat
  /\ MaxPkts \in Nat
  /\ StatePkts \subseteq 1..MaxPkts

Bots == 1..MaxBots
Pkts == 1..MaxPkts
StartGame == 0        \* the StartGame packet in got, before any numbered one
Nil == 0              \* activeBot = nil

VARIABLES
  main,       (* where the bot loop is                                     *)
  bot,        (* the latest bot, 0 before the first                        *)
  activeBot,  (* the published bot or Nil                                  *)
  ticker,     (* ticker[b]: the goroutine of runTicker, "told" to stop     *)
  client,     (* client[b]: b's client field                               *)
  ready,      (* ready[b]: b's clientReady channel is closed               *)
  cached,     (* cached[b]: b's cachedPkts                                 *)
  handed,     (* handed[b]: runBot's local variable client                 *)
  replayed,   (* cached packets runBot has replayed                        *)
  reader,     (* reader[b]: the server reader, with its pk and c           *)
  pipeS,      (* pipeS[b]: pipe(server, client), with its packet           *)
  pipeC,      (* pipeC[b]: pipe(client, server)                            *)
  accept,     (* the accept loop, with its conn and TakeoverBot's bot      *)
  srvUp,      (* srvUp[b]: b's server connection is open                   *)
  nread,      (* nread[b]: packets taken from it by ReadPacket             *)
  conn,       (* conn[c]: state of a client connection                     *)
  got         (* got[c]: what was written to c while it was open           *)

loopVars == <<main, bot, activeBot, ticker>>
botVars  == <<client, ready, cached>>
takeVars == <<handed, replayed>>
pipeVars == <<pipeS, pipeC>>
srvVars  == <<srvUp, nread>>
connVars == <<conn, got>>
sessVars == <<botVars, takeVars>>
goVars   == <<reader, pipeVars, accept>>
netVars  == <<srvVars, connVars>>
vars     == <<loopVars, sessVars, goVars, netVars>>

MainPC == {"dial", "wait", "startgame", "replay", "session", "stoptick",
           "unpublish", "close"}
\* A connection given to runSession is left to that session: "proxied".
ConnState == {"new", "proxied", "open", "closed"}

ClientOrNil == Conns \cup {NoConn}
ReaderStates == [pc : {"off", "read", "cache", "write", "done"},
                 pk : 0..MaxPkts, to : ClientOrNil]
PipeStates == [pc : {"off", "read", "write", "done"}, pk : 0..MaxPkts]
AcceptStates == [pc : {"accept", "attach", "close", "panicked"},
                 conn : ClientOrNil, bot : 0..MaxBots]

NotStarted == [pc |-> "off",  pk |-> 0, to |-> NoConn]
Reading    == [pc |-> "read", pk |-> 0, to |-> NoConn]
Ended      == [pc |-> "done", pk |-> 0, to |-> NoConn]
Accepting  == [pc |-> "accept", conn |-> NoConn, bot |-> Nil]

Init ==
  /\ main = "dial" /\ bot = 0 /\ activeBot = Nil
  /\ ticker = [b \in Bots |-> "off"]
  /\ client = [b \in Bots |-> NoConn]
  /\ ready = [b \in Bots |-> FALSE]
  /\ cached = [b \in Bots |-> << >>]
  /\ handed = [b \in Bots |-> NoConn]
  /\ replayed = 0
  /\ reader = [b \in Bots |-> NotStarted]
  /\ pipeS = [b \in Bots |-> [pc |-> "off", pk |-> 0]]
  /\ pipeC = [b \in Bots |-> "off"]
  /\ accept = Accepting
  /\ srvUp = [b \in Bots |-> FALSE]
  /\ nread = [b \in Bots |-> 0]
  /\ conn = [c \in Conns |-> "new"]
  /\ got = [c \in Conns |-> << >>]

\* A panic in any goroutine ends the process; only the accept loop has one.
Running == accept.pc # "panicked"

MainAt(pc) == Running /\ main = pc
ReaderAt(b, pc) == Running /\ reader[b].pc = pc
PipeSAt(b, pc) == Running /\ pipeS[b].pc = pc

\* runBot holds bot.mu from the first replayed packet to the last.
MuFree(b) == ~(main = "replay" /\ bot = b)

\* WritePacket on a client; a closed connection takes nothing.
Write(c, pk) ==
  got' = IF conn[c] = "open" THEN [got EXCEPT ![c] = Append(@, pk)] ELSE got

-----------------------------------------------------------------------------
\* The bot loop.  A Dial that fails changes nothing, and the sleep between two
\* dials shows only as the time Dial takes: until the new bot is published
\* nobody can see it, and a goroutine just started may not have run yet.
Dial ==
  /\ MainAt("dial") /\ bot < MaxBots
  /\ bot' = bot + 1
  /\ srvUp' = [srvUp EXCEPT ![bot + 1] = TRUE]
  /\ activeBot' = bot + 1
  /\ ticker' = [ticker EXCEPT ![bot + 1] = "run"]
  /\ reader' = [reader EXCEPT ![bot + 1] = Reading]
  /\ main' = "wait"
  /\ UNCHANGED <<sessVars, pipeVars, accept, nread, connVars>>

\* <-bot.clientReady.  The mutant also gives up when the server is gone.
ClientReadyOrServerGone == ready[bot] \/ ~srvUp[bot]
ClientIsReady == ready[bot]

\* client := bot.client, read without bot.mu.
TakeClient ==
  /\ MainAt("wait") /\ ClientIsReady
  /\ handed' = [handed EXCEPT ![bot] = client[bot]]
  /\ main' = "startgame"
  /\ UNCHANGED <<bot, activeBot, ticker, botVars, replayed, goVars, netVars>>

StartGameOK ==
  /\ MainAt("startgame") /\ conn[handed[bot]] = "open"
  /\ Write(handed[bot], StartGame)
  /\ replayed' = 0
  /\ main' = "replay"
  /\ UNCHANGED <<bot, activeBot, ticker, botVars, handed, goVars, srvVars, conn>>

\* The error return: only the deferred calls run, the client is left as it is.
StartGameFails ==
  /\ MainAt("startgame")
  /\ main' = "stoptick"
  /\ UNCHANGED <<bot, activeBot, ticker, sessVars, goVars, netVars>>

\* The loop over cachedPkts.  Mutants: newest first; the last one left out.
NewestFirst == cached[bot][Len(cached[bot]) - replayed]
NextCached == cached[bot][replayed + 1]
AllButOneReplayed == replayed + 1 >= Len(cached[bot])
AllReplayed == replayed = Len(cached[bot])

Replay ==
  /\ MainAt("replay") /\ replayed < Len(cached[bot])
  /\ Write(handed[bot], NextCached)
  /\ replayed' = replayed + 1
  /\ UNCHANGED <<loopVars, botVars, handed, goVars, srvVars, conn>>

StartPipes ==
  /\ MainAt("replay") /\ AllReplayed
  /\ pipeS' = [pipeS EXCEPT ![bot] = [pc |-> "read", pk |-> 0]]
  /\ pipeC' = [pipeC EXCEPT ![bot] = "run"]
  /\ main' = "session"
  /\ UNCHANGED <<bot, activeBot, ticker, sessVars, reader, accept, netVars>>

\* The first error out of errc, which has room for both, so no pipe blocks on
\* it.  The mutant receives both errors.
BothPipesDone == pipeS[bot].pc = "done" /\ pipeC[bot] = "done"
OnePipeDone == pipeS[bot].pc = "done" \/ pipeC[bot] = "done"

SessionEnds ==
  /\ MainAt("session") /\ OnePipeDone
  /\ conn' = [conn EXCEPT ![handed[bot]] = "closed"]
  /\ main' = "stoptick"
  /\ UNCHANGED <<bot, activeBot, ticker, sessVars, goVars, srvVars, got>>

\* The deferred calls of runBot, last one first.
StopTick ==
  /\ MainAt("stoptick")
  /\ ticker' = [ticker EXCEPT ![bot] = "told"]
  /\ main' = "unpublish"
  /\ UNCHANGED <<bot, activeBot, sessVars, goVars, netVars>>

Unpublish ==
  /\ MainAt("unpublish")
  /\ activeBot' = Nil
  /\ main' = "close"
  /\ UNCHANGED <<bot, ticker, sessVars, goVars, netVars>>

\* Mutant: no deferred server.Close.
LeaveServerOpen ==
  /\ MainAt("close")
  /\ main' = "dial"
  /\ UNCHANGED <<bot, activeBot, ticker, sessVars, goVars, netVars>>

CloseServer ==
  /\ MainAt("close")
  /\ srvUp' = [srvUp EXCEPT ![bot] = FALSE]
  /\ main' = "dial"
  /\ UNCHANGED <<bot, activeBot, ticker, sessVars, goVars, nread, connVars>>

-----------------------------------------------------------------------------
\* TakeoverBot once it holds the bot.  The mutant never sets bot.client.
Unattached(c) == [pc |-> "close", conn |-> c, bot |-> activeBot]
Taking(c) == [pc |-> "attach", conn |-> c, bot |-> activeBot]

\* bot == nil.  The mutant leaves the check out.
BotAssumed == FALSE
NoActiveBot == activeBot = Nil

\* The accept loop.  Without an active bot the connection gets a session of
\* its own (runSession); with one, TakeoverBot keeps the pointer it read.
Accept(c) ==
  /\ Running /\ accept.pc = "accept" /\ conn[c] = "new"
  /\ IF NoActiveBot
     THEN conn' = [conn EXCEPT ![c] = "proxied"] /\ UNCHANGED accept
     ELSE conn' = [conn EXCEPT ![c] = "open"] /\ accept' = Taking(c)
  /\ UNCHANGED <<loopVars, sessVars, reader, pipeVars, srvVars, got>>

Attach ==
  /\ accept.pc = "attach" /\ MuFree(accept.bot)
  /\ client' = [client EXCEPT ![accept.bot] = accept.conn]
  /\ accept' = [accept EXCEPT !.pc = "close"]
  /\ UNCHANGED <<loopVars, ready, cached, takeVars, reader, pipeVars, netVars>>

\* close(bot.clientReady): closing it a second time panics.
CloseReady ==
  /\ accept.pc = "close"
  /\ ready' = [ready EXCEPT ![accept.bot] = TRUE]
  /\ accept' = IF ready[accept.bot] THEN [accept EXCEPT !.pc = "panicked"]
                                    ELSE Accepting
  /\ UNCHANGED <<loopVars, client, cached, takeVars, reader, pipeVars, netVars>>

-----------------------------------------------------------------------------
\* The server reader.  No registered mod drops a packet from the server, so
\* every packet it reads reaches the caching step.
ReaderReads(b) ==
  /\ ReaderAt(b, "read") /\ nread[b] < MaxPkts
  /\ nread' = [nread EXCEPT ![b] = @ + 1]
  /\ reader' = [reader EXCEPT
                  ![b] = [pc |-> "cache", pk |-> nread[b] + 1, to |-> NoConn]]
  /\ UNCHANGED <<loopVars, sessVars, pipeVars, accept, srvUp, connVars>>

\* A closed connection may first hand out packets it had received.
ReaderEnds(b) ==
  /\ ReaderAt(b, "read") /\ ~srvUp[b]
  /\ reader' = [reader EXCEPT ![b] = Ended]
  /\ UNCHANGED <<loopVars, sessVars, pipeVars, accept, netVars>>

\* Under bot.mu: cache a state packet and read bot.client.
ReaderCaches(b) ==
  /\ ReaderAt(b, "cache") /\ MuFree(b)
  /\ cached' = IF reader[b].pk \in StatePkts
               THEN [cached EXCEPT ![b] = Append(@, reader[b].pk)]
               ELSE cached
  /\ reader' = [reader EXCEPT
                  ![b] = IF client[b] = NoConn
                         THEN Reading
                         ELSE [pc |-> "write", pk |-> @.pk, to |-> client[b]]]
  /\ UNCHANGED <<loopVars, client, ready, takeVars, pipeVars, accept, netVars>>

ReaderWrites(b) ==
  /\ ReaderAt(b, "write")
  /\ Write(reader[b].to, reader[b].pk)
  /\ reader' = [reader EXCEPT ![b] = Reading]
  /\ UNCHANGED <<loopVars, sessVars, pipeVars, accept, srvVars, conn>>

-----------------------------------------------------------------------------
\* The two pipes of a handed-over session.
PipeSReads(b) ==
  /\ PipeSAt(b, "read") /\ nread[b] < MaxPkts
  /\ nread' = [nread EXCEPT ![b] = @ + 1]
  /\ pipeS' = [pipeS EXCEPT ![b] = [pc |-> "write", pk |-> nread[b] + 1]]
  /\ UNCHANGED <<loopVars, sessVars, reader, pipeC, accept, srvUp, connVars>>

PipeSWrites(b) ==
  /\ PipeSAt(b, "write") /\ conn[handed[b]] = "open"
  /\ Write(handed[b], pipeS[b].pk)
  /\ pipeS' = [pipeS EXCEPT ![b] = [pc |-> "read", pk |-> 0]]
  /\ UNCHANGED <<loopVars, sessVars, reader, pipeC, accept, srvVars, conn>>

\* ReadPacket or WritePacket fails: the pipe sends its error and is done.
PipeSEnds(b) ==
  /\ \/ PipeSAt(b, "read") /\ ~srvUp[b]
     \/ PipeSAt(b, "write") /\ conn[handed[b]] = "closed"
  /\ pipeS' = [pipeS EXCEPT ![b] = [pc |-> "done", pk |-> 0]]
  /\ UNCHANGED <<loopVars, sessVars, reader, pipeC, accept, netVars>>

\* Reading the client fails once it is closed; writing one of its packets
\* fails once the server is.  What it carries changes nothing here.
ClientClosed(b) == handed[b] # NoConn /\ conn[handed[b]] = "closed"

PipeCEnds(b) ==
  /\ Running /\ pipeC[b] = "run"
  /\ ClientClosed(b) \/ ~srvUp[b]
  /\ pipeC' = [pipeC EXCEPT ![b] = "done"]
  /\ UNCHANGED <<loopVars, sessVars, reader, pipeS, accept, netVars>>

\* The ticker's select finds stop closed.
TickerEnds(b) ==
  /\ Running /\ ticker[b] = "told"
  /\ ticker' = [ticker EXCEPT ![b] = "done"]
  /\ UNCHANGED <<main, bot, activeBot, sessVars, goVars, netVars>>

-----------------------------------------------------------------------------
ServerDrops(b) ==
  /\ Running /\ srvUp[b]
  /\ srvUp' = [srvUp EXCEPT ![b] = FALSE]
  /\ UNCHANGED <<loopVars, sessVars, goVars, nread, connVars>>

ClientDrops(c) ==
  /\ Running /\ conn[c] = "open"
  /\ conn' = [conn EXCEPT ![c] = "closed"]
  /\ UNCHANGED <<loopVars, sessVars, goVars, srvVars, got>>

MainStep ==
  \/ TakeClient \/ StartGameOK \/ StartGameFails \/ Replay \/ StartPipes
  \/ SessionEnds \/ StopTick \/ Unpublish \/ CloseServer

Next ==
  \/ Dial \/ MainStep \/ Attach \/ CloseReady
  \/ \E c \in Conns : Accept(c) \/ ClientDrops(c)
  \/ \E b \in Bots :
       \/ ReaderReads(b) \/ ReaderEnds(b) \/ ReaderCaches(b) \/ ReaderWrites(b)
       \/ PipeSReads(b) \/ PipeSWrites(b) \/ PipeSEnds(b) \/ PipeCEnds(b)
       \/ TickerEnds(b) \/ ServerDrops(b)

Spec == Init /\ [][Next]_vars

\* The Go scheduler runs every goroutine that can run, StartGame returns, and
\* a blocked read returns once its own connection is closed; a select that finds
\* a tick and stop both ready takes either at random, so stop in the end.  Nothing
\* makes a Dial succeed, a packet or a client arrive, or a connection drop.
Fairness ==
  /\ WF_vars(MainStep)
  /\ WF_vars(Attach \/ CloseReady)
  /\ \A b \in Bots :
       /\ WF_vars(ReaderEnds(b) \/ ReaderCaches(b) \/ ReaderWrites(b))
       /\ WF_vars(PipeSWrites(b) \/ PipeSEnds(b))
       /\ WF_vars(ClientClosed(b) /\ PipeCEnds(b))
       /\ WF_vars(TickerEnds(b))

FairSpec == Spec /\ Fairness

-----------------------------------------------------------------------------
TypeOK ==
  /\ main \in MainPC
  /\ bot \in 0..MaxBots
  /\ activeBot \in 0..MaxBots
  /\ ticker \in [Bots -> {"off", "run", "told", "done"}]
  /\ client \in [Bots -> ClientOrNil]
  /\ ready \in [Bots -> BOOLEAN]
  /\ cached \in [Bots -> Seq(Pkts)]
  /\ handed \in [Bots -> ClientOrNil]
  /\ replayed \in Nat
  /\ reader \in [Bots -> ReaderStates]
  /\ pipeS \in [Bots -> PipeStates]
  /\ pipeC \in [Bots -> {"off", "run", "done"}]
  /\ accept \in AcceptStates
  /\ accept.pc # "accept" => accept.conn \in Conns /\ accept.bot \in Bots
  /\ srvUp \in [Bots -> BOOLEAN]
  /\ nread \in [Bots -> 0..MaxPkts]
  /\ conn \in [Conns -> ConnState]
  /\ got \in [Conns -> Seq(0..MaxPkts)]

\* Whoever is released by clientReady finds a client: TakeoverBot sets it under
\* the mutex before it closes the channel, and runBot reads it without the
\* mutex (headless.go:178).
ClientBeforeReady == \A b \in Bots : ready[b] => client[b] \in Conns

\* A client that takes an untaken bot over gets a bot that is still there:
\* between TakeoverBot's read of activeBot and its close of clientReady, the
\* bot stays current and published, waiting for exactly this client.
TakeoverServed ==
  accept.pc \in {"attach", "close"} /\ ~ready[accept.bot] =>
    main = "wait" /\ bot = accept.bot /\ activeBot = accept.bot

\* No state packet falls between the replay, the reader and the pipe: in a
\* session whose client is open and has not been replaced, every state packet
\* read so far has been written to the client or is in a reader's hands.
NoStateLost ==
  main = "session" /\ client[bot] = handed[bot]
                   /\ conn[handed[bot]] = "open" =>
    \A pk \in StatePkts :
      pk <= nread[bot] => \/ pk \in ToSet(got[handed[bot]])
                          \/ reader[bot].pk = pk
                          \/ pipeS[bot].pk = pk

\* pk is the last state packet of what a client got.
EndsOn(history, pk) ==
  \E i \in DOMAIN history :
    /\ history[i] = pk
    /\ \A j \in DOMAIN history : j > i => history[j] \notin StatePkts

\* The replay leaves the client at the newest cached state, whatever the
\* reader forwarded to the same client before and during the replay.
ReplayCurrent ==
  [][ main = "replay" /\ main' = "session" /\ cached[bot] # << >>
                      /\ conn[handed[bot]] = "open" =>
        EndsOn(got[handed[bot]], Last(cached[bot])) ]_vars

\* A handed-over session that loses either end is followed by a new dial.
ReconnectsAfterHandover ==
  main = "session" /\ (ClientClosed(bot) \/ ~srvUp[bot])
    ~> main = "dial" \/ ~Running

\* The goroutines of a bot runBot has returned from all end: its reader, its
\* ticker and the pipes.
GoroutinesEnd ==
  \A b \in Bots :
    b < bot \/ (b = bot /\ main = "dial")
      ~> \/ /\ reader[b].pc = "done" /\ ticker[b] = "done"
            /\ pipeS[b].pc \in {"off", "done"}
            /\ pipeC[b] \in {"off", "done"}
         \/ ~Running

-----------------------------------------------------------------------------
\* headless.go:64, "Accept real clients in background": the loop goes on.
AcceptSurvives == Running

\* headless.go:78, "Bot loop - reconnects automatically": a bot that has lost
\* its server is followed by a new dial.
Reconnects == bot # 0 /\ ~srvUp[bot] ~> main = "dial" \/ ~Running

\* headless.go:199, "Normal pipe session": what the session writes to a client
\* comes in the order the server sent it.
NormalPipeSession ==
  [][ main = "session" =>
        \A c \in Conns : got'[c] # got[c] /\ got[c] # << >> =>
          Last(got'[c]) >= Last(got[c]) ]_vars
=============================================================================
