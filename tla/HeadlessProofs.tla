--------------------------- MODULE HeadlessProofs ---------------------------
(***************************************************************************)
(* Safety of the headless bot for any number of bots, packets and clients. *)
(***************************************************************************)
EXTENDS Headless, TLAPS

\* Past the dial there is a current bot.
BotStarted == main # "dial" => bot \in Bots

\* The bots in use are among those dialled.
KnownBots == activeBot <= bot /\ accept.bot <= bot

\* TakeoverBot reaches close(clientReady) with its client attached.
ClosingAttached == accept.pc = "close" => client[accept.bot] \in Conns

\* Of the bots dialled only the current one can be untaken, and then it is
\* published and waiting: runBot leaves the wait through clientReady alone.
UntakenWaits ==
  \A b \in Bots : b <= bot /\ ~ready[b] =>
    b = bot /\ main = "wait" /\ activeBot = b

HandoverInv ==
  /\ TypeOK
  /\ BotStarted
  /\ KnownBots
  /\ ClosingAttached
  /\ ClientBeforeReady
  /\ UntakenWaits

USE HeadlessAssumption DEF Bots, Pkts, StartGame, Nil

-----------------------------------------------------------------------------
\* What a write adds to a connection's history is still a history.
LEMMA WriteType ==
  ASSUME TypeOK, NEW c, NEW pk \in 0..MaxPkts, Write(c, pk)
  PROVE  got' \in [Conns -> Seq(0..MaxPkts)]
<1>1. CASE c \in Conns
  BY <1>1 DEF TypeOK, Write
<1>2. CASE c \notin Conns
  <2>1. [got EXCEPT ![c] = Append(@, pk)] = got
    BY <1>2 DEF TypeOK
  <2> QED
    BY <2>1 DEF TypeOK, Write
<1> QED
  BY <1>1, <1>2

LEMMA RecordTypes ==
  /\ Reading \in ReaderStates
  /\ Ended \in ReaderStates
  /\ \A pk \in 0..MaxPkts, to \in ClientOrNil :
       /\ [pc |-> "cache", pk |-> pk, to |-> to] \in ReaderStates
       /\ [pc |-> "write", pk |-> pk, to |-> to] \in ReaderStates
  /\ [pc |-> "read", pk |-> 0] \in PipeStates
  /\ [pc |-> "done", pk |-> 0] \in PipeStates
  /\ \A pk \in 0..MaxPkts : [pc |-> "write", pk |-> pk] \in PipeStates
  /\ Accepting \in AcceptStates
BY DEF Reading, Ended, ReaderStates, PipeStates, Accepting, AcceptStates,
       ClientOrNil

\* The next packet of the replay is one the bot cached.
LEMMA NextCachedType ==
  ASSUME TypeOK, bot \in Bots, replayed < Len(cached[bot])
  PROVE  NextCached \in Pkts
<1>1. cached[bot] \in Seq(Pkts) /\ replayed + 1 \in 1..Len(cached[bot])
  BY DEF TypeOK
<1>2. ASSUME NEW q \in Seq(Pkts), NEW i \in 1..Len(q) PROVE q[i] \in Pkts
  OBVIOUS
<1> QED BY <1>1, <1>2 DEF NextCached

LEMMA TypeInit == Init => TypeOK
BY DEF Init, TypeOK, NotStarted, Accepting, MainPC, ConnState, ClientOrNil,
       ReaderStates, PipeStates, AcceptStates

\* Every step keeps the types, given that past the dial there is a bot.
LEMMA TypeStep == TypeOK /\ BotStarted /\ [Next]_vars => TypeOK'
<1> SUFFICES ASSUME TypeOK, BotStarted, [Next]_vars PROVE TypeOK'
    OBVIOUS
<1> USE DEF MainAt, MainPC, vars, sessVars, goVars, netVars, loopVars,
            botVars, takeVars, pipeVars, srvVars, connVars
<1>1. CASE Dial
  <2>1. /\ main' \in MainPC /\ bot' \in 0..MaxBots /\ activeBot' \in 0..MaxBots
    BY <1>1 DEF TypeOK, Dial
  <2>2. srvUp' \in [Bots -> BOOLEAN]
    BY <1>1 DEF TypeOK, Dial
  <2>3. reader' \in [Bots -> ReaderStates]
    BY <1>1, RecordTypes DEF TypeOK, Dial
  <2>4. ticker' \in [Bots -> {"off", "run", "told", "done"}]
    BY <1>1 DEF TypeOK, Dial
  <2> QED
    BY <1>1, <2>1, <2>2, <2>3, <2>4 DEF TypeOK, Dial
<1>2. CASE TakeClient
  BY <1>2 DEF TypeOK, TakeClient
<1>3. CASE StartGameOK
  <2>1. got' \in [Conns -> Seq(0..MaxPkts)]
    BY <1>3, WriteType DEF StartGameOK
  <2> QED
    BY <1>3, <2>1 DEF TypeOK, StartGameOK
<1>4. CASE StartGameFails
  BY <1>4 DEF TypeOK, StartGameFails
<1>5. CASE Replay
  <2>1. bot \in Bots
    BY <1>5 DEF BotStarted, Replay
  <2>2. got' \in [Conns -> Seq(0..MaxPkts)]
    BY <1>5, <2>1, NextCachedType, WriteType DEF Replay
  <2> QED
    BY SMTT(30), <1>5, <2>2 DEF TypeOK, Replay
<1>6. CASE StartPipes
  <2>1. pipeS' \in [Bots -> PipeStates]
    BY <1>6, RecordTypes DEF TypeOK, StartPipes
  <2>2. pipeC' \in [Bots -> {"off", "run", "done"}]
    BY <1>6 DEF TypeOK, StartPipes
  <2> QED
    BY <1>6, <2>1, <2>2 DEF TypeOK, StartPipes
<1>7. CASE SessionEnds
  BY <1>7 DEF TypeOK, SessionEnds, ConnState
<1>8. CASE Unpublish
  BY <1>8 DEF TypeOK, Unpublish
<1>9. CASE CloseServer
  BY <1>9 DEF TypeOK, CloseServer
<1>10. CASE Attach
  <2>1. client' \in [Bots -> ClientOrNil]
    BY <1>10 DEF TypeOK, Attach, AcceptStates
  <2>2. accept' \in AcceptStates
    BY <1>10 DEF TypeOK, Attach, AcceptStates
  <2>3. accept'.conn \in Conns /\ accept'.bot \in Bots
    BY <1>10 DEF TypeOK, Attach, AcceptStates
  <2> QED
    BY <1>10, <2>1, <2>2, <2>3 DEF TypeOK, Attach
<1>11. CASE CloseReady
  <2>1. ready' \in [Bots -> BOOLEAN]
    BY <1>11 DEF TypeOK, CloseReady
  <2>2. accept' \in AcceptStates
    <3>1. [accept EXCEPT !.pc = "panicked"] \in AcceptStates
      BY DEF TypeOK, AcceptStates
    <3> QED
      BY <1>11, <3>1, RecordTypes DEF CloseReady
  <2>3. accept'.pc # "accept" => accept'.conn \in Conns /\ accept'.bot \in Bots
    BY <1>11 DEF TypeOK, CloseReady, AcceptStates, Accepting
  <2> QED
    BY <1>11, <2>1, <2>2, <2>3 DEF TypeOK, CloseReady
<1>12. ASSUME NEW c \in Conns, Accept(c) PROVE TypeOK'
  <2>1. conn' \in [Conns -> ConnState]
    <3>1. \E s \in ConnState : conn' = [conn EXCEPT ![c] = s]
      BY <1>12 DEF Accept, ConnState
    <3> QED BY <3>1 DEF TypeOK
  <2>2. accept' \in AcceptStates
    BY <1>12 DEF TypeOK, Accept, Taking, AcceptStates, ClientOrNil
  <2>3. accept'.pc # "accept" => accept'.conn \in Conns /\ accept'.bot \in Bots
    BY <1>12 DEF TypeOK, Accept, NoActiveBot, Taking
  <2> QED
    BY <1>12, <2>1, <2>2, <2>3 DEF TypeOK, Accept
<1>13. ASSUME NEW c \in Conns, ClientDrops(c) PROVE TypeOK'
  BY <1>13 DEF TypeOK, ClientDrops, ConnState
<1>14. ASSUME NEW b \in Bots, ReaderReads(b) PROVE TypeOK'
  <2>1. nread' \in [Bots -> 0..MaxPkts] /\ nread[b] + 1 \in 0..MaxPkts
    BY <1>14 DEF TypeOK, ReaderReads
  <2>2. reader' \in [Bots -> ReaderStates]
    BY <1>14, <2>1, RecordTypes DEF TypeOK, ReaderReads, ClientOrNil
  <2> QED
    BY <1>14, <2>1, <2>2 DEF TypeOK, ReaderReads
<1>15. ASSUME NEW b \in Bots, ReaderEnds(b) PROVE TypeOK'
  BY <1>15, RecordTypes DEF TypeOK, ReaderEnds
<1>16. ASSUME NEW b \in Bots, ReaderCaches(b) PROVE TypeOK'
  <2>1. reader[b].pk \in 0..MaxPkts /\ client[b] \in ClientOrNil
    BY DEF TypeOK, ReaderStates
  <2>2. cached' \in [Bots -> Seq(Pkts)]
    <3>1. CASE reader[b].pk \in StatePkts
      BY <1>16, <3>1 DEF TypeOK, ReaderCaches
    <3> QED
      BY <1>16, <3>1 DEF TypeOK, ReaderCaches
  <2>3. reader' \in [Bots -> ReaderStates]
    BY <1>16, <2>1, RecordTypes DEF TypeOK, ReaderCaches
  <2> QED
    BY <1>16, <2>2, <2>3 DEF TypeOK, ReaderCaches
<1>17. ASSUME NEW b \in Bots, ReaderWrites(b) PROVE TypeOK'
  <2>1. got' \in [Conns -> Seq(0..MaxPkts)]
    BY <1>17, WriteType DEF TypeOK, ReaderWrites, ReaderStates
  <2> QED
    BY <1>17, <2>1, RecordTypes DEF TypeOK, ReaderWrites
<1>18. ASSUME NEW b \in Bots, PipeSReads(b) PROVE TypeOK'
  <2>1. nread' \in [Bots -> 0..MaxPkts] /\ nread[b] + 1 \in 0..MaxPkts
    BY <1>18 DEF TypeOK, PipeSReads
  <2>2. pipeS' \in [Bots -> PipeStates]
    BY <1>18, <2>1, RecordTypes DEF TypeOK, PipeSReads
  <2> QED
    BY <1>18, <2>1, <2>2 DEF TypeOK, PipeSReads
<1>19. ASSUME NEW b \in Bots, PipeSWrites(b) PROVE TypeOK'
  <2>1. got' \in [Conns -> Seq(0..MaxPkts)]
    BY <1>19, WriteType DEF TypeOK, PipeSWrites, PipeStates
  <2>2. pipeS' \in [Bots -> PipeStates]
    BY <1>19, RecordTypes DEF TypeOK, PipeSWrites
  <2> QED
    BY <1>19, <2>1, <2>2 DEF TypeOK, PipeSWrites
<1>20. ASSUME NEW b \in Bots, PipeSEnds(b) PROVE TypeOK'
  BY <1>20, RecordTypes DEF TypeOK, PipeSEnds
<1>21. ASSUME NEW b \in Bots, PipeCEnds(b) PROVE TypeOK'
  BY <1>21 DEF TypeOK, PipeCEnds
<1>22. ASSUME NEW b \in Bots, ServerDrops(b) PROVE TypeOK'
  BY <1>22 DEF TypeOK, ServerDrops
<1>23. ASSUME NEW b \in Bots, TickerEnds(b) PROVE TypeOK'
  BY <1>23 DEF TypeOK, TickerEnds
<1>24. CASE StopTick
  BY <1>24 DEF TypeOK, StopTick
<1>25. CASE UNCHANGED vars
  BY <1>25 DEF TypeOK
<1> QED
  BY <1>1, <1>2, <1>3, <1>4, <1>5, <1>6, <1>7, <1>8, <1>9, <1>10, <1>11, <1>12,
     <1>13, <1>14, <1>15, <1>16, <1>17, <1>18, <1>19, <1>20, <1>21, <1>22,
     <1>23, <1>24, <1>25 DEF Next, MainStep

-----------------------------------------------------------------------------
\* The part of the invariant that is not about types.
HandoverRest ==
  BotStarted /\ KnownBots /\ ClosingAttached /\ ClientBeforeReady /\ UntakenWaits

LEMMA HandoverInit == Init => HandoverInv
<1> SUFFICES ASSUME Init PROVE HandoverInv
    OBVIOUS
<1>1. TypeOK
  BY TypeInit
<1>2. HandoverRest
  BY DEF Init, Accepting, HandoverRest, BotStarted, KnownBots, ClosingAttached,
         ClientBeforeReady, UntakenWaits
<1> QED
  BY <1>1, <1>2 DEF HandoverInv, HandoverRest

\* What HandoverRest reads; most steps leave all of it alone.
LEMMA HandoverFrame ==
  ASSUME HandoverRest, UNCHANGED <<main, bot, activeBot, client, ready, accept>>
  PROVE  HandoverRest'
BY DEF HandoverRest, BotStarted, KnownBots, ClosingAttached, ClientBeforeReady,
       UntakenWaits

LEMMA HandoverStep == HandoverInv /\ [Next]_vars => HandoverInv'
<1> SUFFICES ASSUME HandoverInv, [Next]_vars PROVE HandoverInv'
    OBVIOUS
<1> USE DEF MainAt, vars, sessVars, goVars, netVars, loopVars, botVars, takeVars,
            pipeVars, srvVars, connVars
<1>t. TypeOK /\ HandoverRest
  BY DEF HandoverInv, HandoverRest
<1>u. TypeOK'
  BY TypeStep DEF HandoverInv
<1>1. CASE Dial
  \* The new bot is untaken, waiting and published; every earlier one is taken.
  <2>1. \A b \in Bots : b <= bot => ready[b]
    BY <1>1, <1>t DEF HandoverRest, UntakenWaits, Dial
  <2>2. BotStarted' /\ KnownBots'
    BY <1>1, <1>t DEF TypeOK, AcceptStates, HandoverRest, BotStarted, KnownBots, Dial
  <2>3. ClosingAttached' /\ ClientBeforeReady'
    BY <1>1, <1>t DEF HandoverRest, ClosingAttached, ClientBeforeReady, Dial
  <2>4. UntakenWaits'
    BY <1>1, <1>t, <2>1 DEF TypeOK, UntakenWaits, Dial
  <2> QED
    BY <2>2, <2>3, <2>4, <1>u DEF HandoverInv, HandoverRest
<1>2. CASE TakeClient
  \* The current bot is taken, so nobody is left untaken.
  <2>1. \A b \in Bots : b <= bot => ready[b]
    BY <1>2, <1>t DEF HandoverRest, UntakenWaits, TakeClient, ClientIsReady
  <2> QED
    BY <1>2, <1>t, <1>u, <2>1
    DEF HandoverInv, HandoverRest, BotStarted, KnownBots, ClosingAttached,
        ClientBeforeReady, UntakenWaits, TakeClient
<1>3. CASE StartGameOK \/ StartGameFails \/ StartPipes \/ SessionEnds
           \/ StopTick \/ Unpublish \/ CloseServer
  \* main moves on among the states past the wait.
  <2>1. /\ main # "wait" /\ main # "dial" /\ main' # "wait"
        /\ activeBot' \in {activeBot, Nil}
        /\ UNCHANGED <<bot, client, ready, accept>>
    BY <1>3 DEF StartGameOK, StartGameFails, StartPipes, SessionEnds, StopTick, Unpublish,
                CloseServer
  <2>2. \A b \in Bots : b <= bot => ready[b]
    BY <2>1, <1>t DEF HandoverRest, UntakenWaits
  <2>3. BotStarted' /\ KnownBots'
    BY <1>t, <2>1 DEF TypeOK, HandoverRest, BotStarted, KnownBots
  <2>4. ClosingAttached' /\ ClientBeforeReady' /\ UntakenWaits'
    BY <1>t, <2>1, <2>2
    DEF HandoverRest, ClosingAttached, ClientBeforeReady, UntakenWaits
  <2> QED
    BY <1>u, <2>3, <2>4 DEF HandoverInv, HandoverRest
<1>4. ASSUME NEW c \in Conns, Accept(c) PROVE HandoverInv'
  <2>1. accept' = accept \/ accept' = [pc |-> "attach", conn |-> c, bot |-> activeBot]
    BY <1>4 DEF Accept, Taking
  <2> QED
    BY <1>4, <1>t, <1>u, <2>1
    DEF TypeOK, HandoverInv, HandoverRest, BotStarted, KnownBots, ClosingAttached,
        ClientBeforeReady, UntakenWaits, Accept
<1>5. CASE Attach
  <2>1. /\ accept.bot \in Bots /\ accept.conn \in Conns
        /\ accept'.bot = accept.bot
        /\ client' = [client EXCEPT ![accept.bot] = accept.conn]
    BY <1>5, <1>t DEF TypeOK, AcceptStates, Attach
  <2>2. ClosingAttached' /\ ClientBeforeReady'
    BY <1>5, <1>t, <2>1
    DEF TypeOK, HandoverRest, ClosingAttached, ClientBeforeReady, Attach
  <2> QED
    BY <1>5, <1>t, <1>u, <2>1, <2>2
    DEF HandoverInv, HandoverRest, BotStarted, KnownBots, UntakenWaits, Attach
<1>6. CASE CloseReady
  <2>1. accept.bot \in Bots /\ client[accept.bot] \in Conns
    BY <1>6, <1>t DEF TypeOK, HandoverRest, ClosingAttached, CloseReady
  <2>2. /\ ready' = [ready EXCEPT ![accept.bot] = TRUE]
        /\ accept'.pc # "close" /\ accept'.bot \in {accept.bot, Nil}
    BY <1>6, <1>t DEF TypeOK, AcceptStates, CloseReady, Accepting
  <2>3. ClosingAttached' /\ ClientBeforeReady'
    BY <1>6, <1>t, <2>1, <2>2
    DEF TypeOK, HandoverRest, ClosingAttached, ClientBeforeReady, CloseReady
  <2>4. BotStarted' /\ KnownBots'
    BY SMTT(30), <1>6, <1>t, <2>2 DEF TypeOK, HandoverRest, BotStarted, KnownBots, CloseReady
  <2>5. UntakenWaits'
    BY <1>6, <1>t, <2>2 DEF TypeOK, HandoverRest, UntakenWaits, CloseReady
  <2> QED
    BY <1>u, <2>3, <2>4, <2>5 DEF HandoverInv, HandoverRest
<1>7. CASE \/ Replay \/ UNCHANGED vars
           \/ \E c \in Conns : ClientDrops(c)
           \/ \E b \in Bots :
                \/ ReaderReads(b) \/ ReaderEnds(b) \/ ReaderCaches(b)
                \/ ReaderWrites(b) \/ PipeSReads(b) \/ PipeSWrites(b)
                \/ PipeSEnds(b) \/ PipeCEnds(b) \/ TickerEnds(b) \/ ServerDrops(b)
  <2>1. UNCHANGED <<main, bot, activeBot, client, ready, accept>>
    BY <1>7 DEF Replay, ClientDrops, ReaderReads, ReaderEnds, ReaderCaches,
                ReaderWrites, PipeSReads, PipeSWrites, PipeSEnds, PipeCEnds,
                TickerEnds, ServerDrops
  <2>2. HandoverRest'
    BY <2>1, <1>t, HandoverFrame
  <2> QED
    BY <1>u, <2>2 DEF HandoverInv, HandoverRest
<1> QED
  BY <1>1, <1>2, <1>3, <1>4, <1>5, <1>6, <1>7 DEF Next, MainStep

\* Every reachable state satisfies the invariant.
THEOREM Handover == Spec => []HandoverInv
BY HandoverInit, HandoverStep, PTL DEF Spec

\* Every variable keeps its type: in particular no goroutine ever uses a bot
\* number out of range, and TakeoverBot never works on a nil bot.
THEOREM TypeCorrect == Spec => []TypeOK
<1>1. HandoverInv => TypeOK
  BY DEF HandoverInv
<1> QED
  BY <1>1, Handover, PTL

\* Whoever is released by clientReady finds a client (headless.go:178).
THEOREM ReleasedWithClient == Spec => []ClientBeforeReady
<1>1. HandoverInv => ClientBeforeReady
  BY DEF HandoverInv
<1> QED
  BY <1>1, Handover, PTL

\* A client that takes an untaken bot over gets one that still waits for it,
\* whatever happens between TakeoverBot's read of activeBot and its close of
\* clientReady.
THEOREM TakeoverIsServed == Spec => []TakeoverServed
<1>1. HandoverInv => TakeoverServed
  BY DEF HandoverInv, TypeOK, KnownBots, UntakenWaits, TakeoverServed
<1> QED
  BY <1>1, Handover, PTL
=============================================================================
