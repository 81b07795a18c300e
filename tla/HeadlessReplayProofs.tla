------------------------ MODULE HeadlessReplayProofs ------------------------
(***************************************************************************)
(* No state packet is lost in a handover: the invariant behind NoStateLost *)
(* follows a packet from ReadPacket through the cache and the replay, or   *)
(* through the reader or the pipe, to the client.  And the replay ends on  *)
(* the newest: what the reader wrote to the same client before it waited   *)
(* for the mutex is no newer than the cache (CurrentInv).                  *)
(***************************************************************************)
EXTENDS HeadlessProofs

\* A connection is accepted once, so nobody holds one that is still new, and
\* the one TakeoverBot is about to attach is not yet anybody's client.
FreshClients ==
  /\ \A c \in Conns : conn[c] = "new" =>
       /\ \A b \in Bots : client[b] # c /\ handed[b] # c
       /\ accept.pc # "accept" => accept.conn # c
  /\ accept.pc = "attach" =>
       \A b \in Bots : client[b] # accept.conn /\ handed[b] # accept.conn

\* Between the handover and the end of the session runBot has a client.
HandedClient == main \in {"startgame", "replay", "session"} => handed[bot] \in Conns

\* Only a reader or a pipe that is busy has a packet in its hands.
IdleHands ==
  \A b \in Bots : /\ reader[b].pc \in {"off", "read", "done"} => reader[b].pk = 0
                  /\ pipeS[b].pc \in {"off", "read", "done"} => pipeS[b].pk = 0

\* The server of a bot to come has sent nothing and nobody reads it, and no
\* pipe runs before the session.
QuietBefore ==
  /\ \A b \in Bots : b > bot => nread[b] = 0 /\ pipeS[b].pc = "off" /\ reader[b].pc = "off"
  /\ main \in {"wait", "startgame", "replay"} => pipeS[bot].pc = "off"

\* Up to the session every state packet read is cached, or about to be.
CachedBefore ==
  main \in {"wait", "startgame", "replay"} =>
    \A pk \in StatePkts : pk <= nread[bot] =>
      \/ pk \in ToSet(cached[bot])
      \/ reader[bot].pc = "cache" /\ reader[bot].pk = pk

\* The replay has written what it has passed.
ReplayedSoFar ==
  main = "replay" /\ conn[handed[bot]] = "open" =>
    \A i \in 1..Len(cached[bot]) :
      i <= replayed => cached[bot][i] \in ToSet(got[handed[bot]])

\* In the session every state packet read has been written, or is on its way
\* to the client in the hands of the reader or the pipe.
DeliveredInSession ==
  main = "session" /\ client[bot] = handed[bot] /\ conn[handed[bot]] = "open" =>
    \A pk \in StatePkts : pk <= nread[bot] =>
      \/ pk \in ToSet(got[handed[bot]])
      \/ /\ reader[bot].pk = pk
         /\ reader[bot].pc = "write" => reader[bot].to = handed[bot]
      \/ pipeS[bot].pk = pk

ReplayInv ==
  /\ HandoverInv
  /\ FreshClients
  /\ HandedClient
  /\ IdleHands
  /\ QuietBefore
  /\ CachedBefore
  /\ ReplayedSoFar
  /\ DeliveredInSession

-----------------------------------------------------------------------------
LEMMA AppendedSet ==
  ASSUME NEW s \in Seq(0..MaxPkts), NEW e \in 0..MaxPkts
  PROVE  ToSet(Append(s, e)) = ToSet(s) \cup {e}
<1>1. Append(s, e) \in Seq(0..MaxPkts) /\ Len(Append(s, e)) = Len(s) + 1
  OBVIOUS
<1>2. \A i \in 1..Len(s) : Append(s, e)[i] = s[i]
  OBVIOUS
<1>3. Append(s, e)[Len(s) + 1] = e
  OBVIOUS
<1> QED
  BY <1>1, <1>2, <1>3 DEF ToSet

\* A write takes nothing away, and reaches an open connection.
LEMMA WriteDelivers ==
  ASSUME TypeOK, NEW c \in Conns, NEW pk \in 0..MaxPkts, Write(c, pk)
  PROVE  /\ \A d \in Conns : ToSet(got[d]) \subseteq ToSet(got'[d])
         /\ conn[c] = "open" => pk \in ToSet(got'[c])
<1>1. \A d \in Conns : got[d] \in Seq(0..MaxPkts)
  BY DEF TypeOK
<1>2. CASE conn[c] = "open"
  <2>1. got' = [got EXCEPT ![c] = Append(got[c], pk)]
    BY <1>2 DEF Write
  <2>2. ToSet(got'[c]) = ToSet(got[c]) \cup {pk}
    <3>1. got'[c] = Append(got[c], pk)
      BY <2>1 DEF TypeOK
    <3>2. got[c] \in Seq(0..MaxPkts)
      BY <1>1
    <3>3. ToSet(Append(got[c], pk)) = ToSet(got[c]) \cup {pk}
      BY <3>2, AppendedSet
    <3> QED
      BY <3>1, <3>3
  <2>3. \A d \in Conns : d # c => got'[d] = got[d]
    BY <2>1 DEF TypeOK
  <2> QED
    BY <2>2, <2>3
<1>3. CASE conn[c] # "open"
  BY <1>3 DEF Write
<1> QED
  BY <1>2, <1>3

\* A write to something that is no connection changes nothing.
LEMMA GotGrows ==
  ASSUME TypeOK, NEW c, NEW pk \in 0..MaxPkts, Write(c, pk)
  PROVE  \A d \in Conns : ToSet(got[d]) \subseteq ToSet(got'[d])
<1>1. CASE c \in Conns
  BY <1>1, WriteDelivers
<1>2. CASE c \notin Conns
  <2>1. [got EXCEPT ![c] = Append(@, pk)] = got
    BY <1>2 DEF TypeOK
  <2> QED
    BY <2>1 DEF Write
<1> QED
  BY <1>1, <1>2

-----------------------------------------------------------------------------
LEMMA ReplayInit == Init => ReplayInv
<1> SUFFICES ASSUME Init PROVE ReplayInv
    OBVIOUS
<1>1. HandoverInv
  BY HandoverInit
<1>2. FreshClients /\ HandedClient /\ IdleHands
  BY HeadlessAssumption
  DEF Init, Accepting, NotStarted, FreshClients, HandedClient, IdleHands
<1>3. QuietBefore /\ CachedBefore /\ ReplayedSoFar /\ DeliveredInSession
  BY DEF Init, NotStarted, QuietBefore, CachedBefore, ReplayedSoFar,
         DeliveredInSession
<1> QED
  BY <1>1, <1>2, <1>3 DEF ReplayInv

LEMMA FreshStep == ReplayInv /\ [Next]_vars => FreshClients'
<1> SUFFICES ASSUME ReplayInv, [Next]_vars PROVE FreshClients'
    OBVIOUS
<1> USE DEF MainAt, vars, sessVars, goVars, netVars, loopVars, botVars, takeVars,
            pipeVars, srvVars, connVars
<1>t. TypeOK /\ BotStarted /\ FreshClients
  BY DEF ReplayInv, HandoverInv
<1>1. CASE TakeClient
  BY <1>1, <1>t DEF TypeOK, FreshClients, BotStarted, TakeClient
<1>2. ASSUME NEW c \in Conns, Accept(c) PROVE FreshClients'
  <2>1. CASE NoActiveBot
    <3>1. conn' = [conn EXCEPT ![c] = "proxied"] /\ UNCHANGED <<accept, client, handed>>
      BY <1>2, <2>1 DEF Accept
    <3> QED
      BY <3>1, <1>t DEF TypeOK, FreshClients
  <2>2. CASE ~NoActiveBot
    <3>1. /\ conn[c] = "new" /\ accept.pc = "accept"
          /\ conn' = [conn EXCEPT ![c] = "open"]
          /\ accept'.pc = "attach" /\ accept'.conn = c
          /\ UNCHANGED <<client, handed>>
      BY <1>2, <2>2 DEF Accept, Taking
    <3> QED
      BY <3>1, <1>t DEF TypeOK, FreshClients
  <2> QED
    BY <2>1, <2>2
<1>3. CASE Attach
  <2>1. /\ accept.pc = "attach" /\ accept'.pc = "close" /\ accept'.conn = accept.conn
        /\ client' = [client EXCEPT ![accept.bot] = accept.conn]
        /\ UNCHANGED <<conn, handed>>
    BY <1>3, <1>t DEF TypeOK, AcceptStates, Attach
  <2> QED
    BY <2>1, <1>t DEF TypeOK, FreshClients
<1>4. CASE CloseReady
  <2>1. /\ accept.pc = "close" /\ accept'.pc \in {"accept", "panicked"}
        /\ accept'.pc = "panicked" => accept'.conn = accept.conn
        /\ UNCHANGED <<conn, client, handed>>
    BY <1>4, <1>t DEF TypeOK, AcceptStates, CloseReady, Accepting
  <2> QED
    BY <2>1, <1>t DEF TypeOK, FreshClients
<1>5. CASE SessionEnds
  BY <1>5, <1>t DEF TypeOK, FreshClients, SessionEnds
<1>6. ASSUME NEW c \in Conns, ClientDrops(c) PROVE FreshClients'
  BY <1>6, <1>t DEF TypeOK, FreshClients, ClientDrops
<1>7. CASE \/ Dial \/ StartGameOK \/ StartGameFails \/ Replay \/ StartPipes
           \/ StopTick \/ Unpublish \/ CloseServer \/ UNCHANGED vars
           \/ \E b \in Bots :
                \/ ReaderReads(b) \/ ReaderEnds(b) \/ ReaderCaches(b)
                \/ ReaderWrites(b) \/ PipeSReads(b) \/ PipeSWrites(b)
                \/ PipeSEnds(b) \/ PipeCEnds(b) \/ TickerEnds(b) \/ ServerDrops(b)
  <2>1. UNCHANGED <<conn, client, handed, accept>>
    BY <1>7 DEF Dial, StartGameOK, StartGameFails, Replay, StartPipes, StopTick, Unpublish,
                CloseServer, ReaderReads, ReaderEnds, ReaderCaches, ReaderWrites,
                PipeSReads, PipeSWrites, PipeSEnds, PipeCEnds, TickerEnds, ServerDrops
  <2> QED
    BY <2>1, <1>t DEF FreshClients
<1> QED
  BY <1>1, <1>2, <1>3, <1>4, <1>5, <1>6, <1>7 DEF Next, MainStep

LEMMA HandedStep == ReplayInv /\ [Next]_vars => HandedClient'
<1> SUFFICES ASSUME ReplayInv, [Next]_vars PROVE HandedClient'
    OBVIOUS
<1> USE DEF MainAt, vars, sessVars, goVars, netVars, loopVars, botVars, takeVars,
            pipeVars, srvVars, connVars
<1>t. TypeOK /\ BotStarted /\ ClientBeforeReady /\ HandedClient
  BY DEF ReplayInv, HandoverInv
<1>1. CASE TakeClient
  <2>1. bot \in Bots /\ client[bot] \in Conns
    BY <1>1, <1>t DEF BotStarted, ClientBeforeReady, TakeClient, ClientIsReady
  <2> QED
    BY <1>1, <1>t, <2>1 DEF TypeOK, HandedClient, TakeClient
<1>2. CASE Dial \/ StartGameFails \/ SessionEnds \/ StopTick \/ Unpublish \/ CloseServer
  BY <1>2 DEF HandedClient, Dial, StartGameFails, SessionEnds, StopTick, Unpublish, CloseServer
<1>3. CASE StartGameOK \/ StartPipes
  BY <1>3, <1>t DEF HandedClient, StartGameOK, StartPipes
<1>4. CASE \/ Replay \/ Attach \/ CloseReady \/ UNCHANGED vars
           \/ \E c \in Conns : Accept(c) \/ ClientDrops(c)
           \/ \E b \in Bots :
                \/ ReaderReads(b) \/ ReaderEnds(b) \/ ReaderCaches(b)
                \/ ReaderWrites(b) \/ PipeSReads(b) \/ PipeSWrites(b)
                \/ PipeSEnds(b) \/ PipeCEnds(b) \/ TickerEnds(b) \/ ServerDrops(b)
  <2>1. UNCHANGED <<main, bot, handed>>
    BY <1>4 DEF Replay, Attach, CloseReady, Accept, ClientDrops, ReaderReads,
                ReaderEnds, ReaderCaches, ReaderWrites, PipeSReads, PipeSWrites,
                PipeSEnds, PipeCEnds, TickerEnds, ServerDrops
  <2> QED
    BY <2>1, <1>t DEF HandedClient
<1> QED
  BY <1>1, <1>2, <1>3, <1>4 DEF Next, MainStep

LEMMA IdleStep == ReplayInv /\ [Next]_vars => IdleHands'
<1> SUFFICES ASSUME ReplayInv, [Next]_vars PROVE IdleHands'
    OBVIOUS
<1> USE DEF MainAt, vars, sessVars, goVars, netVars, loopVars, botVars, takeVars,
            pipeVars, srvVars, connVars
<1>t. TypeOK /\ IdleHands
  BY DEF ReplayInv, HandoverInv
<1>1. CASE Dial
  BY <1>1, <1>t DEF TypeOK, IdleHands, Dial, Reading
<1>2. CASE StartPipes
  BY <1>2, <1>t DEF TypeOK, IdleHands, StartPipes
<1>3. ASSUME NEW b \in Bots, ReaderReads(b) \/ ReaderEnds(b) \/ ReaderWrites(b)
      PROVE  IdleHands'
  <2>1. /\ UNCHANGED pipeS
        /\ \/ reader'[b].pc = "cache"
           \/ reader'[b].pk = 0
        /\ \A d \in Bots : d # b => reader'[d] = reader[d]
    BY <1>3, <1>t DEF TypeOK, ReaderReads, ReaderEnds, ReaderWrites, Reading, Ended
  <2> QED
    BY <2>1, <1>t DEF IdleHands
<1>4. ASSUME NEW b \in Bots, ReaderCaches(b) PROVE IdleHands'
  BY <1>4, <1>t DEF TypeOK, IdleHands, ReaderCaches, Reading
<1>5. ASSUME NEW b \in Bots, PipeSReads(b) \/ PipeSWrites(b) \/ PipeSEnds(b)
      PROVE  IdleHands'
  <2>1. /\ UNCHANGED reader
        /\ \/ pipeS'[b].pc = "write"
           \/ pipeS'[b].pk = 0
        /\ \A d \in Bots : d # b => pipeS'[d] = pipeS[d]
    BY <1>5, <1>t DEF TypeOK, PipeSReads, PipeSWrites, PipeSEnds
  <2> QED
    BY <2>1, <1>t DEF IdleHands
<1>6. CASE \/ TakeClient \/ StartGameOK \/ StartGameFails \/ Replay
           \/ SessionEnds \/ StopTick \/ Unpublish \/ CloseServer \/ Attach \/ CloseReady
           \/ UNCHANGED vars
           \/ \E c \in Conns : Accept(c) \/ ClientDrops(c)
           \/ \E b \in Bots : PipeCEnds(b) \/ TickerEnds(b) \/ ServerDrops(b)
  <2>1. UNCHANGED <<reader, pipeS>>
    BY <1>6 DEF TakeClient, StartGameOK, StartGameFails, Replay, SessionEnds,
                StopTick, Unpublish, CloseServer, Attach, CloseReady, Accept, ClientDrops,
                PipeCEnds, TickerEnds, ServerDrops
  <2> QED
    BY <2>1, <1>t DEF IdleHands
<1> QED
  BY <1>1, <1>2, <1>3, <1>4, <1>5, <1>6 DEF Next, MainStep

LEMMA QuietStep == ReplayInv /\ [Next]_vars => QuietBefore'
<1> SUFFICES ASSUME ReplayInv, [Next]_vars PROVE QuietBefore'
    OBVIOUS
<1> USE DEF MainAt, vars, sessVars, goVars, netVars, loopVars, botVars, takeVars,
            pipeVars, srvVars, connVars
<1>t. TypeOK /\ BotStarted /\ QuietBefore
  BY DEF ReplayInv, HandoverInv
<1>1. CASE Dial
  BY <1>1, <1>t, HeadlessAssumption DEF TypeOK, Bots, QuietBefore, Dial
<1>2. CASE StartPipes
  BY <1>2, <1>t DEF TypeOK, Bots, BotStarted, QuietBefore, StartPipes
<1>3. CASE TakeClient \/ StartGameOK \/ StartGameFails \/ SessionEnds
           \/ StopTick \/ Unpublish \/ CloseServer
  <2>1. /\ main' \in {"wait", "startgame", "replay"} =>
             main \in {"wait", "startgame", "replay"}
        /\ UNCHANGED <<bot, nread, pipeS, reader>>
    BY <1>3 DEF TakeClient, StartGameOK, StartGameFails, SessionEnds, StopTick, Unpublish,
                CloseServer
  <2> QED
    BY <2>1, <1>t DEF QuietBefore
<1>4. ASSUME NEW b \in Bots,
             \/ ReaderReads(b) \/ ReaderEnds(b)
             \/ ReaderCaches(b) \/ ReaderWrites(b)
      PROVE  QuietBefore'
  <2>1. ~(b > bot)
    BY <1>4, <1>t DEF QuietBefore, ReaderAt, ReaderReads, ReaderEnds, ReaderCaches,
                      ReaderWrites
  <2>2. /\ UNCHANGED <<main, bot, pipeS>>
        /\ \A d \in Bots : d # b => nread'[d] = nread[d] /\ reader'[d] = reader[d]
    BY <1>4, <1>t DEF TypeOK, ReaderReads, ReaderEnds, ReaderCaches, ReaderWrites
  <2> QED
    BY <2>1, <2>2, <1>t DEF QuietBefore
<1>5. ASSUME NEW b \in Bots, PipeSReads(b) \/ PipeSWrites(b) \/ PipeSEnds(b)
      PROVE  QuietBefore'
  <2>1. pipeS[b].pc # "off"
    BY <1>5 DEF PipeSReads, PipeSWrites, PipeSEnds, PipeSAt
  <2>2. ~(b > bot) /\ (main \in {"wait", "startgame", "replay"} => b # bot)
    BY <2>1, <1>t DEF QuietBefore
  <2>3. /\ UNCHANGED <<main, bot>>
        /\ \A d \in Bots : d # b => nread'[d] = nread[d] /\ pipeS'[d] = pipeS[d]
        /\ UNCHANGED reader
    BY <1>5, <1>t DEF TypeOK, PipeSReads, PipeSWrites, PipeSEnds
  <2> QED
    BY <2>2, <2>3, <1>t DEF QuietBefore, BotStarted
<1>6. CASE \/ Replay \/ Attach \/ CloseReady \/ UNCHANGED vars
           \/ \E c \in Conns : Accept(c) \/ ClientDrops(c)
           \/ \E b \in Bots : PipeCEnds(b) \/ TickerEnds(b) \/ ServerDrops(b)
  <2>1. UNCHANGED <<main, bot, nread, pipeS, reader>>
    BY <1>6 DEF Replay, Attach, CloseReady, Accept, ClientDrops, PipeCEnds,
                TickerEnds, ServerDrops
  <2> QED
    BY <2>1, <1>t DEF QuietBefore
<1> QED
  BY <1>1, <1>2, <1>3, <1>4, <1>5, <1>6 DEF Next, MainStep

\* Caching a packet adds it to the cache and keeps the rest.
LEMMA CachedSet ==
  ASSUME TypeOK, NEW b \in Bots, NEW pk \in StatePkts
  PROVE  ToSet(Append(cached[b], pk)) = ToSet(cached[b]) \cup {pk}
<1>1. cached[b] \in Seq(0..MaxPkts) /\ pk \in 0..MaxPkts
  BY HeadlessAssumption DEF TypeOK, Pkts
<1> QED
  BY <1>1, AppendedSet

LEMMA CachedStep == ReplayInv /\ [Next]_vars => CachedBefore'
<1> SUFFICES ASSUME ReplayInv, [Next]_vars PROVE CachedBefore'
    OBVIOUS
<1> USE DEF MainAt, vars, sessVars, goVars, netVars, loopVars, botVars, takeVars,
            pipeVars, srvVars, connVars
<1>t. TypeOK /\ BotStarted /\ QuietBefore /\ CachedBefore
  BY DEF ReplayInv, HandoverInv
<1> DEFINE Early == main \in {"wait", "startgame", "replay"}
\* A step that keeps the four, or is not early, keeps the property.
<1>f. ASSUME Early' => Early /\ UNCHANGED <<bot, nread[bot], cached[bot], reader[bot]>>
      PROVE  CachedBefore'
  BY <1>f, <1>t DEF CachedBefore
<1>1. CASE Dial
  <2>1. bot' \in Bots /\ bot' > bot /\ nread' = nread
    BY <1>1, <1>t, HeadlessAssumption DEF TypeOK, Bots, Dial
  <2>2. nread'[bot'] = 0
    BY <2>1, <1>t DEF QuietBefore
  <2>3. \A pk \in StatePkts : ~(pk <= 0)
    BY HeadlessAssumption
  <2> QED
    BY <2>2, <2>3 DEF CachedBefore
<1>2. ASSUME NEW b \in Bots, Early', b = bot,
             ReaderReads(b) \/ ReaderEnds(b) \/ ReaderCaches(b) \/ ReaderWrites(b)
      PROVE  CachedBefore'
  <2>1. Early /\ bot' = bot
    BY <1>2 DEF ReaderReads, ReaderEnds, ReaderCaches, ReaderWrites
  <2>2. CASE ReaderReads(b)
    <3>1. \A pk \in StatePkts : pk <= nread[b] => pk \in ToSet(cached[b])
      BY <2>1, <2>2, <1>2, <1>t DEF CachedBefore, ReaderReads, ReaderAt
    <3>2. /\ nread'[b] = nread[b] + 1 /\ cached' = cached
          /\ reader'[b].pc = "cache" /\ reader'[b].pk = nread[b] + 1
      BY <2>2, <1>t DEF TypeOK, ReaderReads
    <3>3. \A pk \in StatePkts : pk <= nread[b] + 1 => pk <= nread[b] \/ pk = nread[b] + 1
      BY <1>t, HeadlessAssumption DEF TypeOK
    <3> QED
      BY <2>1, <1>2, <3>1, <3>2, <3>3 DEF CachedBefore
  <2>3. CASE ReaderEnds(b) \/ ReaderWrites(b)
    <3>1. /\ reader[b].pc # "cache"
          /\ UNCHANGED <<nread, cached>>
      BY <2>3 DEF ReaderEnds, ReaderWrites, ReaderAt
    <3> QED
      BY <2>1, <1>2, <1>t, <3>1 DEF CachedBefore
  <2>4. CASE ReaderCaches(b)
    <3>1. nread' = nread
      BY <2>4 DEF ReaderCaches
    <3>2. /\ ToSet(cached[b]) \subseteq ToSet(cached'[b])
          /\ reader[b].pk \in StatePkts => reader[b].pk \in ToSet(cached'[b])
      <4>1. CASE reader[b].pk \in StatePkts
        <5>1. cached'[b] = Append(cached[b], reader[b].pk)
          BY <2>4, <4>1, <1>t DEF TypeOK, ReaderCaches
        <5> QED
          BY <5>1, <4>1, <1>t, CachedSet
      <4>2. CASE reader[b].pk \notin StatePkts
        BY <2>4, <4>2 DEF ReaderCaches
      <4> QED
        BY <4>1, <4>2
    <3> QED
      BY <2>1, <1>2, <1>t, <3>1, <3>2 DEF CachedBefore
  <2> QED
    BY <1>2, <2>2, <2>3, <2>4
<1>3. ASSUME NEW b \in Bots, b # bot \/ ~Early',
             ReaderReads(b) \/ ReaderEnds(b) \/ ReaderCaches(b) \/ ReaderWrites(b)
      PROVE  CachedBefore'
  <2>1. UNCHANGED <<main, bot>>
    BY <1>3 DEF ReaderReads, ReaderEnds, ReaderCaches, ReaderWrites
  <2>2. \A d \in Bots : d # b =>
          nread'[d] = nread[d] /\ cached'[d] = cached[d] /\ reader'[d] = reader[d]
    <3>1. CASE ReaderReads(b) \/ ReaderEnds(b)
      BY <3>1, <1>t DEF TypeOK, ReaderReads, ReaderEnds
    <3>2. CASE ReaderCaches(b)
      BY <3>2, <1>t DEF TypeOK, ReaderCaches
    <3>3. CASE ReaderWrites(b)
      BY <3>3, <1>t DEF TypeOK, ReaderWrites
    <3> QED
      BY <1>3, <3>1, <3>2, <3>3
  <2>3. Early' => bot \in Bots
    BY <2>1, <1>t DEF BotStarted
  <2> QED
    BY <1>f, <1>3, <2>1, <2>2, <2>3
<1>4. ASSUME NEW b \in Bots, PipeSReads(b) PROVE CachedBefore'
  <2>1. Early => b # bot
    BY <1>4, <1>t DEF QuietBefore, PipeSReads, PipeSAt
  <2>2. /\ UNCHANGED <<main, bot, cached, reader>>
        /\ b # bot => nread'[bot] = nread[bot]
    BY <1>4, <1>t DEF TypeOK, PipeSReads
  <2> QED
    BY <1>f, <2>1, <2>2
<1>5. CASE \/ TakeClient \/ StartGameOK \/ StartGameFails \/ Replay \/ StartPipes
           \/ SessionEnds \/ StopTick \/ Unpublish \/ CloseServer \/ Attach \/ CloseReady
           \/ UNCHANGED vars
           \/ \E c \in Conns : Accept(c) \/ ClientDrops(c)
           \/ \E b \in Bots :
                \/ PipeSWrites(b) \/ PipeSEnds(b) \/ PipeCEnds(b) \/ TickerEnds(b) \/ ServerDrops(b)
  <2>1. /\ Early' => Early
        /\ UNCHANGED <<bot, nread, cached, reader>>
    BY <1>5 DEF TakeClient, StartGameOK, StartGameFails, Replay, StartPipes,
                SessionEnds, StopTick, Unpublish, CloseServer, Attach, CloseReady, Accept,
                ClientDrops, PipeSWrites, PipeSEnds, PipeCEnds, TickerEnds, ServerDrops
  <2> QED
    BY <1>f, <2>1
<1> QED
  BY <1>1, <1>2, <1>3, <1>4, <1>5 DEF Next, MainStep

\* A step opens no connection that somebody has been handed.
LEMMA StaysShut ==
  ASSUME ReplayInv, [Next]_vars, bot \in Bots, handed[bot] \in Conns,
         conn'[handed[bot]] = "open"
  PROVE  conn[handed[bot]] = "open"
<1> USE DEF MainAt, vars, sessVars, goVars, netVars, loopVars, botVars, takeVars,
            pipeVars, srvVars, connVars
<1>t. TypeOK /\ FreshClients
  BY DEF ReplayInv, HandoverInv
<1>1. ASSUME NEW c \in Conns, Accept(c) PROVE conn[handed[bot]] = "open"
  <2>1. c # handed[bot]
    BY <1>1, <1>t DEF FreshClients, Accept
  <2> QED
    BY <1>1, <2>1, <1>t DEF TypeOK, Accept
<1>2. ASSUME NEW c \in Conns, ClientDrops(c) PROVE conn[handed[bot]] = "open"
  BY <1>2, <1>t DEF TypeOK, ClientDrops
<1>3. CASE SessionEnds
  BY <1>3, <1>t DEF TypeOK, SessionEnds
<1>4. CASE \/ Dial \/ TakeClient \/ StartGameOK \/ StartGameFails \/ Replay
           \/ StartPipes \/ StopTick \/ Unpublish \/ CloseServer \/ Attach \/ CloseReady
           \/ UNCHANGED vars
           \/ \E b \in Bots :
                \/ ReaderReads(b) \/ ReaderEnds(b) \/ ReaderCaches(b)
                \/ ReaderWrites(b) \/ PipeSReads(b) \/ PipeSWrites(b)
                \/ PipeSEnds(b) \/ PipeCEnds(b) \/ TickerEnds(b) \/ ServerDrops(b)
  <2>1. conn' = conn
    BY <1>4 DEF Dial, TakeClient, StartGameOK, StartGameFails, Replay, StartPipes,
                StopTick, Unpublish, CloseServer, Attach, CloseReady, ReaderReads,
                ReaderEnds, ReaderCaches, ReaderWrites, PipeSReads, PipeSWrites,
                PipeSEnds, PipeCEnds, TickerEnds, ServerDrops
  <2> QED
    BY <2>1
<1> QED
  BY <1>1, <1>2, <1>3, <1>4 DEF Next, MainStep

\* No step takes anything out of what a client has got.
LEMMA HistoryGrows ==
  ASSUME ReplayInv, [Next]_vars
  PROVE  \A d \in Conns : ToSet(got[d]) \subseteq ToSet(got'[d])
<1> USE DEF MainAt, vars, sessVars, goVars, netVars, loopVars, botVars, takeVars,
            pipeVars, srvVars, connVars
<1>t. TypeOK /\ BotStarted
  BY DEF ReplayInv, HandoverInv
<1>1. CASE StartGameOK
  BY <1>1, <1>t, GotGrows, HeadlessAssumption DEF StartGameOK, StartGame
<1>2. CASE Replay
  <2>1. bot \in Bots
    BY <1>2, <1>t DEF BotStarted, Replay
  <2>2. NextCached \in 0..MaxPkts
    BY <1>2, <2>1, <1>t, NextCachedType DEF Replay, Pkts
  <2> QED
    BY <1>2, <2>2, <1>t, GotGrows DEF Replay
<1>3. ASSUME NEW b \in Bots, ReaderWrites(b)
      PROVE  \A d \in Conns : ToSet(got[d]) \subseteq ToSet(got'[d])
  BY <1>3, <1>t, GotGrows DEF TypeOK, ReaderStates, ReaderWrites
<1>4. ASSUME NEW b \in Bots, PipeSWrites(b)
      PROVE  \A d \in Conns : ToSet(got[d]) \subseteq ToSet(got'[d])
  BY <1>4, <1>t, GotGrows DEF TypeOK, PipeStates, PipeSWrites
<1>5. CASE \/ Dial \/ TakeClient \/ StartGameFails \/ StartPipes \/ SessionEnds
           \/ StopTick \/ Unpublish \/ CloseServer \/ Attach \/ CloseReady \/ UNCHANGED vars
           \/ \E c \in Conns : Accept(c) \/ ClientDrops(c)
           \/ \E b \in Bots :
                \/ ReaderReads(b) \/ ReaderEnds(b) \/ ReaderCaches(b)
                \/ PipeSReads(b) \/ PipeSEnds(b) \/ PipeCEnds(b) \/ TickerEnds(b) \/ ServerDrops(b)
  <2>1. got' = got
    BY <1>5 DEF Dial, TakeClient, StartGameFails, StartPipes, SessionEnds, StopTick, Unpublish,
                CloseServer, Attach, CloseReady, Accept, ClientDrops, ReaderReads,
                ReaderEnds, ReaderCaches, PipeSReads, PipeSEnds, PipeCEnds,
                TickerEnds, ServerDrops
  <2> QED
    BY <2>1
<1> QED
  BY <1>1, <1>2, <1>3, <1>4, <1>5 DEF Next, MainStep

LEMMA ReplayedStep == ReplayInv /\ [Next]_vars => ReplayedSoFar'
<1> SUFFICES ASSUME ReplayInv, [Next]_vars, main' = "replay",
                    conn'[handed'[bot']] = "open"
             PROVE  \A i \in 1..Len(cached'[bot']) :
                      i <= replayed' => cached'[bot'][i] \in ToSet(got'[handed'[bot']])
    BY DEF ReplayedSoFar
<1> USE DEF MainAt, vars, sessVars, goVars, netVars, loopVars, botVars, takeVars,
            pipeVars, srvVars, connVars
<1>t. TypeOK /\ BotStarted /\ HandedClient /\ ReplayedSoFar
  BY DEF ReplayInv, HandoverInv
<1>g. \A d \in Conns : ToSet(got[d]) \subseteq ToSet(got'[d])
  BY HistoryGrows
<1>1. CASE StartGameOK
  BY <1>1 DEF StartGameOK
<1>2. CASE Replay
  <2>1. /\ bot \in Bots /\ handed[bot] \in Conns /\ conn[handed[bot]] = "open"
        /\ replayed' = replayed + 1 /\ UNCHANGED <<bot, handed, cached>>
    BY <1>2, <1>t DEF BotStarted, HandedClient, Replay
  <2>2. NextCached \in ToSet(got'[handed[bot]])
    <3>1. NextCached \in 0..MaxPkts
      BY <1>2, <2>1, <1>t, NextCachedType DEF Replay, Pkts
    <3> QED
      BY <1>2, <2>1, <3>1, <1>t, WriteDelivers DEF Replay
  <2>3. \A i \in 1..Len(cached[bot]) :
          i <= replayed => cached[bot][i] \in ToSet(got'[handed[bot]])
    BY <1>2, <2>1, <1>t, <1>g DEF ReplayedSoFar, Replay
  <2>4. \A i \in 1..Len(cached[bot]) :
          i <= replayed + 1 => i <= replayed \/ i = replayed + 1
    BY <1>t DEF TypeOK
  <2> QED
    BY <2>1, <2>2, <2>3, <2>4 DEF NextCached
<1>3. ASSUME NEW b \in Bots, ReaderCaches(b)
      PROVE  \A i \in 1..Len(cached'[bot']) :
               i <= replayed' => cached'[bot'][i] \in ToSet(got'[handed'[bot']])
  \* The mutex: nothing is cached on this bot while the replay runs.
  <2>1. main = "replay" /\ b # bot
    BY <1>3 DEF ReaderCaches, MuFree
  <2>2. cached'[bot] = cached[bot] /\ UNCHANGED <<bot, handed, replayed, conn, got>>
    BY <1>3, <2>1, <1>t DEF TypeOK, ReaderCaches
  <2> QED
    BY <2>1, <2>2, <1>t DEF ReplayedSoFar
<1>4. CASE \/ Attach \/ CloseReady \/ UNCHANGED vars
           \/ \E c \in Conns : Accept(c) \/ ClientDrops(c)
           \/ \E b \in Bots :
                \/ ReaderReads(b) \/ ReaderEnds(b) \/ ReaderWrites(b)
                \/ PipeSReads(b) \/ PipeSWrites(b) \/ PipeSEnds(b)
                \/ PipeCEnds(b) \/ TickerEnds(b) \/ ServerDrops(b)
  <2>1. main = "replay" /\ UNCHANGED <<bot, handed, cached, replayed>>
    BY <1>4 DEF Attach, CloseReady, Accept, ClientDrops, ReaderReads, ReaderEnds,
                ReaderWrites, PipeSReads, PipeSWrites, PipeSEnds, PipeCEnds,
                TickerEnds, ServerDrops
  <2>2. bot \in Bots /\ handed[bot] \in Conns
    BY <2>1, <1>t DEF BotStarted, HandedClient
  <2>3. conn[handed[bot]] = "open"
    BY <2>1, <2>2, StaysShut
  <2> QED
    BY <2>1, <2>2, <2>3, <1>t, <1>g DEF ReplayedSoFar
<1>5. CASE Dial \/ TakeClient \/ StartGameFails \/ StartPipes \/ SessionEnds
           \/ StopTick \/ Unpublish \/ CloseServer
  BY <1>5 DEF Dial, TakeClient, StartGameFails, StartPipes, SessionEnds, StopTick, Unpublish,
              CloseServer
<1> QED
  BY <1>1, <1>2, <1>3, <1>4, <1>5 DEF Next, MainStep

LEMMA DeliveredStep == ReplayInv /\ [Next]_vars => DeliveredInSession'
<1> DEFINE Accounted(pk) ==
             \/ pk \in ToSet(got[handed[bot]])
             \/ /\ reader[bot].pk = pk
                /\ reader[bot].pc = "write" => reader[bot].to = handed[bot]
             \/ pipeS[bot].pk = pk
<1> SUFFICES ASSUME ReplayInv, [Next]_vars, main' = "session",
                    client'[bot'] = handed'[bot'], conn'[handed'[bot']] = "open",
                    NEW pk \in StatePkts, pk <= nread'[bot']
             PROVE  Accounted(pk)'
    BY DEF DeliveredInSession
<1> USE DEF MainAt, vars, sessVars, goVars, netVars, loopVars, botVars, takeVars,
            pipeVars, srvVars, connVars
<1>t. /\ TypeOK /\ BotStarted /\ FreshClients /\ HandedClient /\ IdleHands
      /\ CachedBefore /\ ReplayedSoFar /\ DeliveredInSession
  BY DEF ReplayInv, HandoverInv
<1>p. pk \in 1..MaxPkts /\ pk # 0
  BY HeadlessAssumption
<1>g. \A d \in Conns : ToSet(got[d]) \subseteq ToSet(got'[d])
  BY HistoryGrows
<1>1. CASE StartPipes
  <2>1. /\ main = "replay" /\ replayed = Len(cached[bot])
        /\ UNCHANGED <<bot, handed, cached, reader, nread, conn, got>>
    BY <1>1 DEF StartPipes, AllReplayed
  <2>2. bot \in Bots /\ handed[bot] \in Conns
    BY <2>1, <1>t DEF BotStarted, HandedClient
  <2>3. CASE pk \in ToSet(cached[bot])
    <3>1. PICK i \in DOMAIN cached[bot] : cached[bot][i] = pk
      BY <2>3 DEF ToSet
    <3>2. i \in 1..Len(cached[bot]) /\ i <= replayed
      BY <2>1, <2>2, <3>1, <1>t DEF TypeOK
    <3> QED
      BY <2>1, <3>1, <3>2, <1>t DEF ReplayedSoFar
  <2>4. CASE reader[bot].pc = "cache" /\ reader[bot].pk = pk
    BY <2>1, <2>4
  <2> QED
    BY <2>1, <2>3, <2>4, <1>t DEF CachedBefore
\* Any other step into the session starts in it, with the same client.
<1>s. ASSUME ~StartPipes
      PROVE  /\ main = "session" /\ UNCHANGED <<bot, handed>>
             /\ bot \in Bots /\ handed[bot] \in Conns /\ client[bot] = handed[bot]
             /\ conn[handed[bot]] = "open"
  <2>1. main = "session" /\ UNCHANGED <<bot, handed>>
    BY <1>s
    DEF Next, MainStep, Dial, TakeClient, StartGameOK, StartGameFails, Replay,
        SessionEnds, StopTick, Unpublish, CloseServer, Attach, CloseReady, Accept, ClientDrops,
        ReaderReads, ReaderEnds, ReaderCaches, ReaderWrites, PipeSReads, PipeSWrites,
        PipeSEnds, PipeCEnds, TickerEnds, ServerDrops
  <2>2. bot \in Bots /\ handed[bot] \in Conns
    BY <2>1, <1>t DEF BotStarted, HandedClient
  <2>3. conn[handed[bot]] = "open"
    BY <2>1, <2>2, StaysShut
  <2>4. client[bot] = handed[bot]
    <3>1. CASE Attach
      \* The connection attached is a fresh one, so not the one handed over.
      <4>1. accept.conn # handed[bot]
        BY <3>1, <2>2, <1>t DEF FreshClients, Attach
      <4> QED
        BY <3>1, <4>1, <2>1, <2>2, <1>t DEF TypeOK, Attach
    <3>2. CASE ~Attach
      <4>1. client' = client
        BY <3>2
        DEF Next, MainStep, Dial, TakeClient, StartGameOK, StartGameFails, Replay,
            StartPipes, SessionEnds, StopTick, Unpublish, CloseServer, CloseReady, Accept,
            ClientDrops, ReaderReads, ReaderEnds, ReaderCaches, ReaderWrites,
            PipeSReads, PipeSWrites, PipeSEnds, PipeCEnds, TickerEnds, ServerDrops
      <4> QED
        BY <4>1, <2>1
    <3> QED
      BY <3>1, <3>2
  <2> QED
    BY <2>1, <2>2, <2>3, <2>4
\* What was accounted for stays so if reader and pipe keep their packets.
<1>f. ASSUME ~StartPipes, nread'[bot] = nread[bot],
             UNCHANGED <<reader[bot], pipeS[bot]>>
      PROVE  Accounted(pk)'
  BY <1>f, <1>s, <1>t, <1>g DEF DeliveredInSession
<1>2. ASSUME NEW b \in Bots, b = bot, ~StartPipes, ReaderReads(b)
      PROVE  Accounted(pk)'
  <2>1. /\ reader'[bot].pc = "cache" /\ reader'[bot].pk = nread[bot] + 1
        /\ nread'[bot] = nread[bot] + 1 /\ UNCHANGED <<pipeS, got>>
        /\ reader[bot].pk = 0
    BY <1>2, <1>t DEF TypeOK, IdleHands, ReaderReads, ReaderAt
  <2>2. pk <= nread[bot] \/ pk = nread[bot] + 1
    <3>1. nread[bot] \in 0..MaxPkts /\ pk <= nread[bot] + 1
      BY <1>s, <1>2, <2>1, <1>t DEF TypeOK
    <3> QED
      BY <3>1, <1>p, HeadlessAssumption
  <2> QED
    BY <1>p, <1>s, <1>2, <2>1, <2>2, <1>t DEF DeliveredInSession
<1>3. ASSUME NEW b \in Bots, b = bot, ~StartPipes, ReaderEnds(b)
      PROVE  Accounted(pk)'
  <2>1. reader[bot].pk = 0 /\ UNCHANGED <<pipeS, got, nread>>
    BY <1>3, <1>t DEF IdleHands, ReaderEnds, ReaderAt
  <2> QED
    BY <1>p, <1>s, <1>3, <2>1, <1>t DEF DeliveredInSession
<1>4. ASSUME NEW b \in Bots, b = bot, ~StartPipes, ReaderCaches(b)
      PROVE  Accounted(pk)'
  <2>1. client[bot] # NoConn
    BY <1>4, <1>s, HeadlessAssumption
  <2>2. /\ reader'[bot].pk = reader[bot].pk /\ reader'[bot].to = handed[bot]
        /\ UNCHANGED <<pipeS, got, nread>>
    BY <1>4, <1>s, <2>1, <1>t DEF TypeOK, ReaderCaches
  <2> QED
    BY <1>s, <1>4, <2>2, <1>t DEF DeliveredInSession
<1>5. ASSUME NEW b \in Bots, b = bot, ~StartPipes, ReaderWrites(b)
      PROVE  Accounted(pk)'
  <2>1. /\ reader[bot].pc = "write" /\ Write(reader[bot].to, reader[bot].pk)
        /\ reader[bot].pk \in 0..MaxPkts /\ UNCHANGED <<pipeS, nread>>
    BY <1>5, <1>t DEF TypeOK, ReaderStates, ReaderWrites, ReaderAt
  <2>2. reader[bot].to = handed[bot] => reader[bot].pk \in ToSet(got'[handed[bot]])
    BY <2>1, <1>s, <1>5, <1>t, WriteDelivers
  <2> QED
    BY <1>s, <1>5, <1>g, <2>1, <2>2, <1>t DEF DeliveredInSession
<1>6. ASSUME NEW b \in Bots, b = bot, ~StartPipes, PipeSReads(b)
      PROVE  Accounted(pk)'
  <2>1. /\ pipeS'[bot].pk = nread[bot] + 1 /\ nread'[bot] = nread[bot] + 1
        /\ UNCHANGED <<reader, got>> /\ pipeS[bot].pk = 0
    BY <1>6, <1>t DEF TypeOK, IdleHands, PipeSReads, PipeSAt
  <2>2. pk <= nread[bot] \/ pk = nread[bot] + 1
    <3>1. nread[bot] \in 0..MaxPkts /\ pk <= nread[bot] + 1
      BY <1>s, <1>6, <2>1, <1>t DEF TypeOK
    <3> QED
      BY <3>1, <1>p, HeadlessAssumption
  <2> QED
    BY <1>p, <1>s, <1>6, <2>1, <2>2, <1>t DEF DeliveredInSession
<1>7. ASSUME NEW b \in Bots, b = bot, ~StartPipes, PipeSWrites(b)
      PROVE  Accounted(pk)'
  <2>1. /\ Write(handed[bot], pipeS[bot].pk) /\ pipeS[bot].pk \in 0..MaxPkts
        /\ UNCHANGED <<reader, nread>>
    BY <1>7, <1>t DEF TypeOK, PipeStates, PipeSWrites
  <2>2. pipeS[bot].pk \in ToSet(got'[handed[bot]])
    BY <2>1, <1>s, <1>7, <1>t, WriteDelivers
  <2> QED
    BY <1>s, <1>7, <1>g, <2>1, <2>2, <1>t DEF DeliveredInSession
<1>8. ASSUME NEW b \in Bots, b = bot, ~StartPipes, PipeSEnds(b)
      PROVE  Accounted(pk)'
  \* The client is open, so it is the read that failed.
  <2>1. pipeS[bot].pk = 0 /\ UNCHANGED <<reader, got, nread>>
    BY <1>8, <1>s, <1>t DEF IdleHands, PipeSEnds, PipeSAt
  <2> QED
    BY <1>p, <1>s, <1>8, <2>1, <1>t DEF DeliveredInSession
<1>9. ASSUME NEW b \in Bots, b # bot, ~StartPipes,
             \/ ReaderReads(b) \/ ReaderEnds(b) \/ ReaderCaches(b) \/ ReaderWrites(b)
             \/ PipeSReads(b) \/ PipeSWrites(b) \/ PipeSEnds(b)
      PROVE  Accounted(pk)'
  <2>1. /\ nread'[bot] = nread[bot]
        /\ reader'[bot] = reader[bot] /\ pipeS'[bot] = pipeS[bot]
    <3>1. CASE ReaderReads(b) \/ ReaderEnds(b)
      BY <3>1, <1>9, <1>s, <1>t DEF TypeOK, ReaderReads, ReaderEnds
    <3>2. CASE ReaderCaches(b) \/ ReaderWrites(b)
      BY <3>2, <1>9, <1>s, <1>t DEF TypeOK, ReaderCaches, ReaderWrites
    <3>3. CASE PipeSReads(b) \/ PipeSWrites(b) \/ PipeSEnds(b)
      BY <3>3, <1>9, <1>s, <1>t DEF TypeOK, PipeSReads, PipeSWrites, PipeSEnds
    <3> QED
      BY <1>9, <3>1, <3>2, <3>3
  <2> QED
    BY <1>f, <1>9, <1>s, <2>1
<1>10. ASSUME ~StartPipes,
              \/ Attach \/ CloseReady \/ UNCHANGED vars
              \/ \E c \in Conns : Accept(c) \/ ClientDrops(c)
              \/ \E b \in Bots : PipeCEnds(b) \/ TickerEnds(b) \/ ServerDrops(b)
       PROVE  Accounted(pk)'
  <2>1. UNCHANGED <<nread, reader, pipeS>>
    BY <1>10 DEF Attach, CloseReady, Accept, ClientDrops, PipeCEnds, TickerEnds, ServerDrops
  <2> QED
    BY <1>f, <1>10, <1>s, <2>1
<1>11. CASE Dial \/ TakeClient \/ StartGameOK \/ StartGameFails \/ Replay
            \/ SessionEnds \/ StopTick \/ Unpublish \/ CloseServer
  BY <1>11, <1>t DEF Dial, TakeClient, StartGameOK, StartGameFails, Replay, SessionEnds,
               StopTick, Unpublish, CloseServer
<1> QED
  BY <1>1, <1>2, <1>3, <1>4, <1>5, <1>6, <1>7, <1>8, <1>9, <1>10, <1>11
  DEF Next, MainStep

LEMMA ReplayStep == ReplayInv /\ [Next]_vars => ReplayInv'
<1>1. ReplayInv /\ [Next]_vars => HandoverInv'
  BY HandoverStep DEF ReplayInv
<1> QED
  BY <1>1, FreshStep, HandedStep, IdleStep, QuietStep, CachedStep, ReplayedStep,
     DeliveredStep DEF ReplayInv

-----------------------------------------------------------------------------
\* Every reachable state satisfies the invariant.
THEOREM ReplayInvariant == Spec => []ReplayInv
BY ReplayInit, ReplayStep, PTL DEF Spec

\* In a handed-over session every state packet read from the server so far has
\* been written to the client or is in a reader's hands, for any number of
\* bots, packets and clients.
THEOREM StateIsNotLost == Spec => []NoStateLost
<1>1. ReplayInv => NoStateLost
  BY DEF ReplayInv, DeliveredInSession, NoStateLost
<1> QED
  BY <1>1, ReplayInvariant, PTL

-----------------------------------------------------------------------------
\* The replay ends on the newest cached state.  A client is held by one bot, so
\* what other bots' goroutines write goes elsewhere; and what this bot's reader
\* still has in its hands while the cache is locked is the newest entry of the
\* cache, or no state at all.

\* c is in the hands of bot b: of its fields, of its reader, or of TakeoverBot.
HeldBy(b, c) ==
  \/ client[b] = c \/ handed[b] = c \/ reader[b].to = c
  \/ accept.pc # "accept" /\ accept.bot = b /\ accept.conn = c

HeldIsUsed == \A c \in Conns, b \in Bots : HeldBy(b, c) => conn[c] # "new"

OneHolder == \A c \in Conns : \A b, d \in Bots : HeldBy(b, c) /\ HeldBy(d, c) => b = d

\* A state packet a reader is about to forward is the last it cached.
HandIsNewest ==
  \A b \in Bots : reader[b].pc = "write" /\ reader[b].pk \in StatePkts =>
    cached[b] # << >> /\ Last(cached[b]) = reader[b].pk

\* Once the whole cache is replayed the client is at its newest state.
ReplayedLast ==
  main = "replay" /\ cached[bot] # << >> /\ replayed = Len(cached[bot])
                  /\ conn[handed[bot]] = "open" =>
    EndsOn(got[handed[bot]], Last(cached[bot]))

CurrentInv ==
  /\ ReplayInv
  /\ HeldIsUsed
  /\ OneHolder
  /\ HandIsNewest
  /\ ReplayedLast

\* Nobody comes to hold a connection but by accepting it.
LEMMA HolderStep ==
  ASSUME ReplayInv, [Next]_vars, NEW b \in Bots, NEW c \in Conns, HeldBy(b, c)'
  PROVE  HeldBy(b, c) \/ (Accept(c) /\ ~NoActiveBot /\ b = activeBot)
<1> USE DEF MainAt, vars, sessVars, goVars, netVars, loopVars, botVars, takeVars,
            pipeVars, srvVars, connVars
<1>t. TypeOK
  BY DEF ReplayInv, HandoverInv
<1>c. c # NoConn
  BY HeadlessAssumption
<1>1. CASE TakeClient
  <2>1. /\ handed'[b] = handed[b] \/ handed'[b] = client[b]
        /\ UNCHANGED <<client, reader, accept>>
    BY <1>1, <1>t DEF TypeOK, TakeClient
  <2> QED
    BY <2>1 DEF HeldBy
<1>2. CASE Attach
  <2>1. /\ client'[b] = client[b] \/ (accept.bot = b /\ client'[b] = accept.conn)
        /\ accept.pc = "attach" /\ accept'.bot = accept.bot
        /\ accept'.conn = accept.conn /\ UNCHANGED <<handed, reader>>
    BY <1>2, <1>t DEF TypeOK, AcceptStates, Attach
  <2> QED
    BY <2>1 DEF HeldBy
<1>3. CASE CloseReady
  <2>1. /\ accept.pc = "close"
        /\ accept'.pc # "accept" => accept'.bot = accept.bot /\ accept'.conn = accept.conn
        /\ UNCHANGED <<client, handed, reader>>
    BY <1>3, <1>t DEF TypeOK, AcceptStates, CloseReady, Accepting
  <2> QED
    BY <2>1 DEF HeldBy
<1>4. ASSUME NEW d \in Conns, Accept(d)
      PROVE  HeldBy(b, c) \/ (Accept(c) /\ ~NoActiveBot /\ b = activeBot)
  <2>1. UNCHANGED <<client, handed, reader>>
    BY <1>4 DEF Accept
  <2>2. CASE NoActiveBot
    BY <1>4, <2>1, <2>2 DEF HeldBy, Accept
  <2>3. CASE ~NoActiveBot
    <3>1. accept'.bot = activeBot /\ accept'.conn = d
      BY <1>4, <2>3 DEF Accept, Taking
    <3> QED
      BY <1>4, <2>1, <2>3, <3>1 DEF HeldBy
  <2> QED
    BY <2>2, <2>3
<1>5. CASE Dial
  <2>1. /\ reader'[b].to = reader[b].to \/ reader'[b].to = NoConn
        /\ UNCHANGED <<client, handed, accept>>
    BY <1>5, <1>t DEF TypeOK, Dial, Reading
  <2> QED
    BY <2>1, <1>c DEF HeldBy
<1>6. ASSUME NEW d \in Bots,
             \/ ReaderReads(d) \/ ReaderEnds(d) \/ ReaderCaches(d) \/ ReaderWrites(d)
      PROVE  HeldBy(b, c)
  <2>1. UNCHANGED <<client, handed, accept>>
    BY <1>6 DEF ReaderReads, ReaderEnds, ReaderCaches, ReaderWrites
  <2>2. reader'[b].to \in {reader[b].to, NoConn, client[b]}
    <3>1. CASE ReaderReads(d) \/ ReaderEnds(d) \/ ReaderWrites(d)
      <4>1. reader'[b] = reader[b] \/ reader'[b].to = NoConn
        BY <3>1, <1>t DEF TypeOK, ReaderReads, ReaderEnds, ReaderWrites, Reading, Ended
      <4> QED
        BY <4>1
    <3>2. CASE ReaderCaches(d)
      BY <3>2, <1>t DEF TypeOK, ReaderCaches, Reading
    <3> QED
      BY <1>6, <3>1, <3>2
  <2> QED
    BY <2>1, <2>2, <1>c DEF HeldBy
<1>7. CASE \/ StartGameOK \/ StartGameFails \/ Replay \/ StartPipes \/ SessionEnds
           \/ StopTick \/ Unpublish \/ CloseServer \/ UNCHANGED vars
           \/ \E d \in Conns : ClientDrops(d)
           \/ \E d \in Bots :
                \/ PipeSReads(d) \/ PipeSWrites(d) \/ PipeSEnds(d)
                \/ PipeCEnds(d) \/ TickerEnds(d) \/ ServerDrops(d)
  <2>1. UNCHANGED <<client, handed, reader, accept>>
    BY <1>7 DEF StartGameOK, StartGameFails, Replay, StartPipes, SessionEnds,
                StopTick, Unpublish, CloseServer, ClientDrops, PipeSReads, PipeSWrites,
                PipeSEnds, PipeCEnds, TickerEnds, ServerDrops
  <2> QED
    BY <2>1 DEF HeldBy
<1> QED
  BY <1>1, <1>2, <1>3, <1>4, <1>5, <1>6, <1>7 DEF Next, MainStep

\* No connection becomes new again, and an accepted one is not new.
LEMMA StaysUsed ==
  ASSUME ReplayInv, [Next]_vars, NEW c \in Conns
  PROVE  /\ conn'[c] = "new" => conn[c] = "new"
         /\ Accept(c) => conn'[c] # "new"
<1> USE DEF MainAt, vars, sessVars, goVars, netVars, loopVars, botVars, takeVars,
            pipeVars, srvVars, connVars
<1>t. TypeOK
  BY DEF ReplayInv, HandoverInv
<1>1. CASE SessionEnds
  BY <1>1, <1>t DEF TypeOK, SessionEnds, Accept
<1>2. ASSUME NEW d \in Conns, ClientDrops(d)
      PROVE  conn'[c] = "new" => conn[c] = "new"
  BY <1>2, <1>t DEF TypeOK, ClientDrops
<1>3. ASSUME NEW d \in Conns, Accept(d)
      PROVE  conn'[c] = "new" => conn[c] = "new"
  BY <1>3, <1>t DEF TypeOK, Accept
<1>4. Accept(c) => conn'[c] # "new"
  BY <1>t DEF TypeOK, Accept
<1>5. CASE \/ Dial \/ TakeClient \/ StartGameOK \/ StartGameFails \/ Replay
           \/ StartPipes \/ StopTick \/ Unpublish \/ CloseServer \/ Attach \/ CloseReady
           \/ UNCHANGED vars
           \/ \E b \in Bots :
                \/ ReaderReads(b) \/ ReaderEnds(b) \/ ReaderCaches(b)
                \/ ReaderWrites(b) \/ PipeSReads(b) \/ PipeSWrites(b)
                \/ PipeSEnds(b) \/ PipeCEnds(b) \/ TickerEnds(b) \/ ServerDrops(b)
  <2>1. conn' = conn
    BY <1>5 DEF Dial, TakeClient, StartGameOK, StartGameFails, Replay, StartPipes,
                StopTick, Unpublish, CloseServer, Attach, CloseReady, ReaderReads,
                ReaderEnds, ReaderCaches, ReaderWrites, PipeSReads, PipeSWrites,
                PipeSEnds, PipeCEnds, TickerEnds, ServerDrops
  <2> QED
    BY <2>1, <1>4
<1>6. conn'[c] = "new" => conn[c] = "new"
  BY <1>1, <1>2, <1>3, <1>5 DEF Next, MainStep
<1> QED
  BY <1>4, <1>6

LEMMA HeldStep == CurrentInv /\ [Next]_vars => HeldIsUsed' /\ OneHolder'
<1> SUFFICES ASSUME CurrentInv, [Next]_vars PROVE HeldIsUsed' /\ OneHolder'
    OBVIOUS
<1>t. ReplayInv /\ HeldIsUsed /\ OneHolder
  BY DEF CurrentInv
<1>1. HeldIsUsed'
  <2> SUFFICES ASSUME NEW c \in Conns, NEW b \in Bots, HeldBy(b, c)'
               PROVE  conn'[c] # "new"
      BY DEF HeldIsUsed
  <2>1. HeldBy(b, c) \/ Accept(c)
    BY <1>t, HolderStep
  <2> QED
    BY <2>1, <1>t, StaysUsed DEF HeldIsUsed
<1>2. OneHolder'
  <2> SUFFICES ASSUME NEW c \in Conns, NEW b \in Bots, NEW d \in Bots,
                      HeldBy(b, c)', HeldBy(d, c)'
               PROVE  b = d
      BY DEF OneHolder
  <2>1. HeldBy(b, c) \/ (Accept(c) /\ b = activeBot)
    BY <1>t, HolderStep
  <2>2. HeldBy(d, c) \/ (Accept(c) /\ d = activeBot)
    BY <1>t, HolderStep
  \* What is accepted is new, and nobody holds it.
  <2>3. Accept(c) => ~HeldBy(b, c) /\ ~HeldBy(d, c)
    BY <1>t DEF HeldIsUsed, Accept
  <2> QED
    BY <2>1, <2>2, <2>3, <1>t DEF OneHolder
<1> QED
  BY <1>1, <1>2

LEMMA HandStep == CurrentInv /\ [Next]_vars => HandIsNewest'
<1> SUFFICES ASSUME CurrentInv, [Next]_vars, NEW b \in Bots,
                    reader'[b].pc = "write", reader'[b].pk \in StatePkts
             PROVE  cached'[b] # << >> /\ Last(cached'[b]) = reader'[b].pk
    BY DEF HandIsNewest
<1> USE DEF MainAt, vars, sessVars, goVars, netVars, loopVars, botVars, takeVars,
            pipeVars, srvVars, connVars
<1>t. TypeOK /\ HandIsNewest
  BY DEF CurrentInv, ReplayInv, HandoverInv
<1>f. ASSUME reader'[b] = reader[b], cached'[b] = cached[b]
      PROVE  cached'[b] # << >> /\ Last(cached'[b]) = reader'[b].pk
  BY <1>f, <1>t DEF HandIsNewest, Last
<1>1. CASE Dial
  <2>1. cached' = cached /\ (reader'[b] = reader[b] \/ reader'[b] = Reading)
    BY <1>1, <1>t DEF TypeOK, Dial
  <2> QED
    BY <2>1, <1>f DEF Reading
<1>2. ASSUME NEW d \in Bots, ReaderReads(d) \/ ReaderEnds(d) \/ ReaderWrites(d)
      PROVE  cached'[b] # << >> /\ Last(cached'[b]) = reader'[b].pk
  <2>1. cached' = cached
    BY <1>2 DEF ReaderReads, ReaderEnds, ReaderWrites
  <2>2. reader'[b] = reader[b] \/ reader'[b].pc # "write"
    BY <1>2, <1>t DEF TypeOK, ReaderReads, ReaderEnds, ReaderWrites, Reading, Ended
  <2> QED
    BY <2>1, <2>2, <1>f
<1>3. ASSUME NEW d \in Bots, ReaderCaches(d)
      PROVE  cached'[b] # << >> /\ Last(cached'[b]) = reader'[b].pk
  <2>1. CASE d # b
    <3>1. reader'[b] = reader[b] /\ cached'[b] = cached[b]
      BY <1>3, <2>1, <1>t DEF TypeOK, ReaderCaches
    <3> QED
      BY <3>1, <1>f
  <2>2. CASE d = b
    <3>1. reader'[b].pk = reader[b].pk
      BY <1>3, <2>2, <1>t DEF TypeOK, ReaderCaches, Reading
    <3>2. cached'[b] = Append(cached[b], reader[b].pk) /\ cached[b] \in Seq(Pkts)
      BY <1>3, <2>2, <3>1, <1>t DEF TypeOK, ReaderCaches
    <3>3. reader[b].pk \in Pkts
      BY <3>1, HeadlessAssumption DEF Pkts
    <3> QED
      BY <3>1, <3>2, <3>3 DEF Last
  <2> QED
    BY <2>1, <2>2
<1>4. CASE \/ TakeClient \/ StartGameOK \/ StartGameFails \/ Replay \/ StartPipes
           \/ SessionEnds \/ StopTick \/ Unpublish \/ CloseServer \/ Attach \/ CloseReady
           \/ UNCHANGED vars
           \/ \E c \in Conns : Accept(c) \/ ClientDrops(c)
           \/ \E d \in Bots :
                \/ PipeSReads(d) \/ PipeSWrites(d) \/ PipeSEnds(d)
                \/ PipeCEnds(d) \/ TickerEnds(d) \/ ServerDrops(d)
  <2>1. reader' = reader /\ cached' = cached
    BY <1>4 DEF TakeClient, StartGameOK, StartGameFails, Replay, StartPipes,
                SessionEnds, StopTick, Unpublish, CloseServer, Attach, CloseReady, Accept,
                ClientDrops, PipeSReads, PipeSWrites, PipeSEnds, PipeCEnds,
                TickerEnds, ServerDrops
  <2> QED
    BY <2>1, <1>f
<1> QED
  BY <1>1, <1>2, <1>3, <1>4 DEF Next, MainStep

\* A history ends on a packet just added, and goes on to end on the same one
\* when what is added is no state.
LEMMA AppendEnds ==
  ASSUME NEW s \in Seq(0..MaxPkts), NEW e \in 0..MaxPkts, NEW pk,
         \/ e = pk
         \/ e \notin StatePkts /\ EndsOn(s, pk)
  PROVE  EndsOn(Append(s, e), pk)
<1>1. /\ DOMAIN Append(s, e) = 1..(Len(s) + 1) /\ DOMAIN s = 1..Len(s) /\ Len(s) \in Nat
      /\ Append(s, e)[Len(s) + 1] = e
      /\ \A i \in 1..Len(s) : Append(s, e)[i] = s[i]
  OBVIOUS
<1>2. CASE e = pk
  <2>1. Len(s) + 1 \in DOMAIN Append(s, e)
    BY <1>1
  <2>2. \A j \in DOMAIN Append(s, e) : ~(j > Len(s) + 1)
    BY <1>1
  <2> QED
    BY <1>1, <1>2, <2>1, <2>2 DEF EndsOn
<1>3. CASE e \notin StatePkts /\ EndsOn(s, pk)
  <2>1. PICK i \in DOMAIN s :
          s[i] = pk /\ \A j \in DOMAIN s : j > i => s[j] \notin StatePkts
    BY <1>3 DEF EndsOn
  <2>2. i \in DOMAIN Append(s, e) /\ Append(s, e)[i] = pk
    BY <1>1, <2>1
  <2>3. \A j \in DOMAIN Append(s, e) : j \in DOMAIN s \/ j = Len(s) + 1
    BY <1>1
  <2>4. \A j \in DOMAIN Append(s, e) : j > i => Append(s, e)[j] \notin StatePkts
    BY <1>1, <1>3, <2>1, <2>3
  <2> QED
    BY <2>2, <2>4 DEF EndsOn
<1> QED
  BY <1>2, <1>3

LEMMA LastStep == CurrentInv /\ [Next]_vars => ReplayedLast'
<1> SUFFICES ASSUME CurrentInv, [Next]_vars, main' = "replay",
                    cached'[bot'] # << >>, replayed' = Len(cached'[bot']),
                    conn'[handed'[bot']] = "open"
             PROVE  EndsOn(got'[handed'[bot']], Last(cached'[bot']))
    BY DEF ReplayedLast, EndsOn, Last
<1> USE DEF MainAt, vars, sessVars, goVars, netVars, loopVars, botVars, takeVars,
            pipeVars, srvVars, connVars
<1>t. /\ ReplayInv /\ TypeOK /\ BotStarted /\ HandedClient /\ QuietBefore
      /\ OneHolder /\ HandIsNewest /\ ReplayedLast
  BY DEF CurrentInv, ReplayInv, HandoverInv
<1>1. CASE StartGameOK
  \* Nothing is replayed yet, so nothing was cached.
  <2>1. replayed' = 0 /\ bot' \in Bots /\ cached' = cached
    BY <1>1, <1>t DEF BotStarted, StartGameOK
  <2>2. cached[bot'] \in Seq(Pkts)
    BY <2>1, <1>t DEF TypeOK
  <2>3. Len(cached[bot']) = 0 => cached[bot'] = << >>
    BY <2>2
  <2> QED
    BY <2>1, <2>3
\* Any other step into the replay starts in it, for the same open client.
<1>s. ASSUME ~StartGameOK
      PROVE  /\ main = "replay" /\ UNCHANGED <<bot, handed>>
             /\ cached'[bot] = cached[bot]
             /\ bot \in Bots /\ handed[bot] \in Conns /\ conn[handed[bot]] = "open"
             /\ handed[bot] # NoConn
  <2>1. main = "replay" /\ UNCHANGED <<bot, handed>>
    BY <1>s
    DEF Next, MainStep, Dial, TakeClient, StartGameFails, Replay, StartPipes,
        SessionEnds, StopTick, Unpublish, CloseServer, Attach, CloseReady, Accept, ClientDrops,
        ReaderReads, ReaderEnds, ReaderCaches, ReaderWrites, PipeSReads, PipeSWrites,
        PipeSEnds, PipeCEnds, TickerEnds, ServerDrops
  <2>2. bot \in Bots /\ handed[bot] \in Conns
    BY <2>1, <1>t DEF BotStarted, HandedClient
  <2>3. conn[handed[bot]] = "open"
    BY <2>1, <2>2, <1>t, StaysShut
  <2>4. cached'[bot] = cached[bot]
    <3>1. ASSUME NEW d \in Bots, ReaderCaches(d) PROVE cached'[bot] = cached[bot]
      \* The mutex: nothing is cached on this bot while the replay runs.
      <4>1. d # bot
        BY <3>1, <2>1 DEF ReaderCaches, MuFree
      <4> QED
        BY <3>1, <4>1, <1>t DEF TypeOK, ReaderCaches
    <3>2. CASE ~\E d \in Bots : ReaderCaches(d)
      <4>1. cached' = cached
        BY <3>2
        DEF Next, MainStep, Dial, TakeClient, StartGameOK, StartGameFails, Replay,
            StartPipes, SessionEnds, StopTick, Unpublish, CloseServer, Attach, CloseReady,
            Accept, ClientDrops, ReaderReads, ReaderEnds, ReaderWrites, PipeSReads,
            PipeSWrites, PipeSEnds, PipeCEnds, TickerEnds, ServerDrops
      <4> QED
        BY <4>1
    <3> QED
      BY <3>1, <3>2
  <2> QED
    BY <2>1, <2>2, <2>3, <2>4, HeadlessAssumption
<1>f. ASSUME ~StartGameOK, got'[handed[bot]] = got[handed[bot]], replayed' = replayed
      PROVE  EndsOn(got'[handed'[bot']], Last(cached'[bot']))
  BY <1>f, <1>s, <1>t DEF ReplayedLast
\* A write to somebody else's client leaves this one alone.
<1>w. ASSUME ~StartGameOK, NEW c, NEW pk, c # handed[bot], Write(c, pk)
      PROVE  got'[handed[bot]] = got[handed[bot]]
  BY <1>w, <1>s, <1>t DEF TypeOK, Write
<1>2. CASE Replay
  <2>1. ~StartGameOK
    BY <1>2 DEF Replay, StartGameOK
  <2>2. /\ NextCached = Last(cached[bot]) /\ NextCached \in 0..MaxPkts
        /\ got'[handed[bot]] = Append(got[handed[bot]], NextCached)
    <3>1. replayed' = replayed + 1 /\ replayed' = Len(cached[bot])
      BY <1>2, <2>1, <1>s DEF Replay
    <3>2. NextCached \in Pkts
      BY <1>2, <2>1, <1>s, <1>t, NextCachedType DEF Replay
    <3>3. got' = [got EXCEPT ![handed[bot]] = Append(@, NextCached)]
      BY <1>2, <2>1, <1>s DEF Replay, Write
    <3> QED
      BY <3>1, <3>2, <3>3, <2>1, <1>s, <1>t DEF TypeOK, NextCached, Last, Pkts
  <2>3. got[handed[bot]] \in Seq(0..MaxPkts)
    BY <2>1, <1>s, <1>t DEF TypeOK
  <2> QED
    BY <2>1, <2>2, <2>3, <1>s, AppendEnds
<1>3. ASSUME NEW b \in Bots, ReaderWrites(b)
      PROVE  EndsOn(got'[handed'[bot']], Last(cached'[bot']))
  <2>1. /\ ~StartGameOK /\ replayed' = replayed /\ reader[b].pc = "write"
        /\ Write(reader[b].to, reader[b].pk)
    BY <1>3, <1>t DEF ReaderWrites, ReaderAt, StartGameOK, TypeOK
  <2>2. CASE reader[b].to # handed[bot]
    BY <2>1, <2>2, <1>w, <1>f
  <2>3. CASE reader[b].to = handed[bot]
    <3>1. b = bot
      BY <2>1, <2>3, <1>s, <1>t DEF OneHolder, HeldBy
    <3>2. /\ got[handed[bot]] \in Seq(0..MaxPkts) /\ reader[bot].pk \in 0..MaxPkts
          /\ got'[handed[bot]] = Append(got[handed[bot]], reader[bot].pk)
      BY <2>1, <2>3, <3>1, <1>s, <1>t DEF TypeOK, ReaderStates, Write
    <3>3. EndsOn(got[handed[bot]], Last(cached[bot]))
      BY <2>1, <1>s, <1>t DEF ReplayedLast
    <3>4. reader[bot].pk = Last(cached[bot]) \/ reader[bot].pk \notin StatePkts
      BY <2>1, <3>1, <1>t DEF HandIsNewest
    <3>5. EndsOn(got'[handed[bot]], Last(cached[bot]))
      BY <3>2, <3>3, <3>4, AppendEnds
    <3>6. handed' = handed /\ bot' = bot /\ Last(cached'[bot]) = Last(cached[bot])
      BY <2>1, <1>s
    <3> QED
      BY <3>5, <3>6
  <2> QED
    BY <2>2, <2>3
<1>4. ASSUME NEW b \in Bots, PipeSWrites(b)
      PROVE  EndsOn(got'[handed'[bot']], Last(cached'[bot']))
  <2>1. /\ ~StartGameOK /\ replayed' = replayed /\ pipeS[b].pc = "write"
        /\ Write(handed[b], pipeS[b].pk)
    BY <1>4, <1>t DEF PipeSWrites, PipeSAt, StartGameOK, TypeOK
  \* The pipes of this bot have not been started.
  <2>2. b # bot
    BY <2>1, <1>s, <1>t DEF QuietBefore
  <2>3. handed[b] # handed[bot]
    BY <2>1, <2>2, <1>s, <1>t DEF OneHolder, HeldBy
  <2> QED
    BY <2>1, <2>3, <1>w, <1>f
<1>5. CASE \/ Attach \/ CloseReady \/ UNCHANGED vars
           \/ \E c \in Conns : Accept(c) \/ ClientDrops(c)
           \/ \E b \in Bots :
                \/ ReaderReads(b) \/ ReaderEnds(b) \/ ReaderCaches(b)
                \/ PipeSReads(b) \/ PipeSEnds(b) \/ PipeCEnds(b) \/ TickerEnds(b) \/ ServerDrops(b)
  <2>1. got' = got /\ replayed' = replayed /\ main' = main
    BY <1>5 DEF Attach, CloseReady, Accept, ClientDrops, ReaderReads, ReaderEnds,
                ReaderCaches, PipeSReads, PipeSEnds, PipeCEnds, TickerEnds, ServerDrops
  <2>2. ~StartGameOK
    BY <2>1 DEF StartGameOK
  <2> QED
    BY <2>1, <2>2, <1>f
<1>6. CASE Dial \/ TakeClient \/ StartGameFails \/ StartPipes \/ SessionEnds
           \/ StopTick \/ Unpublish \/ CloseServer
  BY <1>6 DEF Dial, TakeClient, StartGameFails, StartPipes, SessionEnds, StopTick, Unpublish,
              CloseServer
<1> QED
  BY <1>1, <1>2, <1>3, <1>4, <1>5, <1>6 DEF Next, MainStep

LEMMA CurrentInit == Init => CurrentInv
<1> SUFFICES ASSUME Init PROVE CurrentInv
    OBVIOUS
<1>1. ReplayInv
  BY ReplayInit
<1>2. \A c \in Conns, b \in Bots : ~HeldBy(b, c)
  BY HeadlessAssumption DEF Init, Accepting, NotStarted, HeldBy
<1>3. HandIsNewest /\ ReplayedLast
  BY DEF Init, NotStarted, HandIsNewest, ReplayedLast
<1> QED
  BY <1>1, <1>2, <1>3 DEF CurrentInv, HeldIsUsed, OneHolder

LEMMA CurrentStep == CurrentInv /\ [Next]_vars => CurrentInv'
<1>1. CurrentInv /\ [Next]_vars => ReplayInv'
  BY ReplayStep DEF CurrentInv
<1> QED
  BY <1>1, HeldStep, HandStep, LastStep DEF CurrentInv

\* Every reachable state satisfies the stronger invariant too.
THEOREM CurrentInvariant == Spec => []CurrentInv
BY CurrentInit, CurrentStep, PTL DEF Spec

\* A client belongs to one bot for good: TakeoverBot may still attach it to a bot
\* that has ended meanwhile, and goroutines an earlier bot left behind go on, but
\* none of them ever has in hand a client of another bot (headless.go:31-42,
\* :136-171).
THEOREM OneBotPerClient == Spec => []OneHolder
<1>1. CurrentInv => OneHolder
  BY DEF CurrentInv
<1> QED BY <1>1, CurrentInvariant, PTL

\* When the replay hands over to the pipes, the last state packet the client
\* has got is the newest one cached, whatever the reader wrote to the same
\* client before and during the replay.
THEOREM ReplayEndsCurrent == Spec => ReplayCurrent
<1>1. CurrentInv /\ [Next]_vars =>
        [main = "replay" /\ main' = "session" /\ cached[bot] # << >>
                         /\ conn[handed[bot]] = "open" =>
           EndsOn(got[handed[bot]], Last(cached[bot]))]_vars
  <2> SUFFICES ASSUME CurrentInv, [Next]_vars, main = "replay", main' = "session",
                      cached[bot] # << >>, conn[handed[bot]] = "open"
               PROVE  EndsOn(got[handed[bot]], Last(cached[bot]))
      OBVIOUS
  <2>1. replayed = Len(cached[bot])
    BY DEF Next, MainStep, Dial, TakeClient, StartGameOK, StartGameFails, Replay,
           StartPipes, AllReplayed, SessionEnds, StopTick, Unpublish, CloseServer, Attach,
           CloseReady, Accept, ClientDrops, ReaderReads, ReaderEnds, ReaderCaches,
           ReaderWrites, PipeSReads, PipeSWrites, PipeSEnds, PipeCEnds, TickerEnds, ServerDrops,
           vars, sessVars, goVars, netVars, loopVars, botVars, takeVars, pipeVars,
           srvVars, connVars
  <2> QED
    BY <2>1 DEF CurrentInv, ReplayedLast
<1> QED
  BY <1>1, CurrentInvariant, PTL DEF Spec, ReplayCurrent
=============================================================================
