--------------------------- MODULE CommandsProofs ---------------------------
(***************************************************************************)
(* Proofs about Commands, for any sessions, bots and packets: the types,   *)
(* who is answered and with what, that toggles which do not cross are not  *)
(* lost, and the order of the recorder's file.                             *)
(***************************************************************************)
EXTENDS Commands, TLAPS

PipeRecords == [pc : PipePC, val : BOOLEAN]

LEMMA PipeEnds ==
  ASSUME NEW p \in Pipes
  PROVE  p[1] \in Sessions /\ p[2] \in Ends /\ p = <<p[1], p[2]>>
BY DEF Pipes

\* What comes to a pipe never changes, and is of a kind the mods know.
LEMMA StreamTypes ==
  ASSUME TypeOK, NEW p \in Pipes
  PROVE  stream[p[1]][p[2]] \in Seq(Kinds) /\ Len(stream[p[1]][p[2]]) \in Nat
<1>1. stream \in [Sessions -> [Ends -> Seq(Kinds)]]
  BY CommandsAssumption DEF TypeOK
<1>2. stream[p[1]][p[2]] \in Seq(Kinds)
  BY <1>1, PipeEnds
<1> QED BY <1>2

LEMMA ModsRange ==
  /\ Len(Mods) = 4
  /\ \A i \in 1..4 : Mods[i] = "recorder" \/ Mods[i] \in Answering
BY DEF Mods, Answering

\* A pipe with a packet in hand belongs to a session that is past initMods, and
\* the packet is one of its stream; only a client's packets reach the router.
Holds(p) ==
  /\ nread[p] <= Len(stream[p[1]][p[2]])
  /\ pipe[p].pc # "read" => Ready(p[1]) /\ nread[p] > 0
  /\ pipe[p].pc \in {"router", "store", "tell", "rest"} => p[2] = "client"
  /\ pipe[p].pc \in {"store", "tell"} => Packet(p) = "toggle"

HoldsInv == \A p \in Pipes : Holds(p)

\* A step of one pipe leaves the others to hold what they hold.
LEMMA OnePipe ==
  ASSUME HoldsInv, NEW p \in Pipes, UNCHANGED <<stream, inited>>, Holds(p)',
         \A q \in Pipes \ {p} : pipe'[q] = pipe[q] /\ nread'[q] = nread[q]
  PROVE  HoldsInv'
<1> SUFFICES ASSUME NEW q \in Pipes, q # p PROVE Holds(q)'
  BY DEF HoldsInv
<1> QED BY DEF HoldsInv, Holds, Packet, Ready

\* What the steps of a pipe have in common.
LEMMA StepFrame ==
  ASSUME TypeOK, NEW p \in Pipes, PipeStep(p)
  PROVE  /\ UNCHANGED <<stream, inited, settled, disturbed, sender, client, encoder>>
         /\ \A q \in Pipes \ {p} : pipe'[q] = pipe[q] /\ nread'[q] = nread[q]
         /\ ~Read(p) => nread' = nread /\ pipe[p].pc # "read"
         /\ ~Writes(p) /\ ~WriteFails(p) => UNCHANGED <<broken, log, late>>
<1> USE DEF TypeOK, Goes, GoesWith
<1>1. CASE Read(p)
  BY <1>1 DEF Read, initVars, recordVars
<1>2. CASE pipe[p].pc = "router" /\ Router(p)
  BY <1>2 DEF Router, Passes, Reports, Sets, ToggleLoads, initVars, recordVars
<1>3. CASE ToggleStores(p) \/ ToggleTells(p)
  BY <1>3 DEF ToggleStores, ToggleTells, initVars, recordVars
<1>4. CASE Unrecorded(p) \/ Fills(p)
  BY <1>4 DEF Unrecorded, Fills, initVars, recordVars
<1>5. CASE Writes(p) \/ WriteFails(p)
  BY <1>5 DEF Writes, WriteFails, initVars
<1>6. CASE Rest(p)
  BY <1>6 DEF Rest, initVars, recordVars
<1> QED BY <1>1, <1>2, <1>3, <1>4, <1>5, <1>6 DEF PipeStep

LEMMA HoldsStable ==
  ASSUME TypeOK, HoldsInv, [Next]_vars
  PROVE  HoldsInv'
<1>1. ASSUME UNCHANGED <<stream, inited, pipe, nread>> PROVE HoldsInv'
  BY <1>1 DEF HoldsInv, Holds, Packet, Ready
<1>2. ASSUME NEW s \in Sessions, Begin(s) \/ InitMod(s) PROVE HoldsInv'
  <2>1. /\ UNCHANGED <<stream, pipe, nread>> /\ ~Ready(s)
        /\ \A t \in Sessions : t # s => inited'[t] = inited[t]
    BY <1>2, ModsRange DEF Begin, InitMod, Begun, Ready, TypeOK
  <2> SUFFICES ASSUME NEW p \in Pipes PROVE Holds(p)'
    BY DEF HoldsInv
  <2>2. Holds(p) /\ p[1] \in Sessions
    BY PipeEnds DEF HoldsInv
  <2> QED BY <2>1, <2>2 DEF Holds, Packet, Ready
<1>3. ASSUME NEW p \in Pipes, PipeStep(p) PROVE HoldsInv'
  <2>1. Holds(p) /\ pipe[p] \in PipeRecords /\ nread[p] \in Nat
    BY DEF HoldsInv, TypeOK, PipeRecords
  <2>2. Holds(p)'
    <3> USE DEF TypeOK, Goes, GoesWith, Holds, Packet, Ready
    <3>1. CASE Read(p)
      <4>1. /\ nread'[p] = nread[p] + 1 /\ nread[p] < Len(stream[p[1]][p[2]])
            /\ pipe'[p].pc = IF p[2] = "client" THEN "router" ELSE "recorder"
            /\ Ready(p[1]) /\ UNCHANGED <<stream, inited>>
        BY <3>1 DEF Read, initVars
      <4>2. Len(stream[p[1]][p[2]]) \in Nat
        BY StreamTypes
      <4> QED BY <2>1, <4>1, <4>2
    <3>2. CASE pipe[p].pc = "router" /\ Router(p)
      BY <2>1, <3>2 DEF Router, Passes, Reports, Sets, ToggleLoads, initVars
    <3>3. CASE ToggleStores(p) \/ ToggleTells(p)
      BY <2>1, <3>3 DEF ToggleStores, ToggleTells, initVars
    <3>4. CASE Unrecorded(p) \/ Fills(p)
      BY <2>1, <3>4 DEF Unrecorded, Fills, initVars
    <3>6. CASE Writes(p) \/ WriteFails(p)
      BY <2>1, <3>6 DEF Writes, WriteFails, initVars
    <3>5. CASE Rest(p)
      BY <2>1, <3>5 DEF Rest, initVars
    <3> QED BY <1>3, <3>1, <3>2, <3>3, <3>4, <3>5, <3>6 DEF PipeStep
  <2> QED BY <1>3, <2>2, StepFrame, OnePipe
<1> QED
  BY <1>1, <1>2, <1>3 DEF Next, TakeOver, Leaves, initVars, vars

\* A packet in hand is of a kind the mods know.
LEMMA PacketKind ==
  ASSUME TypeOK, HoldsInv, NEW p \in Pipes, pipe[p].pc # "read"
  PROVE  Packet(p) \in Kinds
<1>1. /\ nread[p] \in Nat /\ nread[p] > 0
      /\ nread[p] <= Len(stream[p[1]][p[2]])
  BY DEF HoldsInv, Holds, TypeOK
<1>2. stream[p[1]][p[2]] \in Seq(Kinds)
  BY StreamTypes
<1>3. nread[p] \in 1..Len(stream[p[1]][p[2]])
  BY <1>1, <1>2
<1>4. ASSUME NEW S, NEW q \in Seq(S), NEW i \in 1..Len(q) PROVE q[i] \in S
  OBVIOUS
<1> QED BY <1>2, <1>3, <1>4 DEF Packet

\* An answer goes to a session that has initialised the mod.
LEMMA SenderKnown ==
  ASSUME TypeOK, HoldsInv, NEW p \in Pipes, pipe[p].pc # "read",
         NEW m \in Answering
  PROVE  sender[m] \in Sessions
<1>1. inited[p[1]] = 4 /\ p[1] \in Sessions
  BY PipeEnds, ModsRange DEF HoldsInv, Holds, Ready
<1>2. PICK i \in 1..4 : Mods[i] = m
  <2>1. Mods[1] = "router" /\ Mods[3] = "schem" /\ Mods[4] = "welcome"
    BY DEF Mods
  <2> QED BY <2>1 DEF Answering
<1>3. sender[m] # None
  BY <1>1, <1>2, ModsRange DEF TypeOK
<1> QED BY <1>3 DEF TypeOK

\* What an answer does, whichever mod gives it.
LEMMA AnswerTypes ==
  ASSUME TypeOK, HoldsInv, NEW p \in Pipes, pipe[p].pc # "read",
         NEW m \in Answering, NEW said \in Says, Answer(p[1], m, said)
  PROVE  /\ claim' \in [Sessions -> Says]
         /\ replies' \subseteq [asker : Sessions, to : Sessions]
<1>1. sender[m] \in Sessions /\ p[1] \in Sessions
  BY SenderKnown, PipeEnds
<1>2. [asker |-> p[1], to |-> sender[m]] \in [asker : Sessions, to : Sessions]
  BY <1>1
<1> QED BY <1>1, <1>2 DEF Answer, TypeOK

\* What there is to say about the module.
LEMMA SaysRange ==
  ASSUME TypeOK
  PROVE  /\ Nothing \in Says /\ Held \subseteq Says
         /\ <<"enabled", enabled>> \in Says /\ <<"announce", announce>> \in Says
<1>1. enabled \in BOOLEAN /\ announce \in BOOLEAN
  BY DEF TypeOK
<1>2. Nothing \in Says
  BY DEF Nothing, Says
<1>3. \A b \in BOOLEAN : <<"enabled", b>> \in Says /\ <<"announce", b>> \in Says
  BY DEF Says
<1> QED BY <1>1, <1>2, <1>3 DEF Held

LEMMA TypeStable ==
  ASSUME TypeOK, HoldsInv, [Next]_vars
  PROVE  TypeOK'
<1> USE CommandsAssumption
<1>1. ASSUME NEW s \in Sessions, Begin(s) PROVE TypeOK'
  <2>1. /\ inited' \in [Sessions -> -1..Len(Mods)]
        /\ settled' \in [Sessions -> SUBSET Sessions]
        /\ \A t \in Sessions, i \in 1..4 : i <= inited'[t] => i <= inited[t]
    BY <1>1, ModsRange DEF Begin, Begun, TypeOK
  <2> QED
    BY <1>1, <2>1, ModsRange DEF Begin, TypeOK, moduleVars, recordVars
<1>2. ASSUME NEW s \in Sessions, InitMod(s) PROVE TypeOK'
  <2> DEFINE m == Mods[inited[s] + 1]
  <2>1. /\ inited[s] \in 0..3 /\ inited' = [inited EXCEPT ![s] = @ + 1]
        /\ inited' \in [Sessions -> -1..Len(Mods)]
        /\ disturbed' \subseteq Sessions
    BY <1>2, ModsRange DEF InitMod, Begun, Ready, TypeOK
  <2>2. m = "recorder" \/ m \in Answering
    BY <2>1, ModsRange
  <2>3. /\ sender' \in [Answering -> Sessions \cup {None}]
        /\ \A k \in Answering :
             sender'[k] # None \/ (sender'[k] = sender[k] /\ k # m)
    <3>1. CASE m = "recorder"
      BY <1>2, <3>1 DEF InitMod, TypeOK, Answering
    <3>2. CASE m # "recorder"
      <4>1. sender' = [sender EXCEPT ![m] = s] /\ s # None
        BY <1>2, <3>2 DEF InitMod, NewSender
      <4>2. m \in Answering /\ sender \in [Answering -> Sessions \cup {None}]
        BY <2>2, <3>2 DEF TypeOK
      <4>3. sender'[m] = s /\ \A k \in Answering \ {m} : sender'[k] = sender[k]
        BY <4>1, <4>2
      <4>4. sender' \in [Answering -> Sessions \cup {None}]
        BY <4>1, <4>2
      <4>5. s # None
        BY <4>1
      <4> HIDE DEF m
      <4>6. ASSUME NEW k \in Answering
            PROVE  sender'[k] # None \/ (sender'[k] = sender[k] /\ k # m)
        BY <4>3, <4>5
      <4> QED BY <4>4, <4>6
    <3> QED BY <3>1, <3>2
  <2>4. (\A t \in Sessions, i \in 1..Len(Mods) :
           i <= inited[t] /\ Mods[i] \in Answering => sender[Mods[i]] # None)'
    BY <2>1, <2>3, ModsRange DEF TypeOK
  <2>5. /\ {encoder, broken}' \subseteq BOOLEAN
        /\ log' \in Seq((Sessions \cup {None}) \X Ends \X Nat)
        /\ shared' \subseteq Pipes /\ late' \subseteq Pipes
    <3>1. CASE UNCHANGED recordVars
      BY <3>1 DEF recordVars, TypeOK
    <3>2. CASE /\ encoder' = TRUE /\ broken' = FALSE /\ log' = << >>
               /\ shared' = {} /\ late' = At("encode")
      <4>1. {encoder, broken}' \subseteq BOOLEAN
        BY <3>2
      <4>2. log' \in Seq((Sessions \cup {None}) \X Ends \X Nat)
        BY <3>2
      <4>3. shared' \subseteq Pipes /\ late' \subseteq Pipes
        BY <3>2 DEF At
      <4> QED BY <4>1, <4>2, <4>3
    <3> QED BY <1>2, <3>1, <3>2 DEF InitMod, CreateFile
  <2> QED
    BY <1>2, <2>1, <2>3, <2>4, <2>5 DEF InitMod, TypeOK, moduleVars
<1>3. ASSUME NEW s \in Sessions, TakeOver(s) \/ Leaves(s) PROVE TypeOK'
  <2>1. client' \in [Sessions -> {"none", "open", "closed"}]
    BY <1>3 DEF TakeOver, Leaves, TypeOK
  <2>2. UNCHANGED <<initVars, replies, moduleVars, claim, pipe, nread, recordVars>>
    BY <1>3 DEF TakeOver, Leaves
  <2> QED BY <2>1, <2>2 DEF TypeOK, initVars, moduleVars, recordVars
<1>4. ASSUME NEW p \in Pipes, PipeStep(p) PROVE TypeOK'
  <2>1. /\ pipe[p] \in PipeRecords /\ nread[p] \in Nat
        /\ p[1] \in Sessions /\ p[2] \in Ends
    BY PipeEnds DEF TypeOK, PipeRecords
  <2>2. pipe' \in [Pipes -> PipeRecords]
    <3>1. \E pc \in PipePC, b \in BOOLEAN :
            pipe' = [pipe EXCEPT ![p] = [pc |-> pc, val |-> b]]
      BY <1>4, <2>1 DEF PipeStep, Router, Read, Passes, Reports, Sets,
         ToggleLoads, ToggleStores, ToggleTells, Unrecorded, Fills, Writes,
         WriteFails, Rest, Goes, GoesWith, PipePC, TypeOK
    <3> QED BY <3>1 DEF TypeOK, PipeRecords
  <2>3. nread' \in [Pipes -> Nat]
    <3>1. CASE Read(p)
      BY <2>1, <3>1 DEF Read, TypeOK
    <3> QED BY <1>4, <3>1, StepFrame DEF TypeOK
  <2>4. claim' \in [Sessions -> Says]
        /\ replies' \subseteq [asker : Sessions, to : Sessions]
    <3>1. CASE Read(p)
      <4>1. claim' = claim \/ claim' = [claim EXCEPT ![p[1]] = Nothing]
        BY <3>1 DEF Read
      <4>2. claim' \in [Sessions -> Says]
        BY <2>1, <4>1, SaysRange DEF TypeOK
      <4> QED BY <3>1, <4>2 DEF Read, TypeOK
    <3>2. CASE pipe[p].pc = "router" /\ Reports(p)
      <4>1. PICK said \in Says : Answer(p[1], "router", said)
        <5>1. PICK a \in {<<"mods", Listed>>, <<"info", Informed>>, <<"unknown", Nothing>>} : Answer(p[1], "router", a[2])
          BY <3>2 DEF Reports
        <5>2. a[2] \in Says
          <6>1. \/ a = <<"mods", <<"enabled", enabled>>>>
                \/ a = <<"info", <<"announce", announce>>>>
                \/ a = <<"unknown", Nothing>>
            BY <5>1 DEF Listed, Informed
          <6>2. \/ a[2] = <<"enabled", enabled>> \/ a[2] = <<"announce", announce>>
                \/ a[2] = Nothing
            BY <6>1
          <6> QED BY <6>2, SaysRange
        <5> QED BY <5>1, <5>2
      <4> QED BY <3>2, <4>1, AnswerTypes DEF Answering
    <3>3. CASE pipe[p].pc = "router" /\ Sets(p)
      <4>1. PICK said \in Says : Answer(p[1], "router", said)
        BY <3>3 DEF Sets, Echo, Says
      <4> QED BY <3>3, <4>1, AnswerTypes DEF Answering
    <3>4. CASE ToggleTells(p)
      <4>1. /\ NewState \in Says /\ Answer(p[1], "router", NewState)
            /\ pipe[p].pc # "read"
        BY <3>4 DEF ToggleTells, NewState, Says, TypeOK, Goes, GoesWith
      <4> QED BY <4>1, AnswerTypes DEF Answering
    <3>5. CASE Rest(p)
      <4>1. CASE Packet(p) \in {"chat", "nan"}
        BY <3>5, <4>1 DEF Rest, TypeOK
      <4>2. CASE Packet(p) \notin {"chat", "nan"}
        <5>1. PICK m \in Answering : Answer(p[1], m, Nothing)
          BY <3>5, <4>2 DEF Rest, Taker, Answering
        <5> QED
          BY <3>5, <5>1, AnswerTypes DEF Nothing, Says, Rest, Goes, GoesWith
      <4> QED BY <4>1, <4>2
    <3>6. CASE \/ pipe[p].pc = "router" /\ (Passes(p) \/ ToggleLoads(p))
               \/ ToggleStores(p) \/ Unrecorded(p) \/ Fills(p)
               \/ Writes(p) \/ WriteFails(p)
      BY <3>6 DEF Passes, ToggleLoads, ToggleStores, Unrecorded, Fills, Writes,
                  WriteFails, TypeOK
    <3> QED
      BY <1>4, <3>1, <3>2, <3>3, <3>4, <3>5, <3>6 DEF PipeStep, Router
  <2>5. /\ seen' \in [Sessions -> SUBSET Says]
        /\ {enabled, announce, flips, crossed}' \subseteq BOOLEAN
    <3>1. CASE Read(p)
      <4>1. seen' = seen \/ seen' = [seen EXCEPT ![p[1]] = Held]
        BY <3>1 DEF Read
      <4>2. seen' \in [Sessions -> SUBSET Says]
        BY ZenonT(60), <2>1, <4>1, SaysRange DEF TypeOK
      <4> QED BY <3>1, <4>2 DEF Read, TypeOK
    <3>2. CASE Sets(p) \/ ToggleStores(p)
      <4>1. PICK on \in BOOLEAN, says \in BOOLEAN :
              /\ Became(p[1], on, says)
              /\ flips' \in BOOLEAN /\ crossed' \in BOOLEAN
        BY <3>2 DEF Sets, Stored, ToggleStores, Flipped, TypeOK
      <4> QED BY <4>1 DEF Became, TypeOK, Says
    <3>3. CASE ToggleLoads(p)
      BY <3>3 DEF ToggleLoads, TypeOK
    <3>4. CASE ~Read(p) /\ ~Sets(p) /\ ~ToggleStores(p) /\ ~ToggleLoads(p)
      <4>1. UNCHANGED moduleVars
        BY <1>4, <3>4 DEF PipeStep, Router, Passes, Reports, ToggleTells,
                          Unrecorded, Fills, Writes, WriteFails, Rest
      <4> QED BY <4>1 DEF moduleVars, TypeOK
    <3> QED BY <3>1, <3>2, <3>3, <3>4
  <2>6. /\ log' \in Seq((Sessions \cup {None}) \X Ends \X Nat)
        /\ shared' \subseteq Pipes /\ late' \subseteq Pipes
    <3>1. CASE Fills(p)
      BY <3>1 DEF Fills, At, TypeOK
    <3>2. CASE Writes(p)
      <4>1. <<p[1], p[2], nread[p]>> \in (Sessions \cup {None}) \X Ends \X Nat
        BY <2>1
      <4>2. Torn \in (Sessions \cup {None}) \X Ends \X Nat
        BY DEF Torn, Ends
      <4>3. \E r \in (Sessions \cup {None}) \X Ends \X Nat : log' = Append(log, r)
        BY <3>2, <4>1, <4>2 DEF Writes, Records
      <4> QED BY <3>2, <4>3 DEF Writes, TypeOK
    <3>3. CASE WriteFails(p)
      <4>1. Torn \in (Sessions \cup {None}) \X Ends \X Nat
        BY DEF Torn, Ends
      <4>2. log \in Seq((Sessions \cup {None}) \X Ends \X Nat)
        BY DEF TypeOK
      <4>3. log' = log \/ log' = Append(log, Torn)
        BY <3>3 DEF WriteFails
      <4>4. Append(log, Torn) \in Seq((Sessions \cup {None}) \X Ends \X Nat)
        BY <4>1, <4>2
      <4>5. log' \in Seq((Sessions \cup {None}) \X Ends \X Nat)
        BY <4>2, <4>3, <4>4
      <4> QED BY <3>3, <4>5 DEF WriteFails, TypeOK
    <3>4. CASE ~Fills(p) /\ ~Writes(p) /\ ~WriteFails(p)
      <4>1. UNCHANGED recordVars
        BY <1>4, <3>4 DEF PipeStep, Router, Read, Passes, Reports, Sets,
           ToggleLoads, ToggleStores, ToggleTells, Unrecorded, Rest
      <4> QED BY <4>1 DEF recordVars, TypeOK
    <3> QED BY <3>1, <3>2, <3>3, <3>4
  <2>7. broken' \in BOOLEAN
    <3>1. CASE WriteFails(p)
      BY <3>1 DEF WriteFails, TypeOK
    <3>2. CASE ~WriteFails(p)
      <4>1. broken' = broken
        BY <1>4, <3>2 DEF PipeStep, Router, Read, Passes, Reports, Sets,
           ToggleLoads, ToggleStores, ToggleTells, Unrecorded, Fills, Writes,
           Rest, recordVars
      <4> QED BY <4>1 DEF TypeOK
    <3> QED BY <3>1, <3>2
  <2> QED
    BY <1>4, <2>2, <2>3, <2>4, <2>5, <2>6, <2>7, StepFrame DEF TypeOK, PipeRecords
<1>5. ASSUME UNCHANGED vars PROVE TypeOK'
  BY <1>5 DEF vars, initVars, moduleVars, recordVars, TypeOK
<1> QED BY <1>1, <1>2, <1>3, <1>4, <1>5 DEF Next

\* Every variable keeps its type, and a pipe what it holds.
THEOREM PipeInvariant == Spec => [](TypeOK /\ HoldsInv)
<1>1. Init => TypeOK /\ HoldsInv
  <2> SUFFICES ASSUME Init PROVE TypeOK /\ HoldsInv
    OBVIOUS
  <2>1. TypeOK
    <3>1. /\ seen = [s \in Sessions |-> Held] /\ claim = [s \in Sessions |-> Nothing]
          /\ enabled \in BOOLEAN /\ announce \in BOOLEAN
      BY DEF Init
    <3>2. Held \subseteq Says /\ Nothing \in Says
      <4>1. Nothing \in Says
        BY DEF Nothing, Says
      <4>2. \A b \in BOOLEAN : <<"enabled", b>> \in Says /\ <<"announce", b>> \in Says
        BY DEF Says
      <4> QED BY <3>1, <4>1, <4>2 DEF Held
    <3>3. seen \in [Sessions -> SUBSET Says] /\ claim \in [Sessions -> Says]
      BY <3>1, <3>2
    <3>4. \A s \in Sessions : inited[s] = -1 /\ settled[s] = {}
      BY DEF Init
    <3>5. \A s \in Sessions, i \in 1..Len(Mods) : ~(i <= inited[s])
      BY <3>4, ModsRange
    <3>6. pipe \in [Pipes -> [pc : PipePC, val : BOOLEAN]]
      BY DEF Init, PipePC
    <3>7. log \in Seq((Sessions \cup {None}) \X Ends \X Nat)
      BY DEF Init
    <3>8. {enabled, announce, flips, crossed, encoder, broken} \subseteq BOOLEAN
      BY DEF Init
    <3>9. inited \in [Sessions -> -1..Len(Mods)]
      BY ModsRange DEF Init
    <3>10. /\ client \in [Sessions -> {"none", "open", "closed"}]
           /\ sender \in [Answering -> Sessions \cup {None}]
           /\ settled \in [Sessions -> SUBSET Sessions]
           /\ nread \in [Pipes -> Nat]
      BY DEF Init
    <3> QED
      BY <3>3, <3>5, <3>6, <3>7, <3>8, <3>9, <3>10 DEF Init, TypeOK
  <2>2. ASSUME NEW p \in Pipes PROVE Holds(p)
    <3>1. Len(stream[p[1]][p[2]]) \in Nat
      BY <2>1, StreamTypes
    <3> QED BY <3>1 DEF Init, Holds
  <2> QED BY <2>1, <2>2 DEF HoldsInv
<1>2. TypeOK /\ HoldsInv /\ [Next]_vars => (TypeOK /\ HoldsInv)'
  BY TypeStable, HoldsStable
<1> QED BY <1>1, <1>2, PTL DEF Spec

\* Every variable keeps its type, for any sessions, bots and packets; no mod a
\* session has been through is without a send function.
THEOREM TypeCorrect == Spec => []TypeOK
BY PipeInvariant, PTL

-----------------------------------------------------------------------------
\* Whose send functions the mods hold, seen from s: those settled before it
\* never run initMods again, so what a mod holds once s has been through it is
\* not theirs, and is its own until another session is at that mod.
SenderOK(s) ==
  /\ \A t \in settled[s] : Ready(t)
  /\ \A i \in 1..4 : i <= inited[s] /\ Mods[i] \in Answering =>
       /\ sender[Mods[i]] \notin settled[s]
       /\ s \notin disturbed => sender[Mods[i]] = s

SenderInv ==
  /\ \A s \in Sessions : SenderOK(s)
  /\ \A r \in replies :
       /\ Begun(r.asker) /\ r.to \notin settled[r.asker]
       /\ r.to = r.asker \/ r.asker \in disturbed

\* An answer of a pipe with a packet in hand goes to nobody it should not.
LEMMA AnswerStable ==
  ASSUME TypeOK, HoldsInv, SenderInv, NEW p \in Pipes, pipe[p].pc # "read",
         UNCHANGED <<inited, settled, disturbed, sender>>,
         replies' = replies
           \/ \E m \in Answering :
                replies' = replies \cup {[asker |-> p[1], to |-> sender[m]]}
  PROVE  SenderInv'
<1>1. ASSUME NEW m \in Answering
      PROVE  /\ Begun(p[1]) /\ sender[m] \notin settled[p[1]]
             /\ sender[m] = p[1] \/ p[1] \in disturbed
  <2>1. inited[p[1]] = 4 /\ p[1] \in Sessions
    BY PipeEnds, ModsRange DEF HoldsInv, Holds, Ready
  <2>2. PICK i \in 1..4 : Mods[i] = m
    <3>1. Mods[1] = "router" /\ Mods[3] = "schem" /\ Mods[4] = "welcome"
      BY DEF Mods
    <3> QED BY <3>1 DEF Answering
  <2>3. i <= inited[p[1]] /\ SenderOK(p[1])
    BY <2>1 DEF SenderInv
  <2> QED BY <2>1, <2>2, <2>3 DEF SenderOK, Begun
<1>2. \A s \in Sessions : SenderOK(s)'
  BY DEF SenderInv, SenderOK, Ready
<1>3. ASSUME NEW r \in replies'
      PROVE  /\ Begun(r.asker) /\ r.to \notin settled[r.asker]
             /\ r.to = r.asker \/ r.asker \in disturbed
  BY <1>1 DEF SenderInv
<1> QED BY <1>2, <1>3 DEF SenderInv, Begun

LEMMA SenderStable ==
  ASSUME TypeOK, HoldsInv, SenderInv, [Next]_vars
  PROVE  SenderInv'
<1>1. ASSUME UNCHANGED <<initVars, replies>> PROVE SenderInv'
  BY <1>1 DEF SenderInv, SenderOK, Ready, Begun, initVars
<1>2. ASSUME NEW s \in Sessions, Begin(s) PROVE SenderInv'
  <2>1. /\ UNCHANGED <<disturbed, sender, replies>> /\ inited[s] = -1
        /\ inited'[s] = 0 /\ settled'[s] = {t \in Sessions : Ready(t)}
        /\ \A t \in Sessions \ {s} : inited'[t] = inited[t] /\ settled'[t] = settled[t]
    <3>1. inited \in [Sessions -> -1..4] /\ settled \in [Sessions -> SUBSET Sessions]
      BY ModsRange DEF TypeOK
    <3>2. inited[s] = -1 /\ inited'[s] = 0
      BY <1>2, <3>1 DEF Begin, Begun
    <3>3. settled' = [settled EXCEPT ![s] = {t \in Sessions : Ready(t)}]
      BY <1>2 DEF Begin
    <3>4. settled'[s] = {t \in Sessions : Ready(t)}
      BY <3>1, <3>3
    <3> QED BY <1>2, <3>1, <3>2, <3>3, <3>4 DEF Begin
  <2>2. ASSUME NEW t \in Sessions PROVE SenderOK(t)'
    <3>1. SenderOK(t) /\ settled[t] \subseteq Sessions
      BY DEF SenderInv, TypeOK
    <3>2. \A u \in Sessions : Ready(u) => u # s /\ Ready(u)'
      BY <2>1, ModsRange DEF Ready
    <3> QED BY <2>1, <3>1, <3>2 DEF SenderOK
  <2>3. ASSUME NEW r \in replies
        PROVE  r.asker \in Sessions \ {s} /\ Begun(r.asker)
    <3>1. r.asker \in Sessions /\ Begun(r.asker)
      BY DEF SenderInv, TypeOK
    <3> QED BY <2>1, <3>1 DEF Begun
  <2> QED BY <2>1, <2>2, <2>3 DEF SenderInv, Begun
<1>3. ASSUME NEW s \in Sessions, InitMod(s) PROVE SenderInv'
  <2> DEFINE i == inited[s] + 1
  <2>1. /\ UNCHANGED <<settled, replies>> /\ i \in 1..4 /\ ~Ready(s)
        /\ inited'[s] = i
        /\ \A t \in Sessions \ {s} : inited'[t] = inited[t]
        /\ disturbed' = disturbed \cup {t \in Sessions \ {s} : Begun(t)}
    <3>1. inited \in [Sessions -> -1..4]
      BY ModsRange DEF TypeOK
    <3>2. /\ inited' = [inited EXCEPT ![s] = @ + 1] /\ ~Ready(s)
          /\ inited[s] >= 0 /\ inited[s] # 4
          /\ UNCHANGED <<settled, replies>>
          /\ disturbed' = disturbed \cup {t \in Sessions \ {s} : Begun(t)}
      BY <1>3, ModsRange DEF InitMod, Begun, Ready
    <3> QED BY <3>1, <3>2
  <2>2. ASSUME NEW k \in Answering
        PROVE  sender'[k] = IF Mods[i] = k THEN s ELSE sender[k]
    <3>1. "recorder" \notin Answering
      BY DEF Answering
    <3>2. CASE Mods[i] = "recorder"
      BY <1>3, <3>1, <3>2 DEF InitMod
    <3>3. CASE Mods[i] # "recorder"
      <4>1. sender' = [sender EXCEPT ![Mods[i]] = s]
        BY <1>3, <3>3 DEF InitMod, NewSender
      <4>2. Mods[i] \in Answering
        BY <2>1, <3>3, ModsRange
      <4> QED BY <4>1, <4>2 DEF TypeOK
    <3> QED BY <3>2, <3>3
  <2> HIDE DEF i
  <2>3. \A u \in Sessions : Ready(u) => u # s /\ Ready(u)'
    BY <2>1 DEF Ready
  <2>4. \A j, k \in 1..4 : j # k => Mods[j] # Mods[k]
    BY DEF Mods
  <2>5. ASSUME NEW t \in Sessions PROVE SenderOK(t)'
    <3>1. SenderOK(t) /\ settled[t] \subseteq Sessions /\ s \notin settled[t]
      BY <2>3 DEF SenderInv, SenderOK, TypeOK
    <3>2. (\A u \in settled[t] : Ready(u))'
      BY <2>1, <2>3, <3>1 DEF SenderOK
    <3>3. ASSUME NEW j \in 1..4, j <= inited'[t], Mods[j] \in Answering
          PROVE  /\ sender'[Mods[j]] \notin settled[t]
                 /\ t \notin disturbed' => sender'[Mods[j]] = t
      <4>1. CASE j = i
        <5>1. sender'[Mods[j]] = s
          BY <2>2, <3>3, <4>1
        <5>2. t # s => t \in disturbed'
          <6> SUFFICES ASSUME t # s PROVE Begun(t)
            BY <2>1
          <6> QED BY <2>1, <3>3, <4>1 DEF Begun, TypeOK
        <5> QED BY <3>1, <5>1, <5>2
      <4>2. CASE j # i
        <5>1. sender'[Mods[j]] = sender[Mods[j]]
          BY <2>1, <2>2, <2>4, <3>3, <4>2
        <5>2. j <= inited[t]
          <6>1. i = inited[s] + 1
            BY DEF i
          <6>2. inited[s] \in Int
            BY ModsRange DEF TypeOK
          <6> QED BY <2>1, <3>3, <4>2, <6>1, <6>2
        <5> QED BY <2>1, <3>1, <3>3, <5>1, <5>2 DEF SenderOK
      <4> QED BY <4>1, <4>2
    <3> QED BY <2>1, <3>2, <3>3 DEF SenderOK
  <2>6. ASSUME NEW r \in replies
        PROVE  r.asker \in Sessions /\ (Begun(r.asker) => Begun(r.asker)')
    <3>1. r.asker \in Sessions
      BY DEF TypeOK
    <3> QED BY <2>1, <3>1 DEF Begun
  <2> QED BY <2>1, <2>5, <2>6 DEF SenderInv
<1>4. ASSUME NEW p \in Pipes, PipeStep(p) PROVE SenderInv'
  <2>1. UNCHANGED <<inited, settled, disturbed, sender>>
    BY <1>4, StepFrame
  <2>2. CASE Read(p)
    BY <1>1, <2>1, <2>2 DEF Read
  <2>3. CASE ~Read(p)
    <3>1. pipe[p].pc # "read"
      BY <1>4, <2>3, StepFrame
    <3>2. \/ replies' = replies
          \/ \E m \in Answering : \E said : Answer(p[1], m, said)
      BY <1>4, <2>3 DEF PipeStep, Router, Passes, Reports, Sets, ToggleLoads,
         ToggleStores, ToggleTells, Unrecorded, Fills, Writes, WriteFails, Rest,
         Taker, Answering
    <3> QED BY <2>1, <3>1, <3>2, AnswerStable DEF Answer
  <2> QED BY <2>2, <2>3
<1> QED
  BY <1>1, <1>2, <1>3, <1>4 DEF Next, TakeOver, Leaves, vars

LEMMA SenderInvariant == Spec => []SenderInv
<1>1. Init => SenderInv
  <2> SUFFICES ASSUME Init PROVE SenderInv
    OBVIOUS
  <2>1. /\ replies = {}
        /\ \A s \in Sessions : inited[s] = -1 /\ settled[s] = {}
    BY DEF Init
  <2> QED BY <2>1 DEF SenderInv, SenderOK
<1> QED BY <1>1, SenderStable, PipeInvariant, PTL DEF Spec

\* Nobody is answered who was initialised before the asker began
\* (session.go:36).
THEOREM Recipients == Spec => []NoEarlierRecipient
<1>1. SenderInv => NoEarlierRecipient
  BY DEF SenderInv, NoEarlierRecipient
<1> QED BY <1>1, SenderInvariant, PTL

\* And nobody but the asker, while no one else initialises the mods.
THEOREM AskerIsAnswered == Spec => []OwnAnswer
<1>1. SenderInv => OwnAnswer
  BY DEF SenderInv, OwnAnswer
<1> QED BY <1>1, SenderInvariant, PTL

-----------------------------------------------------------------------------
\* Every session has seen what the module is now; a client's pipe has not told
\* anything of it while it has a packet in hand.
SeenInv ==
  /\ \A s \in Sessions : Held \subseteq seen[s]
  /\ \A p \in Pipes :
       p[2] = "client" /\ pipe[p].pc # "read" => claim[p[1]] = Nothing

LEMMA SeenStable ==
  ASSUME TypeOK, HoldsInv, SeenInv, AnswersHeld, [Next]_vars
  PROVE  (SeenInv /\ AnswersHeld)'
<1> USE DEF Goes, GoesWith
<1>1. ASSUME UNCHANGED <<enabled, announce, seen, claim>>,
             \A q \in Pipes : q[2] = "client" /\ pipe'[q].pc # "read"
                              => pipe[q].pc # "read"
      PROVE  (SeenInv /\ AnswersHeld)'
  BY <1>1 DEF SeenInv, AnswersHeld, Held
<1>2. ASSUME NEW p \in Pipes, p[2] = "client", NEW q \in Pipes, q[2] = "client",
             q[1] = p[1]
      PROVE  q = p
  BY <1>2, PipeEnds
<1>3. ASSUME NEW p \in Pipes, p[2] = "client", NEW said,
             UNCHANGED <<enabled, announce, seen>>,
             claim' = [claim EXCEPT ![p[1]] = said],
             said = Nothing \/ said \in Held,
             pipe'[p].pc = "read",
             \A q \in Pipes \ {p} : pipe'[q] = pipe[q]
      PROVE  (SeenInv /\ AnswersHeld)'
  <2>1. /\ claim'[p[1]] = said
        /\ \A t \in Sessions \ {p[1]} : claim'[t] = claim[t]
    BY <1>3, PipeEnds DEF TypeOK
  <2>2. ASSUME NEW q \in Pipes, q[2] = "client", pipe'[q].pc # "read"
        PROVE  claim'[q[1]] = Nothing
    <3>1. q # p /\ q[1] # p[1] /\ q[1] \in Sessions
      BY <1>2, <1>3, <2>2, PipeEnds
    <3> QED BY <1>3, <2>1, <2>2, <3>1 DEF SeenInv
  <2>3. SeenInv'
    BY <1>3, <2>2 DEF SeenInv, Held
  <2>4. Nothing[1] = "none"
    BY DEF Nothing
  <2> QED BY <1>3, <2>1, <2>3, <2>4 DEF SeenInv, AnswersHeld
<1>4. ASSUME NEW p \in Pipes, Read(p) PROVE (SeenInv /\ AnswersHeld)'
  <2>1. /\ UNCHANGED <<enabled, announce>>
        /\ \A q \in Pipes \ {p} : pipe'[q] = pipe[q]
    BY <1>4 DEF Read, TypeOK
  <2>2. CASE p[2] = "client"
    <3>1. \A t \in Sessions :
            /\ seen'[t] = IF t = p[1] THEN Held ELSE seen[t]
            /\ claim'[t] = IF t = p[1] THEN Nothing ELSE claim[t]
      BY <1>4, <2>2 DEF Read, TypeOK
    <3>2. Held' = Held
      BY <2>1 DEF Held
    <3>3. ASSUME NEW q \in Pipes, q[2] = "client", pipe'[q].pc # "read"
          PROVE  claim'[q[1]] = Nothing
      BY <2>1, <3>1, <3>3, PipeEnds DEF SeenInv
    <3>4. Nothing[1] = "none"
      BY DEF Nothing
    <3> QED BY <3>1, <3>2, <3>3, <3>4 DEF SeenInv, AnswersHeld
  <2>3. CASE p[2] # "client"
    BY <1>1, <1>4, <2>1, <2>3 DEF Read
  <2> QED BY <2>2, <2>3
<1>5. ASSUME NEW p \in Pipes, pipe[p].pc = "router", Sets(p)
      PROVE  (SeenInv /\ AnswersHeld)'
  <2> DEFINE b == Packet(p) = "setOn"
             e == Echo(p)
  <2>1. Became(p[1], enabled, b) /\ Answer(p[1], "router", e)
    BY <1>5 DEF Sets, Stored
  <2>9. e = <<"announce", b>> \/ e[1] = "yes"
    BY DEF Echo
  <2>2. p[2] = "client" /\ pipe'[p].pc = "read"
    BY <1>5 DEF Sets, HoldsInv, Holds, TypeOK
  <2>3. \A q \in Pipes \ {p} : pipe'[q] = pipe[q]
    BY <1>5 DEF Sets, TypeOK
  <2> HIDE DEF b, e
  <2>4. Held' = {<<"enabled", enabled>>, <<"announce", b>>}
    BY <2>1 DEF Became, Held
  <2>5. \A t \in Sessions :
          seen'[t] = (IF t = p[1] THEN {} ELSE seen[t]) \cup Held'
    BY <2>1, <2>4 DEF Became
  <2>6. \A t \in Sessions :
          claim'[t] = IF t = p[1] THEN e ELSE claim[t]
    BY <2>1 DEF Answer, TypeOK
  <2>7. ASSUME NEW q \in Pipes, q[2] = "client", pipe'[q].pc # "read"
        PROVE  claim'[q[1]] = Nothing
    <3>1. q # p /\ q[1] # p[1] /\ q[1] \in Sessions
      BY <1>2, <2>2, <2>7, PipeEnds
    <3> QED BY <2>3, <2>6, <2>7, <3>1 DEF SeenInv
  <2>8. SeenInv'
    BY <2>4, <2>5, <2>7 DEF SeenInv
  <2>10. ASSUME NEW t \in Sessions, claim'[t][1] \in {"enabled", "announce"}
         PROVE  claim'[t] \in seen'[t]
    <3>1. CASE t = p[1]
      <4>1. claim'[t] = <<"announce", b>>
        BY <2>6, <2>9, <2>10, <3>1
      <4> QED BY <2>4, <2>5, <4>1
    <3>2. CASE t # p[1]
      <4>1. claim[t] \in seen[t]
        BY <2>6, <2>10, <3>2 DEF AnswersHeld
      <4> QED BY <2>5, <2>6, <3>2, <4>1
    <3> QED BY <3>1, <3>2
  <2> QED BY <2>8, <2>10 DEF AnswersHeld
<1>6. ASSUME NEW p \in Pipes, ToggleStores(p) PROVE (SeenInv /\ AnswersHeld)'
  <2>1. /\ Became(p[1], Flipped(p), announce) /\ claim' = claim
        /\ pipe[p].pc = "store" /\ \A q \in Pipes \ {p} : pipe'[q] = pipe[q]
    BY <1>6 DEF ToggleStores, TypeOK
  <2>2. p[2] = "client" /\ claim[p[1]] = Nothing
    BY <2>1 DEF SeenInv, HoldsInv, Holds
  <2>3. Held' = {<<"enabled", Flipped(p)>>, <<"announce", announce>>}
    BY <2>1 DEF Became, Held
  <2>4. \A t \in Sessions :
          seen'[t] = (IF t = p[1] THEN {} ELSE seen[t]) \cup Held'
    BY <2>1, <2>3 DEF Became
  <2>5. Nothing[1] = "none"
    BY DEF Nothing
  <2> QED BY <2>1, <2>2, <2>3, <2>4, <2>5 DEF SeenInv, AnswersHeld
<1>7. ASSUME NEW p \in Pipes, PipeStep(p),
             ~Read(p), ~(pipe[p].pc = "router" /\ Sets(p)), ~ToggleStores(p)
      PROVE  (SeenInv /\ AnswersHeld)'
  <2>1. /\ UNCHANGED <<enabled, announce, seen>>
        /\ pipe[p].pc # "read" /\ \A q \in Pipes \ {p} : pipe'[q] = pipe[q]
    <3>1. UNCHANGED <<enabled, announce, seen>>
      BY <1>7 DEF PipeStep, Router, Passes, Reports, ToggleLoads, ToggleTells,
                  Unrecorded, Fills, Writes, WriteFails, Rest, moduleVars
    <3> QED BY <1>7, <3>1, StepFrame
  <2>2. \/ claim' = claim
        \/ /\ pipe'[p].pc = "read" /\ p[2] = "client"
           /\ \E said : /\ claim' = [claim EXCEPT ![p[1]] = said]
                        /\ said = Nothing \/ said \in Held
    <3>1. CASE pipe[p].pc = "router" /\ Reports(p)
      <4>1. PICK a \in {<<"mods", Listed>>, <<"info", Informed>>, <<"unknown", Nothing>>} : Answer(p[1], "router", a[2])
        BY <3>1 DEF Reports
      <4>2. a[2] = Nothing \/ a[2] \in Held
        <5>1. \/ a = <<"mods", <<"enabled", enabled>>>>
              \/ a = <<"info", <<"announce", announce>>>>
              \/ a = <<"unknown", Nothing>>
          BY <4>1 DEF Listed, Informed
        <5>2. \/ a[2] = <<"enabled", enabled>> \/ a[2] = <<"announce", announce>>
              \/ a[2] = Nothing
          BY <5>1
        <5> QED BY <5>2 DEF Held
      <4>3. pipe'[p].pc = "read" /\ p[2] = "client"
        BY <3>1 DEF Reports, HoldsInv, Holds, TypeOK
      <4> QED BY <4>1, <4>2, <4>3 DEF Answer
    <3>2. CASE ToggleTells(p)
      <4>1. pipe'[p].pc = "read" /\ p[2] = "client"
        BY <3>2 DEF ToggleTells, HoldsInv, Holds, TypeOK
      <4> QED BY <3>2, <4>1 DEF ToggleTells, NewState, Answer, Held
    <3>3. CASE Rest(p)
      <4>1. pipe'[p].pc = "read" /\ p[2] = "client"
        BY <3>3 DEF Rest, HoldsInv, Holds, TypeOK
      <4> QED BY <3>3, <4>1 DEF Rest, Answer
    <3> QED
      BY <1>7, <3>1, <3>2, <3>3 DEF PipeStep, Router, Passes, ToggleLoads,
         Unrecorded, Fills, Writes, WriteFails
  <2>3. CASE claim' = claim
    <3>1. \A q \in Pipes : pipe'[q].pc # "read" => pipe[q].pc # "read"
      BY <2>1
    <3> QED BY <1>1, <2>1, <2>3, <3>1
  <2> QED BY <1>3, <2>1, <2>2, <2>3
<1> QED
  BY <1>1, <1>4, <1>5, <1>6, <1>7
     DEF Next, Begin, InitMod, TakeOver, Leaves, moduleVars, vars

\* Nobody is told of a state of the module that it did not have since
\* (commands.go:80-135), but by %set's echo of a yes.
THEOREM TruthTold == Spec => []AnswersHeld
<1>1. Init => SeenInv /\ AnswersHeld
  <2> SUFFICES ASSUME Init PROVE SeenInv /\ AnswersHeld
    OBVIOUS
  <2>1. /\ \A s \in Sessions : seen[s] = Held /\ claim[s] = Nothing
        /\ \A p \in Pipes : pipe[p].pc = "read"
    BY DEF Init
  <2>2. Nothing[1] = "none"
    BY DEF Nothing
  <2> QED BY <2>1, <2>2 DEF SeenInv, AnswersHeld
<1>2. TypeOK /\ HoldsInv /\ SeenInv /\ AnswersHeld /\ [Next]_vars
        => (SeenInv /\ AnswersHeld)'
  BY SeenStable
<1> QED BY <1>1, <1>2, PipeInvariant, PTL DEF Spec

-----------------------------------------------------------------------------
\* Until two toggles cross, the one under way has loaded what is still there.
ToggleInv ==
  ~crossed => /\ enabled = flips
              /\ \A p \in At("store") : pipe[p].val = enabled
              /\ \A p, q \in At("store") : p = q

LEMMA ToggleStable ==
  ASSUME TypeOK, ToggleInv, [Next]_vars
  PROVE  ToggleInv'
<1>1. ASSUME UNCHANGED <<enabled, flips, crossed>>,
             \A q \in Pipes : q \in At("store")' => q \in At("store") /\ pipe'[q] = pipe[q]
      PROVE  ToggleInv'
  <2>1. At("store")' \subseteq Pipes
    BY DEF At
  <2> QED BY <1>1, <2>1 DEF ToggleInv
<1>2. ASSUME NEW p \in Pipes, ToggleLoads(p) PROVE ToggleInv'
  <2>1. /\ UNCHANGED <<enabled, flips>>
        /\ pipe'[p].pc = "store" /\ pipe'[p].val = enabled
        /\ \A q \in Pipes \ {p} : pipe'[q] = pipe[q]
        /\ ~crossed' => ~crossed /\ At("store") = {}
    BY <1>2 DEF ToggleLoads, GoesWith, TypeOK
  <2>2. ~crossed' => At("store")' = {p}
    BY <2>1 DEF At
  <2> QED BY <2>1, <2>2 DEF ToggleInv
<1>3. ASSUME NEW p \in Pipes, ToggleStores(p) PROVE ToggleInv'
  <2>1. /\ crossed' = crossed /\ flips' = ~flips /\ enabled' = ~pipe[p].val
        /\ pipe[p].pc = "store" /\ pipe'[p].pc = "tell"
        /\ \A q \in Pipes \ {p} : pipe'[q] = pipe[q]
    BY <1>3 DEF ToggleStores, Became, Flipped, Goes, GoesWith, TypeOK
  <2>2. p \in At("store")
    BY <2>1 DEF At
  <2>3. ~crossed => At("store")' = {}
    BY <2>1, <2>2 DEF ToggleInv, At
  <2>4. ~crossed => enabled' = flips'
    <3> SUFFICES ASSUME ~crossed PROVE enabled' = flips'
      OBVIOUS
    <3>1. pipe[p].val = flips
      BY <2>2 DEF ToggleInv
    <3>2. enabled' = ~flips
      BY <2>1, <3>1
    <3> QED BY <2>1, <3>2
  <2> QED BY <2>1, <2>3, <2>4 DEF ToggleInv
<1>4. ASSUME NEW p \in Pipes, PipeStep(p), ~ToggleLoads(p), ~ToggleStores(p)
      PROVE  ToggleInv'
  <2>1. UNCHANGED <<enabled, flips, crossed>> /\ pipe'[p].pc # "store"
    BY <1>4 DEF PipeStep, Router, Read, Passes, Reports, Sets, Became,
       ToggleTells, Unrecorded, Fills, Writes, WriteFails, Rest, moduleVars, Goes,
       GoesWith, TypeOK
  <2>2. \A q \in Pipes \ {p} : pipe'[q] = pipe[q]
    BY <1>4, StepFrame
  <2> QED BY <1>1, <2>1, <2>2 DEF At
<1>5. ASSUME UNCHANGED <<enabled, flips, crossed, pipe>> PROVE ToggleInv'
  BY <1>5 DEF ToggleInv, At
<1> QED
  BY <1>2, <1>3, <1>4, <1>5
     DEF Next, Begin, InitMod, TakeOver, Leaves, moduleVars, vars

\* No toggle is lost unless two cross (commands.go:109).
THEOREM TogglesKept == Spec => []NoLostToggle
<1>1. Init => ToggleInv
  <2> SUFFICES ASSUME Init PROVE ToggleInv
    OBVIOUS
  <2>1. \A p \in Pipes : pipe[p].pc = "read"
    BY DEF Init
  <2>2. At("store") = {}
    BY <2>1 DEF At
  <2>3. enabled = flips
    BY DEF Init
  <2> QED BY <2>2, <2>3 DEF ToggleInv
<1>2. TypeOK /\ ToggleInv /\ [Next]_vars => ToggleInv'
  BY ToggleStable
<1>3. ToggleInv => NoLostToggle
  BY DEF ToggleInv, NoLostToggle
<1> QED BY <1>1, <1>2, <1>3, TypeCorrect, PTL DEF Spec

-----------------------------------------------------------------------------
\* How many of its packets pipe p is done with, but for the ones the router
\* keeps until it has answered.
Done(p) == IF pipe[p].pc \in {"read", "rest"} THEN nread[p] ELSE nread[p] - 1

Ordered ==
  \A i, j \in 1..Len(log) :
    i < j /\ log[i] # Torn /\ log[i][1] = log[j][1] /\ log[i][2] = log[j][2]
      => log[i][3] < log[j][3]

\* A pipe whose packets up to now are all in the file, from its first there on:
\* no write has failed, or its own is still to come.
Full(p) == ~broken \/ pipe[p].pc = "encode"

Gapless(p) ==
  \A a \in Numbers(p), k \in Handed(p) :
    /\ a < k /\ k <= Done(p)
    /\ Full(p) \/ \E b \in Numbers(p) : k < b
    => k \in Numbers(p)

RecordInv ==
  /\ ~encoder => log = << >>
  /\ \A p \in Pipes : pipe[p].pc = "encode" => encoder
  /\ late \subseteq At("encode") /\ \A p \in late : Numbers(p) = {}
  /\ \A i \in 1..Len(log) : log[i] # Torn => log[i][1] \in Sessions
  /\ \A p \in Pipes : \A n \in Numbers(p) : n <= Done(p)
  /\ Ordered
  /\ ~Spoilt => \A p \in Pipes : Gapless(p)

\* The numbers of a pipe in a file with one more record.
LEMMA NumbersAppend ==
  ASSUME NEW q \in Seq((Sessions \cup {None}) \X Ends \X Nat),
         NEW r \in (Sessions \cup {None}) \X Ends \X Nat,
         log = q, log' = Append(q, r), NEW p \in Pipes
  PROVE  Numbers(p)' =
           Numbers(p) \cup (IF r[1] = p[1] /\ r[2] = p[2] THEN {r[3]} ELSE {})
<1> DEFINE a == Append(q, r)
<1>1. /\ Len(q) \in Nat /\ Len(a) = Len(q) + 1 /\ a[Len(q) + 1] = r
      /\ \A i \in 1..Len(q) : a[i] = q[i]
  OBVIOUS
<1>2. \A i \in 1..Len(a) : i \in 1..Len(q) \/ i = Len(q) + 1
  BY <1>1
<1>3. \A i \in 1..Len(q) : i \in 1..Len(a)
  BY <1>1
<1>4. Len(q) + 1 \in 1..Len(a)
  BY <1>1
<1>5. Numbers(p) = {q[i][3] : i \in {i \in 1..Len(q) :
                                      q[i][1] = p[1] /\ q[i][2] = p[2]}}
  BY DEF Numbers
<1>6. Numbers(p)' = {a[i][3] : i \in {i \in 1..Len(a) :
                                       a[i][1] = p[1] /\ a[i][2] = p[2]}}
  BY DEF Numbers
<1> HIDE DEF a
<1>7. ASSUME NEW n \in Numbers(p)'
      PROVE  n \in Numbers(p) \/ (r[1] = p[1] /\ r[2] = p[2] /\ n = r[3])
  <2>1. PICK i \in 1..Len(a) : a[i][1] = p[1] /\ a[i][2] = p[2] /\ n = a[i][3]
    BY <1>6, <1>7
  <2> QED BY <1>1, <1>2, <1>5, <2>1
<1>8. ASSUME NEW n \in Numbers(p) PROVE n \in Numbers(p)'
  <2>1. PICK i \in 1..Len(q) : q[i][1] = p[1] /\ q[i][2] = p[2] /\ n = q[i][3]
    BY <1>5, <1>8
  <2> QED BY ZenonT(60), <1>1, <1>3, <1>6, <2>1
<1>9. r[1] = p[1] /\ r[2] = p[2] => r[3] \in Numbers(p)'
  BY <1>1, <1>4, <1>6
<1> QED BY <1>7, <1>8, <1>9

\* A file with no record has no number of any pipe.
LEMMA EmptyFile ==
  ASSUME log = << >>
  PROVE  Ordered /\ \A p \in Pipes : Numbers(p) = {}
BY DEF Ordered, Numbers

LEMMA NumberTypes ==
  ASSUME TypeOK, NEW p \in Pipes
  PROVE  Numbers(p) \subseteq Nat
<1>1. \A i \in 1..Len(log) : log[i] \in (Sessions \cup {None}) \X Ends \X Nat
  BY DEF TypeOK
<1>2. \A i \in 1..Len(log) : log[i][3] \in Nat
  BY <1>1
<1> QED BY <1>2 DEF Numbers

\* A step that writes nothing, and takes no pipe past a packet that should have
\* been written.
LEMMA NothingWritten ==
  ASSUME TypeOK, RecordInv, UNCHANGED <<stream, encoder, log>>,
         late' \subseteq late, late' \subseteq At("encode")',
         \A p \in Pipes :
           \/ Numbers(p) = {}
           \/ /\ Full(p)' => Full(p)
              /\ \/ Done(p)' = Done(p)
                 \/ /\ Done(p)' = Done(p) + 1
                    /\ Done(p)' \notin Handed(p) \/ ~Full(p)',
         \A p \in Pipes : pipe'[p].pc = "encode" => encoder
  PROVE  RecordInv'
<1>1. \A p \in Pipes : Numbers(p)' = Numbers(p) /\ Handed(p)' = Handed(p)
  BY DEF Numbers, Handed
<1>2. ASSUME NEW p \in Pipes PROVE Done(p) \in Int /\ Numbers(p) \subseteq Int
  BY NumberTypes DEF Done, TypeOK
<1>3. ASSUME NEW p \in Pipes, NEW n \in Numbers(p) PROVE n <= Done(p)'
  <2>1. n <= Done(p)
    BY <1>3 DEF RecordInv
  <2>2. Done(p)' = Done(p) \/ Done(p)' = Done(p) + 1
    BY <1>3
  <2> QED BY <1>2, <1>3, <2>1, <2>2
<1>4. ASSUME ~Spoilt, NEW p \in Pipes PROVE Gapless(p)'
  <2> SUFFICES ASSUME NEW a \in Numbers(p), NEW k \in Handed(p), a < k,
                      k <= Done(p)',
                      Full(p)' \/ \E b \in Numbers(p) : k < b
               PROVE  k \in Numbers(p)
    BY <1>1 DEF Gapless
  <2>1. /\ k \in Int /\ Gapless(p)
        /\ Done(p)' = Done(p) \/ Done(p)' = Done(p) + 1
    BY <1>4, StreamTypes DEF RecordInv, Handed
  <2>2. CASE \E b \in Numbers(p) : k < b
    <3>1. PICK b \in Numbers(p) : k < b
      BY <2>2
    <3>2. b \in Int /\ b <= Done(p)
      BY <1>2 DEF RecordInv
    <3>3. k <= Done(p)
      BY <1>2, <2>1, <3>1, <3>2
    <3> QED BY <2>1, <2>2, <3>3 DEF Gapless
  <2>3. CASE Full(p)'
    <3>1. Full(p) /\ Done(p)' # Done(p) => Done(p)' \notin Handed(p)
      BY <2>3
    <3>2. Full(p)
      BY <2>3
    <3>3. k <= Done(p)
      BY <1>2, <2>1, <3>1, <3>2
    <3> QED BY <2>1, <3>2, <3>3 DEF Gapless
  <2> QED BY <2>2, <2>3
<1>5. Spoilt' = Spoilt /\ Ordered' = Ordered
  BY DEF Spoilt, Ordered
<1>6. late' \subseteq At("encode")' /\ \A p \in late' : Numbers(p)' = {}
  BY <1>1 DEF RecordInv, At
<1>7. /\ ~encoder' => log' = << >>
      /\ \A i \in 1..Len(log') : log'[i] # Torn => log'[i][1] \in Sessions
      /\ \A p \in Pipes : pipe'[p].pc = "encode" => encoder'
  BY DEF RecordInv
<1>8. \A p \in Pipes : \A n \in Numbers(p)' : n <= Done(p)'
  BY <1>1, <1>3
<1> QED BY <1>4, <1>5, <1>6, <1>7, <1>8 DEF RecordInv

\* A step that writes: a record, or some bytes of one.
LEMMA WriteStable ==
  ASSUME TypeOK, HoldsInv, RecordInv, NEW p \in Pipes,
         Writes(p) \/ (WriteFails(p) /\ log' = Append(log, Torn))
  PROVE  RecordInv'
<1> DEFINE n == nread[p]
           Record == (Sessions \cup {None}) \X Ends \X Nat
<1>1. /\ n \in Nat /\ p[1] \in Sessions /\ p[2] \in Ends
      /\ UNCHANGED <<stream, nread, encoder>>
      /\ log \in Seq(Record) /\ None \notin Sessions
      /\ \A q \in Pipes : Numbers(q) \subseteq Nat /\ Handed(q) \subseteq Int
  <2>1. \A q \in Pipes : Handed(q) \subseteq Int
    BY StreamTypes DEF Handed
  <2> QED
    BY <2>1, PipeEnds, NumberTypes, CommandsAssumption
       DEF TypeOK, Writes, WriteFails, initVars
<1>2. /\ pipe[p].pc = "encode" /\ pipe'[p].pc \in {"rest", "read"}
      /\ \A q \in Pipes \ {p} : pipe'[q] = pipe[q]
      /\ late' = late \ {p}
  BY DEF Writes, WriteFails, Goes, GoesWith, TypeOK
<1>3. /\ Done(p) = n - 1 /\ Done(p)' = n
      /\ \A q \in Pipes \ {p} : Done(q)' = Done(q)
  BY <1>1, <1>2 DEF Done
<1>4. PICK x \in {<<p[1], p[2], n>>, Torn} :
        log' = Append(log, x) /\ (x # Torn => Writes(p) /\ p \notin late)
  BY DEF Writes, Records
<1>5. x \in Record
  BY <1>1, <1>4 DEF Torn, Ends
<1>6. /\ Len(log) \in Nat /\ Len(log') = Len(log) + 1 /\ log'[Len(log) + 1] = x
      /\ \A i \in 1..Len(log) : log'[i] = log[i]
      /\ \A i \in 1..Len(log') : i \in 1..Len(log) \/ i = Len(log) + 1
  BY <1>1, <1>4, <1>5
<1>7. ASSUME NEW q \in Pipes
      PROVE  Numbers(q)' = Numbers(q) \cup (IF x # Torn /\ q = p THEN {n} ELSE {})
  <2>1. Numbers(q)' =
          Numbers(q) \cup (IF x[1] = q[1] /\ x[2] = q[2] THEN {x[3]} ELSE {})
    BY <1>1, <1>4, <1>5, NumbersAppend
  <2>2. q[1] \in Sessions /\ q = <<q[1], q[2]>> /\ p = <<p[1], p[2]>>
    BY PipeEnds
  <2>3. CASE x = Torn
    <3>1. x[1] = None
      BY <2>3 DEF Torn
    <3> QED BY <1>1, <2>1, <2>2, <2>3, <3>1
  <2>4. CASE x # Torn
    <3>1. x[1] = p[1] /\ x[2] = p[2] /\ x[3] = n
      BY <1>4, <2>4
    <3>2. (x[1] = q[1] /\ x[2] = q[2]) <=> q = p
      BY <2>2, <3>1
    <3> QED BY <2>1, <2>4, <3>1, <3>2
  <2> QED BY <2>3, <2>4
<1>8. \A i \in 1..Len(log') : log'[i] # Torn => log'[i][1] \in Sessions
  <2>1. x # Torn => x[1] \in Sessions
    BY <1>1, <1>4
  <2> QED BY <1>6, <2>1 DEF RecordInv
<1>9. \A q \in Pipes : \A m \in Numbers(q)' : m <= Done(q)'
  <2>1. \A q \in Pipes : \A m \in Numbers(q) : m \in Nat /\ m <= Done(q)
    BY <1>1 DEF RecordInv
  <2> HIDE DEF n
  <2> QED BY <1>1, <1>3, <1>7, <2>1
<1>10. Ordered'
  <2> SUFFICES ASSUME NEW i \in 1..Len(log'), NEW j \in 1..Len(log'), i < j,
                      log'[i] # Torn, log'[i][1] = log'[j][1],
                      log'[i][2] = log'[j][2]
               PROVE  log'[i][3] < log'[j][3]
    BY DEF Ordered
  <2>1. i \in 1..Len(log) /\ log'[i] = log[i]
    BY <1>6
  <2>2. CASE j \in 1..Len(log)
    BY <1>6, <2>1, <2>2 DEF RecordInv, Ordered
  <2>3. CASE j = Len(log) + 1
    <3>1. log[i][1] = x[1] /\ log[i][2] = x[2] /\ log[i][1] \in Sessions
      BY <1>6, <2>1, <2>3 DEF RecordInv
    <3>2. x # Torn
      BY <1>1, <3>1 DEF Torn
    <3>3. x[1] = p[1] /\ x[2] = p[2] /\ x[3] = n
      BY <1>4, <3>2
    <3>4. log[i][3] \in Numbers(p)
      BY <2>1, <3>1, <3>3 DEF Numbers
    <3>5. log[i][3] \in Nat /\ log[i][3] <= n - 1
      BY <1>1, <1>3, <3>4 DEF RecordInv
    <3> QED BY <1>1, <1>6, <2>1, <2>3, <3>3, <3>5
  <2> QED BY <1>6, <2>2, <2>3
<1>11. \A q \in Pipes : Handed(q)' = Handed(q)
  BY <1>1 DEF Handed
<1>12. ASSUME ~Spoilt', NEW q \in Pipes PROVE Gapless(q)'
  <2>1. x # Torn /\ ~Spoilt /\ broken' = broken /\ Gapless(q)
    <3>1. x # Torn /\ ~Spoilt
      BY <1>6, <1>12 DEF Spoilt
    <3> QED BY <1>4, <3>1 DEF Writes, RecordInv
  <2> SUFFICES ASSUME NEW a \in Numbers(q)', NEW k \in Handed(q), a < k,
                      k <= Done(q)',
                      Full(q)' \/ \E b \in Numbers(q)' : k < b
               PROVE  k \in Numbers(q)'
    BY <1>11 DEF Gapless
  <2>2. k \in Int
    BY <1>1
  <2>3. CASE q # p
    <3>1. Numbers(q)' = Numbers(q) /\ Done(q)' = Done(q) /\ Full(q)' = Full(q)
      BY <1>2, <1>3, <1>7, <2>1, <2>3 DEF Full
    <3> QED BY <2>1, <3>1 DEF Gapless
  <2>4. CASE q = p
    <3>1. /\ Numbers(q)' = Numbers(q) \cup {n} /\ Done(q)' = n /\ Done(q) = n - 1
          /\ Full(q)
      BY <1>2, <1>3, <1>7, <2>1, <2>4 DEF Full
    <3>2. CASE k = n
      BY <3>1, <3>2
    <3>3. CASE k # n
      <4>1. k <= Done(q) /\ a # n
        BY <1>1, <2>2, <3>1, <3>3
      <4> QED BY <2>1, <3>1, <4>1 DEF Gapless
    <3> QED BY <3>2, <3>3
  <2> QED BY <2>3, <2>4
<1>13. encoder
  BY <1>2 DEF RecordInv
<1>14. late' \subseteq At("encode")' /\ \A q \in late' : Numbers(q)' = {}
  <2> SUFFICES ASSUME NEW q \in late' PROVE q \in At("encode")' /\ Numbers(q)' = {}
    OBVIOUS
  <2>1. q \in late /\ q # p /\ q \in At("encode") /\ q \in Pipes /\ Numbers(q) = {}
    BY <1>2 DEF RecordInv, At
  <2> QED BY <1>2, <1>7, <2>1 DEF At
<1>15. \A q \in Pipes : pipe'[q].pc = "encode" => encoder'
  BY <1>1, <1>13
<1> QED
  BY <1>1, <1>8, <1>9, <1>10, <1>12, <1>13, <1>14, <1>15 DEF RecordInv

LEMMA RecordStable ==
  ASSUME TypeOK, HoldsInv, RecordInv, [Next]_vars
  PROVE  RecordInv'
<1>1. ASSUME UNCHANGED <<stream, pipe, nread, recordVars>> PROVE RecordInv'
  <2>1. UNCHANGED <<stream, encoder, broken, log, late, pipe, nread>>
    BY <1>1 DEF recordVars
  <2>2. \A p \in Pipes : Done(p)' = Done(p) /\ Full(p)' = Full(p)
    BY <2>1 DEF Done, Full
  <2>3. late' \subseteq At("encode")'
    BY <2>1 DEF RecordInv, At
  <2>4. \A p \in Pipes : pipe'[p].pc = "encode" => encoder
    BY <2>1 DEF RecordInv
  <2> QED BY <2>1, <2>2, <2>3, <2>4, NothingWritten
<1>2. ASSUME NEW s \in Sessions, InitMod(s) PROVE RecordInv'
  <2>1. CASE UNCHANGED recordVars
    BY <1>1, <1>2, <2>1 DEF InitMod
  <2>2. CASE encoder' = TRUE /\ log' = << >> /\ late' = At("encode")
    <3>1. Ordered' /\ \A p \in Pipes : Numbers(p)' = {}
      BY <2>2 DEF Ordered, Numbers
    <3>2. \A i \in 1..Len(log') : FALSE
      BY <2>2
    <3>3. late' \subseteq At("encode")' /\ late' \subseteq Pipes
      BY <1>2, <2>2 DEF InitMod, At
    <3>4. \A p \in Pipes : Gapless(p)'
      BY <3>1 DEF Gapless
    <3> QED BY <2>2, <3>1, <3>2, <3>3, <3>4 DEF RecordInv
  <2> QED BY <1>2, <2>1, <2>2 DEF InitMod, CreateFile
<1>3. ASSUME NEW p \in Pipes, PipeStep(p), ~Writes(p), ~WriteFails(p)
      PROVE  RecordInv'
  <2>1. /\ UNCHANGED <<stream, encoder, broken, log, late>> /\ nread[p] \in Nat
        /\ \A q \in Pipes \ {p} : pipe'[q] = pipe[q] /\ nread'[q] = nread[q]
    BY <1>3, StepFrame DEF TypeOK
  <2> DEFINE Past == \/ Done(p)' = Done(p)
                     \/ /\ Done(p)' = Done(p) + 1
                        /\ Done(p)' \notin Handed(p) \/ ~Full(p)'
  <2>2. /\ pipe[p].pc # "encode"
        /\ pipe'[p].pc = "encode" => encoder /\ ~broken
        /\ log = << >> \/ Past
    <3> USE DEF Goes, GoesWith
    <3>1. CASE Read(p)
      <4>1. /\ pipe[p].pc = "read" /\ nread'[p] = nread[p] + 1
            /\ pipe'[p].pc \in {"router", "recorder"}
        BY <3>1 DEF Read, TypeOK
      <4>2. Done(p)' = Done(p)
        BY <2>1, <4>1 DEF Done
      <4> QED BY <4>1, <4>2
    <3>2. CASE pipe[p].pc = "router" /\ Passes(p)
      <4>1. pipe'[p].pc = "recorder" /\ nread' = nread
        BY <3>2 DEF Passes, TypeOK
      <4>2. Done(p)' = Done(p)
        BY <3>2, <4>1 DEF Done
      <4> QED BY <3>2, <4>1, <4>2
    <3>3. CASE ToggleLoads(p)
      <4>1. pipe[p].pc = "router" /\ pipe'[p].pc = "store" /\ nread' = nread
        BY <3>3 DEF ToggleLoads, TypeOK
      <4>2. Done(p)' = Done(p)
        BY <4>1 DEF Done
      <4> QED BY <4>1, <4>2
    <3>4. CASE (pipe[p].pc = "router" /\ (Reports(p) \/ Sets(p))) \/ ToggleTells(p)
      <4>1. /\ pipe[p].pc \in {"router", "tell"} /\ pipe'[p].pc = "read"
            /\ nread' = nread
        BY <3>4 DEF Reports, Sets, ToggleTells, TypeOK
      <4>2. Packet(p) \in RouterKinds /\ p[2] = "client"
        <5>1. CASE ToggleTells(p)
          BY <5>1 DEF ToggleTells, HoldsInv, Holds, RouterKinds
        <5>2. CASE pipe[p].pc = "router" /\ Sets(p)
          BY <5>2 DEF Sets, HoldsInv, Holds, RouterKinds
        <5>3. CASE pipe[p].pc = "router" /\ Reports(p)
          <6>1. Packet(p) \in {"mods", "info", "unknown"}
            BY <5>3 DEF Reports
          <6> QED BY <5>3, <6>1 DEF HoldsInv, Holds, RouterKinds
        <5> QED BY <3>4, <5>1, <5>2, <5>3
      <4>3. nread[p] \notin Handed(p)
        BY <4>2 DEF Handed, Packet
      <4>4. Done(p)' = nread[p] /\ Done(p) = nread[p] - 1
        BY <4>1 DEF Done
      <4>5. Past
        BY <2>1, <4>3, <4>4
      <4> QED BY <4>1, <4>5
    <3>5. CASE ToggleStores(p)
      <4>1. /\ pipe[p].pc = "store" /\ pipe'[p].pc = "tell" /\ nread' = nread
        BY <3>5 DEF ToggleStores, TypeOK
      <4>2. Done(p)' = Done(p)
        BY <4>1 DEF Done
      <4> QED BY <4>1, <4>2
    <3>6. CASE Unrecorded(p)
      <4>1. /\ pipe[p].pc = "recorder" /\ pipe'[p].pc \in {"rest", "read"}
            /\ nread' = nread
        BY <3>6 DEF Unrecorded, TypeOK
      <4>2. Done(p)' = nread[p] /\ Done(p) = nread[p] - 1
        BY <4>1 DEF Done
      <4>3. CASE ~encoder
        BY <4>1, <4>3 DEF RecordInv
      <4>4. CASE broken
        <5>1. ~Full(p)'
          BY <2>1, <4>1, <4>4 DEF Full
        <5>2. Past
          BY <2>1, <4>2, <5>1
        <5> QED BY <4>1, <5>2
      <4>5. CASE Packet(p) = "nan"
        <5>1. nread[p] \notin Handed(p)
          BY <4>5 DEF Handed, Packet
        <5>2. Past
          BY <2>1, <4>2, <5>1
        <5> QED BY <4>1, <5>2
      <4> QED BY <3>6, <4>3, <4>4, <4>5 DEF Unrecorded
    <3>7. CASE Fills(p)
      <4>1. /\ pipe[p].pc = "recorder" /\ pipe'[p].pc = "encode"
            /\ nread' = nread /\ encoder /\ ~broken
        BY <3>7 DEF Fills, TypeOK
      <4>2. Done(p)' = Done(p)
        BY <4>1 DEF Done
      <4> QED BY <4>1, <4>2
    <3>8. CASE pipe[p].pc = "rest" /\ Rest(p)
      <4>1. pipe'[p].pc = "read" /\ nread' = nread
        BY <3>8 DEF Rest, TypeOK
      <4>2. Done(p)' = Done(p)
        BY <3>8, <4>1 DEF Done
      <4> QED BY <3>8, <4>1, <4>2
    <3> HIDE DEF Past
    <3> QED
      BY <1>3, <3>1, <3>2, <3>3, <3>4, <3>5, <3>6, <3>7, <3>8 DEF PipeStep, Router
  <2>3. \A q \in Pipes \ {p} : Done(q)' = Done(q) /\ Full(q)' = Full(q)
    BY <2>1 DEF Done, Full
  <2>4. \A q \in Pipes : pipe'[q].pc = "encode" => encoder
    BY <2>1, <2>2 DEF RecordInv
  <2>5. late' \subseteq late /\ late' \subseteq At("encode")'
    BY <2>1, <2>2 DEF RecordInv, At
  <2>6. Full(p)' => Full(p)
    BY <2>1, <2>2 DEF Full
  <2>7. Numbers(p) = {} \/ ((Full(p)' => Full(p)) /\ Past)
    BY <2>2, <2>6, EmptyFile
  <2>8. \A q \in Pipes :
          \/ Numbers(q) = {}
          \/ /\ Full(q)' => Full(q)
             /\ \/ Done(q)' = Done(q)
                \/ /\ Done(q)' = Done(q) + 1
                   /\ Done(q)' \notin Handed(q) \/ ~Full(q)'
    BY <2>3, <2>7
  <2> QED BY <2>1, <2>4, <2>5, <2>8, NothingWritten
<1>4. ASSUME NEW p \in Pipes, WriteFails(p), log' = log PROVE RecordInv'
  <2>1. /\ UNCHANGED <<stream, encoder, nread>> /\ late' = late \ {p}
        /\ pipe[p].pc = "encode" /\ pipe'[p].pc \in {"rest", "read"}
        /\ \A q \in Pipes \ {p} : pipe'[q] = pipe[q]
        /\ nread[p] \in Nat
    BY <1>4 DEF WriteFails, Goes, GoesWith, TypeOK, initVars
  <2>2. broken => broken'
    BY <1>4 DEF WriteFails
  <2>3. \A q \in Pipes \ {p} : Done(q)' = Done(q) /\ (Full(q)' => Full(q))
    BY <2>1, <2>2 DEF Done, Full
  <2>4. Done(p)' = Done(p) + 1 /\ Full(p)
    BY <2>1 DEF Done, Full
  <2>5. Numbers(p) = {} \/ ~Full(p)'
    <3>1. CASE p \in late
      BY <3>1 DEF RecordInv
    <3>2. CASE p \notin late
      <4>1. broken'
        BY <1>4, <3>2 DEF WriteFails
      <4> QED BY <2>1, <4>1 DEF Full
    <3> QED BY <3>1, <3>2
  <2>6. late' \subseteq late /\ late' \subseteq At("encode")'
    BY <2>1 DEF RecordInv, At
  <2>7. \A q \in Pipes : pipe'[q].pc = "encode" => encoder
    BY <2>1 DEF RecordInv
  <2>8. \A q \in Pipes :
          \/ Numbers(q) = {}
          \/ /\ Full(q)' => Full(q)
             /\ \/ Done(q)' = Done(q)
                \/ /\ Done(q)' = Done(q) + 1
                   /\ Done(q)' \notin Handed(q) \/ ~Full(q)'
    BY <2>3, <2>4, <2>5
  <2> QED BY <1>4, <2>1, <2>6, <2>7, <2>8, NothingWritten
<1>5. ASSUME NEW p \in Pipes, Writes(p) \/ WriteFails(p) PROVE RecordInv'
  BY <1>4, <1>5, WriteStable DEF WriteFails
<1> QED
  BY <1>1, <1>2, <1>3, <1>5
     DEF Next, Begin, TakeOver, Leaves, initVars, vars

\* The recorder's file keeps the order of a pipe's packets and, unless records
\* were spoilt, leaves out none between two that the router let pass and that can
\* be encoded (packetrecorder.go:40-60), whatever writes fail.
THEOREM FileInOrder == Spec => []RecordedInOrder
<1>1. Init => RecordInv
  <2> SUFFICES ASSUME Init PROVE RecordInv
    OBVIOUS
  <2>1. log = << >> /\ \A p \in Pipes : pipe[p].pc = "read"
    BY DEF Init
  <2>2. \A i \in 1..Len(log) : FALSE
    BY <2>1
  <2>3. late = {}
    BY DEF Init
  <2> QED BY <2>1, <2>2, <2>3, EmptyFile DEF RecordInv, Gapless
<1>2. TypeOK /\ HoldsInv /\ RecordInv /\ [Next]_vars => RecordInv'
  BY RecordStable
<1>3. TypeOK /\ RecordInv => RecordedInOrder
  <2> SUFFICES ASSUME TypeOK, RecordInv PROVE RecordedInOrder
    OBVIOUS
  <2>1. Ordered
    BY DEF RecordInv
  <2>2. ASSUME ~Spoilt, NEW p \in Pipes, NEW a \in Numbers(p),
               NEW b \in Numbers(p), NEW k \in Handed(p), a < k, k < b
        PROVE  k \in Numbers(p)
    <3>1. b <= Done(p) /\ b \in Int
      BY <2>2, NumberTypes DEF RecordInv
    <3>2. k \in Int
      BY <2>2 DEF Handed
    <3>3. nread[p] \in Nat /\ Done(p) \in Int
      BY <2>2 DEF TypeOK, Done
    <3>4. k <= Done(p)
      BY <2>2, <3>1, <3>2, <3>3
    <3> QED BY <2>2, <3>4 DEF RecordInv, Gapless
  <2> QED BY <2>1, <2>2 DEF RecordedInOrder, Ordered
<1> QED BY <1>1, <1>2, <1>3, PipeInvariant, PTL DEF Spec
=============================================================================
