--------------------------- MODULE SessionsProofs ---------------------------
(***************************************************************************)
(* Proofs about Sessions, for every set of sessions and streams: the       *)
(* types, that a session returns with nothing left open, and that the      *)
(* sessions implement Relay's steps, and what that gives a stream.  The     *)
(* hang-up Relay also promises is a liveness property and is checked by    *)
(* TLC only.                                                               *)
(***************************************************************************)
EXTENDS Sessions, TLAPS

PipeRecords == [pc : PipePC, pk : Nat]

\* What a pipe holds: the packet it read last or, between two, none.
PipeHolds(s, e) ==
  /\ nread[s][e] <= Len(Stream[s][e])
  /\ pipe[s][e].pc \in {"off", "read"} => pipe[s][e].pk = 0
  /\ pipe[s][e].pc \in {"mods", "write"} =>
       pipe[s][e].pk = nread[s][e] /\ nread[s][e] > 0
  /\ pipe[s][e].pc \in {"failed", "done"} => pipe[s][e].pk \in {0, nread[s][e]}
  /\ pipe[s][e].pc = "write" => ~Stream[s][e][nread[s][e]]

PipeInv == \A s \in Sessions, e \in Ends : PipeHolds(s, e)

\* A step that leaves the pipes alone leaves their invariant alone.
LEMMA PipesAlone ==
  ASSUME PipeInv, UNCHANGED <<pipe, nread>>
  PROVE  PipeInv'
BY DEF PipeInv, PipeHolds

\* A step of one pipe: the others keep what they hold.
LEMMA OnePipe ==
  ASSUME TypeOK, PipeInv, NEW s \in Sessions, NEW e \in Ends, PipeHolds(s, e)',
         \A t \in Sessions, d \in Ends :
           t # s \/ d # e => /\ pipe'[t][d] = pipe[t][d]
                             /\ nread'[t][d] = nread[t][d]
  PROVE  PipeInv'
<1> SUFFICES ASSUME NEW t \in Sessions, NEW d \in Ends PROVE PipeHolds(t, d)'
  BY DEF PipeInv
<1>1. CASE t = s /\ d = e
  BY <1>1
<1>2. CASE t # s \/ d # e
  BY <1>2 DEF PipeInv, PipeHolds
<1> QED BY <1>1, <1>2

\* A pipe that goes somewhere leaves the other pipes where they are.
LEMMA GoesAlone ==
  ASSUME TypeOK, NEW s \in Sessions, NEW e \in Ends, NEW pc, NEW pk,
         Goes(s, e, pc, pk), NEW t \in Sessions, NEW d \in Ends,
         t # s \/ d # e
  PROVE  pipe'[t][d] = pipe[t][d]
BY DEF Goes, TypeOK

\* What the steps of pipe(s, e) do to the pipes.
LEMMA PipeSteps ==
  ASSUME TypeOK, PipeInv, NEW s \in Sessions, NEW e \in Ends,
         PipeReads(s, e) \/ PipeStep(s, e)
  PROVE  PipeInv'
<1>1. /\ pipe[s][e] \in PipeRecords /\ nread[s][e] \in Nat
      /\ PipeHolds(s, e)
  BY DEF TypeOK, PipeRecords, PipeInv
<1>2. ASSUME PipeReads(s, e) PROVE PipeInv'
  <2>1. /\ nread'[s][e] = nread[s][e] + 1
        /\ pipe'[s][e] = [pc |-> "mods", pk |-> nread[s][e] + 1]
        /\ nread[s][e] < Len(Stream[s][e])
    BY <1>2 DEF PipeReads, Goes, TypeOK
  <2>2. PipeHolds(s, e)'
    BY <1>1, <2>1 DEF PipeHolds
  <2>3. \A t \in Sessions, d \in Ends :
          t # s \/ d # e => /\ pipe'[t][d] = pipe[t][d]
                            /\ nread'[t][d] = nread[t][d]
    BY <1>2 DEF PipeReads, Goes, TypeOK
  <2> QED BY <2>2, <2>3, OnePipe
<1>3. ASSUME ModsHandle(s, e) PROVE PipeInv'
  <2>1. /\ nread' = nread /\ pipe[s][e].pc = "mods"
        /\ pipe'[s][e] = IF Command(s, e)
                         THEN [pc |-> "read", pk |-> 0]
                         ELSE [pc |-> "write", pk |-> pipe[s][e].pk]
    BY <1>3 DEF ModsHandle, DropOrWrite, Goes, TypeOK, At
  <2>2. PipeHolds(s, e)'
    BY <1>1, <2>1 DEF PipeHolds, Command
  <2>3. \A t \in Sessions, d \in Ends :
          t # s \/ d # e => /\ pipe'[t][d] = pipe[t][d]
                            /\ nread'[t][d] = nread[t][d]
    BY <1>3 DEF ModsHandle, DropOrWrite, Goes, TypeOK
  <2> QED BY <2>2, <2>3, OnePipe
<1>4. ASSUME PipeWrites(s, e) PROVE PipeInv'
  <2>1. nread' = nread /\ pipe'[s][e] = [pc |-> "read", pk |-> 0]
    BY <1>4 DEF PipeWrites, Goes, TypeOK
  <2>2. PipeHolds(s, e)'
    BY <1>1, <2>1 DEF PipeHolds
  <2>3. \A t \in Sessions, d \in Ends :
          t # s \/ d # e => /\ pipe'[t][d] = pipe[t][d]
                            /\ nread'[t][d] = nread[t][d]
    BY <1>4 DEF PipeWrites, Goes, TypeOK
  <2> QED BY <2>2, <2>3, OnePipe
<1>5. ASSUME PipeFails(s, e) PROVE PipeInv'
  <2>1. /\ nread' = nread /\ pipe[s][e].pc \in {"read", "write"}
        /\ pipe'[s][e] = [pc |-> "failed", pk |-> pipe[s][e].pk]
    BY <1>5 DEF PipeFails, Goes, TypeOK, At
  <2>2. PipeHolds(s, e)'
    BY <1>1, <2>1 DEF PipeHolds
  <2>3. \A t \in Sessions, d \in Ends :
          t # s \/ d # e => /\ pipe'[t][d] = pipe[t][d]
                            /\ nread'[t][d] = nread[t][d]
    BY <1>5 DEF PipeFails, Goes, TypeOK
  <2> QED BY <2>2, <2>3, OnePipe
<1>6. ASSUME PipeReturns(s, e) PROVE PipeInv'
  <2>1. /\ nread' = nread /\ pipe[s][e].pc = "failed"
        /\ pipe'[s][e] = [pc |-> "done", pk |-> pipe[s][e].pk]
    BY <1>6 DEF PipeReturns, Goes, TypeOK, At
  <2>2. PipeHolds(s, e)'
    BY <1>1, <2>1 DEF PipeHolds
  <2>3. \A t \in Sessions, d \in Ends :
          t # s \/ d # e => /\ pipe'[t][d] = pipe[t][d]
                            /\ nread'[t][d] = nread[t][d]
    BY <1>6 DEF PipeReturns, Goes, TypeOK
  <2> QED BY <2>2, <2>3, OnePipe
<1> QED BY <1>2, <1>3, <1>4, <1>5, <1>6 DEF PipeStep

LEMMA PipesStart ==
  ASSUME TypeOK, PipeInv, NEW s \in Sessions, StartPipes(s)
  PROVE  PipeInv'
<1>1. /\ nread' = nread
      /\ \A d \in Ends : pipe'[s][d] = [pc |-> "read", pk |-> 0]
      /\ \A t \in Sessions, d \in Ends : t # s => pipe'[t][d] = pipe[t][d]
  BY DEF StartPipes, TypeOK
<1> SUFFICES ASSUME NEW t \in Sessions, NEW d \in Ends PROVE PipeHolds(t, d)'
  BY DEF PipeInv
<1>2. PipeHolds(t, d)
  BY DEF PipeInv
<1>3. CASE t = s
  BY <1>1, <1>2, <1>3 DEF PipeHolds
<1>4. CASE t # s
  BY <1>1, <1>2, <1>4 DEF PipeHolds
<1> QED BY <1>3, <1>4

LEMMA PipeStable ==
  ASSUME TypeOK, PipeInv, [Next]_vars
  PROVE  PipeInv'
<1>2. ASSUME NEW s \in Sessions, Connect(s) PROVE PipeInv'
  BY <1>2, PipesAlone DEF Connect, pipeVars
<1>3. ASSUME NEW s \in Sessions, MainStep(s) PROVE PipeInv'
  <2>1. CASE StartPipes(s)
    BY <2>1, PipesStart
  <2>2. CASE ~StartPipes(s)
    <3>1. UNCHANGED <<pipe, nread>>
      BY <1>3, <2>2 DEF MainStep, DialOK, DialFails, StartGameOK,
         StartGameFails, FirstError, CloseClient, CloseServer,
         StopTick, pipeVars
    <3> QED BY <3>1, PipesAlone
  <2> QED BY <2>1, <2>2
<1>4. ASSUME NEW s \in Sessions, TickerEnds(s) PROVE PipeInv'
  BY <1>4, PipesAlone DEF TickerEnds, pipeVars
<1>5. ASSUME NEW s \in Sessions, NEW e \in Ends, Drops(s, e) PROVE PipeInv'
  BY <1>5, PipesAlone DEF Drops, pipeVars
<1>6. ASSUME UNCHANGED vars PROVE PipeInv'
  BY <1>6, PipesAlone DEF vars, pipeVars
<1> QED
  BY <1>2, <1>3, <1>4, <1>5, <1>6, PipeSteps DEF Next

-----------------------------------------------------------------------------
LEMMA TypeStable ==
  ASSUME TypeOK, PipeInv, [Next]_vars
  PROVE  TypeOK'
<1> USE SessionsAssumption
<1>2. ASSUME NEW s \in Sessions, Connect(s) PROVE TypeOK'
  BY <1>2 DEF Connect, Step, Connection, TypeOK, pipeVars,
              MainPC, ConnState, Ends
<1>3. ASSUME NEW s \in Sessions, DialOK(s) PROVE TypeOK'
  BY <1>3 DEF DialOK, Step, Connection, TypeOK, pipeVars, MainPC,
              ConnState, Ends
<1>4. ASSUME NEW s \in Sessions, DialFails(s) PROVE TypeOK'
  BY <1>4 DEF DialFails, Step, Connection, TypeOK, pipeVars, MainPC,
              ConnState, Ends
<1>5. ASSUME NEW s \in Sessions, StartGameOK(s) PROVE TypeOK'
  <2>1. main' \in [Sessions -> MainPC]
    BY <1>5 DEF StartGameOK, Step, TypeOK, MainPC
  <2> QED BY <1>5, <2>1 DEF StartGameOK, TypeOK, pipeVars
<1>6. ASSUME NEW s \in Sessions, StartGameFails(s) PROVE TypeOK'
  BY <1>6 DEF StartGameFails, Step, TypeOK, pipeVars, MainPC
<1>8. ASSUME NEW s \in Sessions, StartPipes(s) PROVE TypeOK'
  <2>1. [e \in Ends |-> [pc |-> "read", pk |-> 0]] \in [Ends -> PipeRecords]
    BY DEF PipeRecords, PipePC
  <2>2. pipe' \in [Sessions -> [Ends -> PipeRecords]]
    BY <1>8, <2>1 DEF StartPipes, TypeOK, PipeRecords
  <2>3. /\ main' \in [Sessions -> MainPC]
        /\ ticker' \in [Sessions -> {"off", "run", "done"}]
    BY <1>8 DEF StartPipes, Step, TypeOK, MainPC
  <2> QED
    BY <1>8, <2>2, <2>3 DEF StartPipes, TypeOK, PipeRecords
<1>9. ASSUME NEW s \in Sessions, FirstError(s) PROVE TypeOK'
  <2>1. errs' \in [Sessions -> 0..2]
    BY <1>9 DEF FirstError, TypeOK
  <2> QED
    BY <1>9, <2>1 DEF FirstError, Step, TypeOK, pipeVars, MainPC
<1>10. ASSUME NEW s \in Sessions, CloseClient(s) PROVE TypeOK'
  BY <1>10 DEF CloseClient, Step, Connection, TypeOK, pipeVars,
               MainPC, ConnState, Ends
<1>11. ASSUME NEW s \in Sessions, CloseServer(s) PROVE TypeOK'
  BY <1>11 DEF CloseServer, Step, Connection, TypeOK, pipeVars,
               MainPC, ConnState, Ends
<1>12. ASSUME NEW s \in Sessions, StopTick(s) PROVE TypeOK'
  BY <1>12 DEF StopTick, Step, TypeOK, pipeVars, MainPC
<1>13. ASSUME NEW s \in Sessions, TickerEnds(s) PROVE TypeOK'
  BY <1>13 DEF TickerEnds, TypeOK, pipeVars
<1>14. ASSUME NEW s \in Sessions, NEW e \in Ends, PipeReads(s, e)
       PROVE  TypeOK'
  <2>1. nread' \in [Sessions -> [Ends -> Nat]]
    BY <1>14 DEF PipeReads, TypeOK
  <2>2. pipe' \in [Sessions -> [Ends -> [pc : PipePC, pk : Nat]]]
    BY <1>14 DEF PipeReads, Goes, TypeOK, PipePC
  <2> QED
    BY <1>14, <2>1, <2>2 DEF PipeReads, TypeOK
<1>15. ASSUME NEW s \in Sessions, NEW e \in Ends, ModsHandle(s, e)
       PROVE  TypeOK'
  <2>1. pipe[s][e] \in [pc : PipePC, pk : Nat]
    BY DEF TypeOK
  <2>2. pipe' \in [Sessions -> [Ends -> [pc : PipePC, pk : Nat]]]
    <3>1. CASE Goes(s, e, "write", pipe[s][e].pk)
      BY <2>1, <3>1 DEF Goes, TypeOK, PipePC
    <3>2. CASE Goes(s, e, "read", 0)
      BY <3>2 DEF Goes, TypeOK, PipePC
    <3> QED BY <1>15, <3>1, <3>2 DEF ModsHandle, DropOrWrite
  <2> QED BY <1>15, <2>2 DEF ModsHandle, TypeOK
<1>16. ASSUME NEW s \in Sessions, NEW e \in Ends, PipeWrites(s, e)
       PROVE  TypeOK'
  <2>1. pipe[s][e].pk \in Nat \ {0}
    BY <1>16 DEF TypeOK, PipeInv, PipeHolds, PipeWrites, At
  <2>2. passed' \in [Sessions -> [Ends -> Seq(Nat \ {0})]]
    <3>1. passed[s][e] \in Seq(Nat \ {0})
      BY DEF TypeOK
    <3>2. Append(passed[s][e], pipe[s][e].pk) \in Seq(Nat \ {0})
      BY <2>1, <3>1
    <3> QED BY <1>16, <3>2 DEF PipeWrites, TypeOK
  <2>3. pipe' \in [Sessions -> [Ends -> [pc : PipePC, pk : Nat]]]
    BY <1>16 DEF PipeWrites, Goes, TypeOK, PipePC
  <2> QED
    BY <1>16, <2>2, <2>3 DEF PipeWrites, TypeOK
<1>17. ASSUME NEW s \in Sessions, NEW e \in Ends, PipeFails(s, e)
       PROVE  TypeOK'
  <2>1. pipe[s][e].pk \in Nat
    BY DEF TypeOK
  <2>2. pipe' \in [Sessions -> [Ends -> [pc : PipePC, pk : Nat]]]
    BY <1>17, <2>1 DEF PipeFails, Goes, TypeOK, PipePC
  <2> QED
    BY <1>17, <2>2 DEF PipeFails, TypeOK
<1>18. ASSUME NEW s \in Sessions, NEW e \in Ends, PipeReturns(s, e)
       PROVE  TypeOK'
  <2>1. pipe[s][e].pk \in Nat
    BY DEF TypeOK
  <2>2. pipe' \in [Sessions -> [Ends -> [pc : PipePC, pk : Nat]]]
    BY <1>18, <2>1 DEF PipeReturns, Goes, TypeOK, PipePC
  <2>3. errs' \in [Sessions -> 0..2]
    <3>1. errs[s] \in 0..2 /\ errs[s] < 2
      BY <1>18 DEF PipeReturns, ErrcHasRoom, TypeOK
    <3>2. errs[s] + 1 \in 0..2
      BY <3>1
    <3> QED BY <1>18, <3>2 DEF PipeReturns, TypeOK
  <2> QED
    BY <1>18, <2>2, <2>3 DEF PipeReturns, TypeOK
<1>19. ASSUME NEW s \in Sessions, NEW e \in Ends, Drops(s, e)
       PROVE  TypeOK'
  BY <1>19 DEF Drops, Connection, TypeOK, pipeVars,
               ConnState
<1>20. ASSUME UNCHANGED vars PROVE TypeOK'
  BY <1>20 DEF vars, pipeVars, TypeOK
<1> QED
  BY <1>2, <1>3, <1>4, <1>5, <1>6, <1>8, <1>9, <1>10, <1>11,
     <1>12, <1>13, <1>14, <1>15, <1>16, <1>17, <1>18, <1>19, <1>20
     DEF Next, MainStep, PipeStep

\* Every variable keeps its type, and a pipe what it holds.
THEOREM PipeInvariant == Spec => [](TypeOK /\ PipeInv)
<1>1. Init => TypeOK /\ PipeInv
  <2> SUFFICES ASSUME Init PROVE TypeOK /\ PipeInv
    OBVIOUS
  <2>1. TypeOK
    BY SessionsAssumption
       DEF Init, TypeOK, MainPC, PipePC, ConnState, Ends
  <2>2. ASSUME NEW s \in Sessions, NEW e \in Ends PROVE PipeHolds(s, e)
    <3>1. Len(Stream[s][e]) \in Nat
      BY SessionsAssumption
    <3> QED BY <3>1 DEF Init, PipeHolds
  <2> QED BY <2>1, <2>2 DEF PipeInv
<1>2. TypeOK /\ PipeInv /\ [Next]_vars => (TypeOK /\ PipeInv)'
  BY TypeStable, PipeStable
<1> QED BY <1>1, <1>2, PTL DEF Spec

\* Every variable keeps its type, for any sessions and streams.
THEOREM TypeCorrect == Spec => []TypeOK
BY PipeInvariant, PTL

-----------------------------------------------------------------------------
\* How far a session is tells which of its connections exist or are closed.
ConnOK(s) ==
  /\ main[s] = "new" => conn[s]["client"] = "none"
  /\ main[s] \in {"new", "dial"} => conn[s]["server"] = "none"
  /\ main[s] # "new" => conn[s]["client"] # "none"
  /\ main[s] \notin {"new", "dial", "done"} => conn[s]["server"] # "none"
  /\ main[s] \in {"closeServer", "stopTick", "done"} =>
       conn[s]["client"] = "closed"
  /\ main[s] \in {"stopTick", "done"} => conn[s]["server"] # "open"

ConnInv == \A s \in Sessions : ConnOK(s)

LEMMA OneSession ==
  ASSUME ConnInv, NEW s \in Sessions, ConnOK(s)',
         \A t \in Sessions : t # s => main'[t] = main[t] /\ conn'[t] = conn[t]
  PROVE  ConnInv'
<1> SUFFICES ASSUME NEW t \in Sessions, t # s PROVE ConnOK(t)'
  BY DEF ConnInv
<1> QED BY DEF ConnInv, ConnOK

LEMMA ConnStable ==
  ASSUME TypeOK, ConnInv, [Next]_vars
  PROVE  ConnInv'
<1>1. ASSUME UNCHANGED <<main, conn>> PROVE ConnInv'
  BY <1>1 DEF ConnInv, ConnOK
<1>2. ASSUME NEW s \in Sessions, Connect(s) \/ MainStep(s) PROVE ConnInv'
  <2>1. \A t \in Sessions :
          t # s => main'[t] = main[t] /\ conn'[t] = conn[t]
    <3>1. \A t \in Sessions : t # s => main'[t] = main[t]
      BY <1>2 DEF Connect, MainStep, DialOK, DialFails, StartGameOK,
         StartGameFails, StartPipes, FirstError, CloseClient,
         CloseServer, StopTick, Step, TypeOK
    <3>2. \A t \in Sessions : t # s => conn'[t] = conn[t]
      BY <1>2 DEF Connect, MainStep, DialOK, DialFails, StartGameOK,
         StartGameFails, StartPipes, FirstError, CloseClient,
         CloseServer, StopTick, Connection, TypeOK
    <3> QED BY <3>1, <3>2
  <2>2. ConnOK(s)'
    <3>1. ConnOK(s) /\ conn[s] \in [Ends -> ConnState] /\ main[s] \in MainPC
      BY DEF ConnInv, TypeOK
    <3>2. CASE Connect(s)
      BY <3>1, <3>2 DEF Connect, Step, Connection, ConnOK, TypeOK, Ends
    <3>3. CASE DialOK(s)
      BY <3>1, <3>3 DEF DialOK, Step, Connection, ConnOK, TypeOK, Ends
    <3>4. CASE DialFails(s)
      BY <3>1, <3>4 DEF DialFails, Step, Connection, ConnOK, TypeOK, Ends
    <3>5. CASE StartGameOK(s)
      BY <3>1, <3>5 DEF StartGameOK, Step, ConnOK, TypeOK
    <3>6. CASE StartGameFails(s)
      BY <3>1, <3>6 DEF StartGameFails, Step, ConnOK, TypeOK
    <3>8. CASE StartPipes(s)
      BY <3>1, <3>8 DEF StartPipes, Step, ConnOK, TypeOK
    <3>9. CASE FirstError(s)
      BY <3>1, <3>9 DEF FirstError, Step, ConnOK, TypeOK
    <3>10. CASE CloseClient(s)
      BY <3>1, <3>10 DEF CloseClient, Step, Connection, ConnOK, TypeOK, Ends
    <3>11. CASE CloseServer(s)
      BY <3>1, <3>11 DEF CloseServer, Step, Connection, ConnOK, TypeOK, Ends
    <3>12. CASE StopTick(s)
      BY <3>1, <3>12 DEF StopTick, Step, ConnOK, TypeOK
    <3> QED
      BY <1>2, <3>2, <3>3, <3>4, <3>5, <3>6, <3>8, <3>9, <3>10, <3>11,
         <3>12 DEF MainStep
  <2> QED BY <2>1, <2>2, OneSession
<1>3. ASSUME NEW s \in Sessions, NEW e \in Ends, Drops(s, e) PROVE ConnInv'
  <2>1. /\ \A t \in Sessions : t # s => conn'[t] = conn[t]
        /\ main' = main
    BY <1>3 DEF Drops, Connection, TypeOK
  <2>2. ConnOK(s)'
    <3>1. ConnOK(s) /\ conn[s] \in [Ends -> ConnState]
      BY DEF ConnInv, TypeOK
    <3>2. conn[s][e] = "open" /\ conn'[s] = [conn[s] EXCEPT ![e] = "closed"]
      BY <1>3 DEF Drops, Connection, TypeOK
    <3> QED BY <2>1, <3>1, <3>2 DEF ConnOK, Ends
  <2> QED BY <2>1, <2>2, OneSession
<1>4. ASSUME NEW s \in Sessions, NEW e \in Ends,
             PipeReads(s, e) \/ PipeStep(s, e)
      PROVE  ConnInv'
  <2>1. UNCHANGED <<main, conn>>
    BY <1>4 DEF PipeReads, PipeStep, ModsHandle, PipeWrites, PipeFails,
                PipeReturns
  <2> QED BY <2>1, <1>1
<1> QED
  BY <1>1, <1>2, <1>3, <1>4
     DEF Next, TickerEnds, vars

\* Whichever way runSession returns, it leaves neither connection open
\* (proxy.go:50-58, :76-77).
THEOREM ReturnsClosed == Spec => []NothingLeftOpen
<1>1. Init => ConnInv
  <2> SUFFICES ASSUME Init, NEW s \in Sessions PROVE ConnOK(s)
    BY DEF ConnInv
  <2>1. /\ main[s] = "new"
        /\ conn[s]["client"] = "none" /\ conn[s]["server"] = "none"
    BY DEF Init, Ends
  <2> QED BY <2>1 DEF ConnOK
<1>2. TypeOK /\ ConnInv /\ [Next]_vars => ConnInv'
  BY ConnStable
<1>3. ConnInv => NothingLeftOpen
  BY DEF ConnInv, ConnOK, NothingLeftOpen, Ends
<1> QED BY <1>1, <1>2, <1>3, TypeCorrect, PTL DEF Spec

-----------------------------------------------------------------------------
\* Before its pipes are started a session has none.
Early == {"new", "dial", "startgame", "init"}
OffInv == \A s \in Sessions, e \in Ends :
            main[s] \in Early => pipe[s][e].pc = "off"

LEMMA OffStable ==
  ASSUME TypeOK, OffInv, [Next]_vars
  PROVE  OffInv'
<1>1. ASSUME NEW s \in Sessions, Connect(s) \/ MainStep(s), ~StartPipes(s)
      PROVE  OffInv'
  <2>1. /\ pipe' = pipe
        /\ main'[s] \in Early => main[s] \in Early
        /\ \A t \in Sessions : t # s => main'[t] = main[t]
    BY <1>1 DEF Connect, MainStep, DialOK, DialFails, StartGameOK,
       StartGameFails, FirstError, CloseClient, CloseServer, StopTick, Step,
       pipeVars, TypeOK, Early
  <2> QED BY <2>1 DEF OffInv
<1>2. ASSUME NEW s \in Sessions, StartPipes(s) PROVE OffInv'
  <2>1. /\ main'[s] = "session"
        /\ \A t \in Sessions : t # s => main'[t] = main[t] /\ pipe'[t] = pipe[t]
    BY <1>2 DEF StartPipes, Step, TypeOK
  <2> QED BY <2>1 DEF OffInv, Early
<1>3. ASSUME NEW s \in Sessions, NEW e \in Ends,
             PipeReads(s, e) \/ PipeStep(s, e)
      PROVE  OffInv'
  <2>1. main' = main /\ pipe[s][e].pc # "off"
    BY <1>3 DEF PipeReads, PipeStep, ModsHandle, PipeWrites, PipeFails,
                PipeReturns, At
  <2>2. \A t \in Sessions, d \in Ends :
          t # s \/ d # e => pipe'[t][d] = pipe[t][d]
    BY <1>3, GoesAlone DEF PipeReads, PipeStep, ModsHandle, DropOrWrite,
                           PipeWrites, PipeFails, PipeReturns
  <2> QED BY <2>1, <2>2 DEF OffInv
<1>4. ASSUME UNCHANGED <<main, pipe>> PROVE OffInv'
  BY <1>4 DEF OffInv
<1> QED
  BY <1>1, <1>2, <1>3, <1>4 DEF Next, TickerEnds, Drops, pipeVars, vars

\* What has arrived of a stream: all that is kept of what its pipe has read,
\* but for a packet it still holds.
StreamOK(s, e) ==
  R!Arrived(s, e) =
    {q \in Kept[s][e] : q <= nread[s][e] /\ q # pipe[s][e].pk}

StreamInv == \A s \in Sessions, e \in Ends : StreamOK(s, e)

\* The packets kept of a stream are positions in it that no mod takes.
LEMMA KeptPositions ==
  ASSUME NEW s \in Sessions, NEW e \in Ends
  PROVE  /\ Kept[s][e] = {i \in Positions(s, e) : ~Stream[s][e][i]}
         /\ Kept[s][e] \subseteq Nat \ {0}
<1>1. Kept[s][e] = {i \in Positions(s, e) : ~Stream[s][e][i]}
  BY DEF Kept
<1>2. Len(Stream[s][e]) \in Nat
  BY SessionsAssumption
<1> QED BY <1>1, <1>2 DEF Positions

\* Another packet passed adds itself to those that have arrived.
LEMMA ArrivedAppend ==
  ASSUME NEW q \in Seq(Nat \ {0}), NEW x \in Nat \ {0}
  PROVE  {Append(q, x)[i] : i \in 1..Len(Append(q, x))}
           = {q[i] : i \in 1..Len(q)} \cup {x}
<1> DEFINE a == Append(q, x)
<1>1. /\ Len(q) \in Nat /\ Len(a) = Len(q) + 1 /\ a[Len(q) + 1] = x
      /\ \A i \in 1..Len(q) : a[i] = q[i]
  OBVIOUS
<1>2. \A i \in 1..Len(a) : i \in 1..Len(q) \/ i = Len(q) + 1
  BY <1>1
<1>3. \A i \in 1..Len(q) : i \in 1..Len(a)
  BY <1>1
<1>4. Len(q) + 1 \in 1..Len(a)
  BY <1>1
<1> HIDE DEF a
<1>5. {a[i] : i \in 1..Len(a)} = {q[i] : i \in 1..Len(q)} \cup {x}
  BY <1>1, <1>2, <1>3, <1>4
<1> QED BY <1>5 DEF a

\* A step of one pipe leaves the other streams as they are.
LEMMA OneStreamStep ==
  ASSUME StreamInv, NEW s \in Sessions, NEW e \in Ends, StreamOK(s, e)',
         \A t \in Sessions, d \in Ends :
           t # s \/ d # e => /\ pipe'[t][d] = pipe[t][d]
                             /\ nread'[t][d] = nread[t][d]
                             /\ passed'[t][d] = passed[t][d]
  PROVE  StreamInv'
<1> SUFFICES ASSUME NEW t \in Sessions, NEW d \in Ends PROVE StreamOK(t, d)'
  BY DEF StreamInv
<1>1. CASE t = s /\ d = e
  BY <1>1
<1>2. CASE t # s \/ d # e
  <2>1. StreamOK(t, d)
    BY DEF StreamInv
  <2>2. /\ pipe'[t][d] = pipe[t][d] /\ nread'[t][d] = nread[t][d]
        /\ passed'[t][d] = passed[t][d]
    BY <1>2
  <2>3. Kept' = Kept
    BY DEF Kept, Positions
  <2> QED BY <2>1, <2>2, <2>3 DEF StreamOK, R!Arrived
<1> QED BY <1>1, <1>2

LEMMA StreamAlone ==
  ASSUME StreamInv, \A s \in Sessions, e \in Ends :
           /\ pipe'[s][e].pk = pipe[s][e].pk
           /\ nread'[s][e] = nread[s][e] /\ passed'[s][e] = passed[s][e]
  PROVE  StreamInv'
<1> SUFFICES ASSUME NEW s \in Sessions, NEW e \in Ends PROVE StreamOK(s, e)'
  BY DEF StreamInv
<1>1. StreamOK(s, e)
  BY DEF StreamInv
<1>2. Kept' = Kept
  BY DEF Kept, Positions
<1> QED BY <1>1, <1>2 DEF StreamOK, R!Arrived

\* The writing pipe passes on exactly the packet the relay would.
LEMMA WritePasses ==
  ASSUME TypeOK, PipeInv, StreamInv, NEW s \in Sessions, NEW e \in Ends,
         PipeWrites(s, e)
  PROVE  /\ StreamInv'
         /\ R!Pass(s, e)
<1> DEFINE n == nread[s][e]
<1>1. /\ pipe[s][e].pc = "write" /\ pipe[s][e].pk = n /\ n > 0 /\ n \in Nat
      /\ n <= Len(Stream[s][e]) /\ ~Stream[s][e][n]
  BY DEF PipeWrites, At, PipeInv, PipeHolds, TypeOK
<1>2. n \in Kept[s][e]
  <2>1. Len(Stream[s][e]) \in Nat
    BY SessionsAssumption
  <2> QED BY <1>1, <2>1, KeptPositions DEF Positions
<1>3. Kept[s][e] \subseteq Nat \ {0}
  BY KeptPositions
<1>4. R!Arrived(s, e) = {q \in Kept[s][e] : q < n}
  <2>1. R!Arrived(s, e) = {q \in Kept[s][e] : q <= n /\ q # n}
    BY <1>1 DEF StreamInv, StreamOK
  <2> QED BY <1>1, <1>3, <2>1
<1>5. /\ nread' = nread /\ pipe'[s][e] = [pc |-> "read", pk |-> 0]
      /\ passed' = [passed EXCEPT ![s][e] = Append(@, n)]
      /\ passed[s][e] \in Seq(Nat \ {0})
  BY <1>1 DEF PipeWrites, Goes, TypeOK
<1>6. passed'[s][e] = Append(passed[s][e], n)
  BY <1>5 DEF TypeOK
<1>7. R!Arrived(s, e)' = R!Arrived(s, e) \cup {n}
  BY <1>1, <1>5, <1>6, ArrivedAppend DEF R!Arrived
<1>8. StreamOK(s, e)'
  <2>1. Kept' = Kept
    BY DEF Kept, Positions
  <2>2. {q \in Kept[s][e] : q < n} \cup {n} = {q \in Kept[s][e] : q <= n /\ q # 0}
    BY <1>1, <1>2, <1>3
  <2> QED BY <1>4, <1>5, <1>7, <2>1, <2>2 DEF StreamOK
<1>9. \A t \in Sessions, d \in Ends :
        t # s \/ d # e => /\ pipe'[t][d] = pipe[t][d]
                          /\ nread'[t][d] = nread[t][d]
                          /\ passed'[t][d] = passed[t][d]
  <2>1. \A t \in Sessions, d \in Ends :
          t # s \/ d # e => pipe'[t][d] = pipe[t][d]
    BY GoesAlone DEF PipeWrites
  <2>2. \A t \in Sessions, d \in Ends :
          t # s \/ d # e => passed'[t][d] = passed[t][d]
    BY <1>5 DEF TypeOK
  <2> QED BY <1>5, <2>1, <2>2
<1>10. StreamInv'
  BY <1>8, <1>9, OneStreamStep
<1>11. R!Pass(s, e)
  <2>1. conn[s][R!Other(e)] = "open" /\ UNCHANGED conn
    BY DEF PipeWrites, Other, R!Other
  <2>2. \A q \in Kept[s][e] : q < n <=> q \in R!Arrived(s, e)
    BY <1>4
  <2> HIDE DEF n
  <2> QED BY <1>2, <1>5, <2>1, <2>2 DEF R!Pass
<1> QED BY <1>10, <1>11

LEMMA StreamStable ==
  ASSUME TypeOK, PipeInv, OffInv, StreamInv, [Next]_vars
  PROVE  StreamInv'
<1>1. ASSUME UNCHANGED pipeVars PROVE StreamInv'
  BY <1>1, StreamAlone DEF pipeVars
<1>2. ASSUME NEW s \in Sessions, Connect(s) \/ MainStep(s) \/ TickerEnds(s)
      PROVE  StreamInv'
  <2>1. CASE StartPipes(s)
    <3>1. /\ UNCHANGED <<nread, passed>>
          /\ \A d \in Ends : pipe'[s][d] = [pc |-> "read", pk |-> 0]
          /\ \A t \in Sessions : t # s => pipe'[t] = pipe[t]
          /\ main[s] = "init"
      BY <2>1 DEF StartPipes, Step, TypeOK
    <3>2. ASSUME NEW d \in Ends PROVE pipe[s][d].pk = 0
      BY <3>1 DEF OffInv, Early, PipeInv, PipeHolds
    <3> QED BY <3>1, <3>2, StreamAlone
  <2>2. CASE ~StartPipes(s)
    <3>1. UNCHANGED pipeVars
      BY <1>2, <2>2 DEF Connect, MainStep, DialOK, DialFails, StartGameOK,
         StartGameFails, FirstError, CloseClient, CloseServer,
         StopTick, TickerEnds
    <3> QED BY <1>1, <3>1
  <2> QED BY <2>1, <2>2
<1>3. ASSUME NEW s \in Sessions, NEW e \in Ends, PipeReads(s, e)
      PROVE  StreamInv'
  <2>1. /\ pipe[s][e].pk = 0 /\ nread[s][e] \in Nat
        /\ nread'[s][e] = nread[s][e] + 1
        /\ pipe'[s][e].pk = nread[s][e] + 1
        /\ passed' = passed
    BY <1>3 DEF PipeReads, At, Goes, PipeInv, PipeHolds, TypeOK
  <2>2. StreamOK(s, e)'
    <3>1. StreamOK(s, e) /\ Kept' = Kept /\ Kept[s][e] \subseteq Nat \ {0}
      BY KeptPositions DEF StreamInv, Kept, Positions
    <3>2. {q \in Kept[s][e] : q <= nread[s][e] /\ q # 0}
            = {q \in Kept[s][e] : q <= nread[s][e] + 1 /\ q # nread[s][e] + 1}
      BY <2>1, <3>1
    <3>3. R!Arrived(s, e)' = R!Arrived(s, e)
      BY <2>1 DEF R!Arrived
    <3> QED BY <2>1, <3>1, <3>2, <3>3 DEF StreamOK
  <2>3. \A t \in Sessions, d \in Ends :
          t # s \/ d # e => /\ pipe'[t][d] = pipe[t][d]
                            /\ nread'[t][d] = nread[t][d]
                            /\ passed'[t][d] = passed[t][d]
    <3>1. \A t \in Sessions, d \in Ends :
            t # s \/ d # e => pipe'[t][d] = pipe[t][d]
      BY <1>3, GoesAlone DEF PipeReads
    <3>2. \A t \in Sessions, d \in Ends :
            t # s \/ d # e => nread'[t][d] = nread[t][d]
      BY <1>3 DEF PipeReads, TypeOK
    <3> QED BY <2>1, <3>1, <3>2
  <2> QED BY <2>2, <2>3, OneStreamStep
<1>4. ASSUME NEW s \in Sessions, NEW e \in Ends, ModsHandle(s, e)
      PROVE  StreamInv'
  <2>1. /\ pipe[s][e].pk = nread[s][e] /\ nread[s][e] \in Nat /\ nread[s][e] > 0
        /\ nread' = nread /\ passed' = passed
    BY <1>4 DEF ModsHandle, At, PipeInv, PipeHolds, TypeOK
  <2>2. \/ pipe'[s][e].pk = pipe[s][e].pk
        \/ pipe'[s][e].pk = 0 /\ Stream[s][e][nread[s][e]]
    BY <1>4, <2>1 DEF ModsHandle, DropOrWrite, Goes, Command, TypeOK
  <2>3. StreamOK(s, e)'
    <3>1. StreamOK(s, e) /\ Kept' = Kept
      BY DEF StreamInv, Kept, Positions
    <3>2. /\ Kept[s][e] \subseteq Nat \ {0}
          /\ \A q \in Kept[s][e] : ~Stream[s][e][q]
      BY KeptPositions
    <3> QED BY <2>1, <2>2, <3>1, <3>2 DEF StreamOK, R!Arrived
  <2>4. \A t \in Sessions, d \in Ends :
          t # s \/ d # e => /\ pipe'[t][d] = pipe[t][d]
                            /\ nread'[t][d] = nread[t][d]
                            /\ passed'[t][d] = passed[t][d]
    BY <1>4, GoesAlone DEF ModsHandle, DropOrWrite
  <2> QED BY <2>3, <2>4, OneStreamStep
<1>5. ASSUME NEW s \in Sessions, NEW e \in Ends,
             PipeFails(s, e) \/ PipeReturns(s, e)
      PROVE  StreamInv'
  <2>1. UNCHANGED <<nread, passed>> /\ pipe'[s][e].pk = pipe[s][e].pk
    BY <1>5 DEF PipeFails, PipeReturns, Goes, TypeOK
  <2>2. \A t \in Sessions, d \in Ends :
          t # s \/ d # e => pipe'[t][d] = pipe[t][d]
    BY <1>5, GoesAlone DEF PipeFails, PipeReturns
  <2>3. \A t \in Sessions, d \in Ends : pipe'[t][d].pk = pipe[t][d].pk
    BY <2>1, <2>2
  <2> QED BY <2>1, <2>3, StreamAlone
<1> QED
  BY <1>1, <1>2, <1>3, <1>4, <1>5, WritePasses
     DEF Next, PipeStep, Drops, vars

-----------------------------------------------------------------------------
\* Every step of a session is one of the relay, or nothing to it.
LEMMA StepRelays ==
  ASSUME TypeOK, PipeInv, ConnInv, StreamInv, [Next]_vars
  PROVE  [R!Next]_(R!vars)
<1>1. ASSUME UNCHANGED <<conn, passed>> PROVE [R!Next]_(R!vars)
  BY <1>1 DEF R!vars
<1>2. ASSUME NEW s \in Sessions, NEW e \in Ends,
             conn[s][e] = "none", Connection(s, e, "open"), UNCHANGED passed
      PROVE  R!Next
  BY <1>2 DEF Connection, R!Open, R!Next, R!Ends, Ends
<1>3. ASSUME NEW s \in Sessions, NEW e \in Ends,
             conn[s][e] # "none", Connection(s, e, "closed"), UNCHANGED passed
      PROVE  [R!Next]_(R!vars)
  <2>1. CASE conn[s][e] = "open"
    BY <1>3, <2>1 DEF Connection, R!Close, R!Next, R!Ends, Ends
  <2>2. CASE conn[s][e] = "closed"
    <3>1. conn' = conn
      BY <1>3, <2>2 DEF Connection, TypeOK
    <3> QED BY <1>1, <1>3, <3>1
  <2> QED BY <1>3, <2>1, <2>2 DEF TypeOK, ConnState
<1>4. ASSUME NEW s \in Sessions, Connect(s) \/ MainStep(s)
      PROVE  [R!Next]_(R!vars)
  <2>1. ConnOK(s) /\ "client" \in Ends /\ "server" \in Ends
    BY DEF ConnInv, Ends
  <2>2. CASE Connect(s)
    BY <1>2, <2>1, <2>2 DEF Connect, Step, ConnOK, pipeVars
  <2>3. CASE DialOK(s)
    BY <1>2, <2>1, <2>3 DEF DialOK, Step, ConnOK, pipeVars
  <2>4. CASE DialFails(s)
    BY <1>3, <2>1, <2>4 DEF DialFails, Step, ConnOK, pipeVars
  <2>5. CASE CloseClient(s)
    BY <1>3, <2>1, <2>5 DEF CloseClient, Step, ConnOK, pipeVars
  <2>6. CASE CloseServer(s)
    BY <1>3, <2>1, <2>6 DEF CloseServer, Step, ConnOK, pipeVars
  <2>7. CASE \/ StartGameOK(s) \/ StartGameFails(s) \/ StartPipes(s)
             \/ FirstError(s) \/ StopTick(s)
    BY <1>1, <2>7 DEF StartGameOK, StartGameFails, StartPipes,
       FirstError, StopTick, pipeVars
  <2> QED
    BY <1>4, <2>2, <2>3, <2>4, <2>5, <2>6, <2>7 DEF MainStep
<1>5. ASSUME NEW s \in Sessions, NEW e \in Ends, PipeWrites(s, e)
      PROVE  R!Next
  BY <1>5, WritePasses DEF R!Next, R!Ends, Ends
<1>6. ASSUME NEW s \in Sessions, NEW e \in Ends, Drops(s, e)
      PROVE  [R!Next]_(R!vars)
  BY <1>3, <1>6 DEF Drops, pipeVars
<1>7. ASSUME NEW s \in Sessions, NEW e \in Ends,
             PipeReads(s, e) \/ ModsHandle(s, e) \/ PipeFails(s, e)
               \/ PipeReturns(s, e)
      PROVE  [R!Next]_(R!vars)
  BY <1>1, <1>7 DEF PipeReads, ModsHandle, PipeFails, PipeReturns
<1> QED
  BY <1>1, <1>4, <1>5, <1>6, <1>7
     DEF Next, PipeStep, TickerEnds, pipeVars, vars

\* The sessions relay: each end's packets, less the commands, reach the other
\* in order, each once, none skipped (session.go:48-71).
THEOREM Relays == Spec => InOrder
<1>1. Init => OffInv /\ ConnInv /\ StreamInv
  <2> SUFFICES ASSUME Init PROVE OffInv /\ ConnInv /\ StreamInv
    OBVIOUS
  <2>1. OffInv
    BY DEF Init, OffInv
  <2>2. ASSUME NEW s \in Sessions PROVE ConnOK(s)
    <3>1. /\ main[s] = "new"
          /\ conn[s]["client"] = "none" /\ conn[s]["server"] = "none"
      BY DEF Init, Ends
    <3> QED BY <3>1 DEF ConnOK
  <2>3. ASSUME NEW s \in Sessions, NEW e \in Ends PROVE StreamOK(s, e)
    <3>1. R!Arrived(s, e) = {}
      BY DEF Init, R!Arrived
    <3>2. nread[s][e] = 0 /\ Kept[s][e] \subseteq Nat \ {0}
      BY KeptPositions DEF Init
    <3> QED BY <3>1, <3>2 DEF StreamOK
  <2> QED BY <2>1, <2>2, <2>3 DEF ConnInv, StreamInv
<1>2. TypeOK /\ PipeInv /\ OffInv /\ ConnInv /\ StreamInv /\ [Next]_vars
        => (OffInv /\ ConnInv /\ StreamInv)'
  BY OffStable, ConnStable, StreamStable
<1>3. Init => R!Init
  BY DEF Init, R!Init, R!Ends, Ends
<1>4. TypeOK /\ PipeInv /\ ConnInv /\ StreamInv /\ [Next]_vars
        => [R!Next]_(R!vars)
  BY StepRelays
<1> QED BY <1>1, <1>2, <1>3, <1>4, PipeInvariant, PTL DEF Spec, InOrder, R!Spec

-----------------------------------------------------------------------------
\* What a relay amounts to: the packets that have arrived of a stream did so in
\* its order and once, they are to be kept, and of those before one that has
\* arrived all have.
AsSent ==
  \A s \in Sessions, e \in Ends :
    /\ \A j, k \in 1..Len(passed[s][e]) : j < k => passed[s][e][j] < passed[s][e][k]
    /\ R!Arrived(s, e) \subseteq Kept[s][e]
    /\ \A q \in Kept[s][e] : \A p \in R!Arrived(s, e) : q < p => q \in R!Arrived(s, e)

\* A step of the relay keeps it so, whoever takes the step.
LEMMA RelayKeeps ==
  ASSUME TypeOK, AsSent, [R!Next]_(R!vars) PROVE AsSent'
<1>1. CASE UNCHANGED passed
  BY <1>1 DEF AsSent, R!Arrived
<1>2. ASSUME NEW t \in Sessions, NEW d \in Ends, R!Pass(t, d) PROVE AsSent'
  <2>1. PICK pk \in Kept[t][d] :
          /\ \A q \in Kept[t][d] : q < pk <=> q \in R!Arrived(t, d)
          /\ passed' = [passed EXCEPT ![t][d] = Append(@, pk)]
    BY <1>2 DEF R!Pass
  <2>2. Kept[t][d] \subseteq Nat \ {0} /\ passed[t][d] \in Seq(Nat \ {0})
    BY KeptPositions DEF TypeOK
  <2> SUFFICES ASSUME NEW s \in Sessions, NEW e \in Ends
      PROVE  /\ \A j, k \in 1..Len(passed'[s][e]) : j < k => passed'[s][e][j] < passed'[s][e][k]
             /\ R!Arrived(s, e)' \subseteq Kept[s][e]
             /\ \A q \in Kept[s][e] : \A p \in R!Arrived(s, e)' :
                  q < p => q \in R!Arrived(s, e)'
      BY DEF AsSent
  <2>3. CASE s = t /\ e = d
    <3> DEFINE old == passed[t][d]
    <3>1. passed'[s][e] = Append(old, pk)
      BY <2>1, <2>3 DEF TypeOK
    <3>2. /\ Len(old) \in Nat /\ Len(Append(old, pk)) = Len(old) + 1
          /\ Append(old, pk)[Len(old) + 1] = pk
          /\ \A j \in 1..Len(old) : Append(old, pk)[j] = old[j] /\ old[j] \in Nat
      BY <2>2
    <3>3. /\ R!Arrived(s, e) = {old[j] : j \in 1..Len(old)}
          /\ R!Arrived(s, e)' = R!Arrived(s, e) \cup {pk}
      <4>1. R!Arrived(s, e) = {old[j] : j \in 1..Len(old)}
        BY <2>3 DEF R!Arrived
      <4>2. R!Arrived(s, e)' = {Append(old, pk)[j] : j \in 1..Len(Append(old, pk))}
        BY <3>1 DEF R!Arrived
      <4>3. old \in Seq(Nat \ {0}) /\ pk \in Nat \ {0}
        BY <2>2
      <4> HIDE DEF old
      <4>4. R!Arrived(s, e)' = {old[j] : j \in 1..Len(old)} \cup {pk}
        BY <4>2, <4>3, ArrivedAppend
      <4> QED BY <4>1, <4>4
    <3>4. \A p \in R!Arrived(s, e) : p \in Kept[t][d] /\ p < pk
      BY <2>1, <2>3 DEF AsSent
    <3>5. \A j \in 1..Len(old) : old[j] < pk
      BY <3>3, <3>4
    <3>6. \A j, k \in 1..Len(old) : j < k => old[j] < old[k]
      BY <2>3 DEF AsSent
    <3> HIDE DEF old
    <3>7. ASSUME NEW j \in 1..(Len(old) + 1), NEW k \in 1..(Len(old) + 1), j < k
          PROVE  Append(old, pk)[j] < Append(old, pk)[k]
      <4>1. j \in 1..Len(old)
        BY <3>2, <3>7
      <4>2. k \in 1..Len(old) \/ k = Len(old) + 1
        BY <3>2
      <4> QED BY <3>2, <3>5, <3>6, <3>7, <4>1, <4>2
    <3>8. \A q \in Kept[s][e] : \A p \in R!Arrived(s, e)' : q < p => q \in R!Arrived(s, e)'
      BY <2>1, <2>3, <3>3 DEF AsSent
    <3> QED BY <2>3, <3>1, <3>2, <3>3, <3>4, <3>7, <3>8
  <2>4. CASE ~(s = t /\ e = d)
    <3>1. passed'[s][e] = passed[s][e]
      BY <2>1, <2>4 DEF TypeOK
    <3>2. R!Arrived(s, e)' = R!Arrived(s, e)
      BY <3>1 DEF R!Arrived
    <3> QED BY <3>1, <3>2 DEF AsSent
  <2> QED BY <2>3, <2>4
<1> QED
  BY <1>1, <1>2 DEF R!Next, R!Open, R!Close, R!vars, R!Ends, Ends

\* Of every stream of every session the other end has a beginning of what is to
\* be kept: in order, none twice, no gap, no command, whenever it is cut off.
\* It follows from the refinement alone.
THEOREM StreamsArriveAsSent == Spec => []AsSent
<1>1. R!Init => AsSent
  <2> SUFFICES ASSUME R!Init, NEW s \in Sessions, NEW e \in Ends PROVE passed[s][e] = << >>
    BY DEF AsSent, R!Arrived
  <2> QED BY DEF R!Init, R!Ends, Ends
<1>2. TypeOK /\ AsSent /\ [R!Next]_(R!vars) => AsSent'
  BY RelayKeeps
<1> QED BY <1>1, <1>2, TypeCorrect, Relays, PTL DEF InOrder, R!Spec
=============================================================================
