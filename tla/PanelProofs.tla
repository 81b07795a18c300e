----------------------------- MODULE PanelProofs ----------------------------
(***************************************************************************)
(* Safety of the panel for any number of requests: what the flag counts,   *)
(* what it promises, and that one bot loop at most exists.  The starts of  *)
(* the module Tokens are those of Panel, and keep the sign-in token.       *)
(***************************************************************************)
EXTENDS Tokens, TLAPS

\* A request whose goroutine exists is over, so it launches only that one.
SpawnedDone == \A r \in Reqs : gor[r] # "none" => req[r].pc = "done"

PanelInv ==
  /\ TypeOK /\ SpawnedDone
  /\ StartsNeedStops /\ OneBotLoop /\ OnlineHasBot /\ LogIsWindow

OpenPC == {"new", "lock", "locked", "log", "spawn", "check", "deref", "panicked"}
OpenReq == [kind : Kinds \cup {"none"}, answer : {"none"}, pc : OpenPC]
DoneReq == [kind : Kinds, answer : Answered, pc : {"done"}]

LEMMA ReqSplit == ReqStates = OpenReq \cup DoneReq
BY DEF ReqStates, OpenReq, OpenPC, DoneReq

LEMMA GoesType ==
  ASSUME TypeOK, NEW r \in Reqs, req[r].pc # "done", NEW pc \in OpenPC, Goes(r, pc)
  PROVE  req' \in [Reqs -> ReqStates]
<1>1. req[r] \in OpenReq
  BY ReqSplit DEF TypeOK, DoneReq
<1>2. [req[r] EXCEPT !.pc = pc] \in OpenReq
  BY <1>1 DEF OpenReq
<1>3. req' = [req EXCEPT ![r] = [req[r] EXCEPT !.pc = pc]]
  BY DEF Goes, TypeOK
<1> QED
  BY <1>2, <1>3, ReqSplit DEF TypeOK

LEMMA AnswersType ==
  ASSUME TypeOK, NEW r \in Reqs, req[r].kind \in Kinds, NEW a \in Answered, Answers(r, a)
  PROVE  req' \in [Reqs -> ReqStates]
<1>1. [req[r] EXCEPT !.pc = "done", !.answer = a] \in DoneReq
  BY ReqSplit DEF TypeOK, OpenReq, DoneReq
<1>2. req' = [req EXCEPT ![r] = [req[r] EXCEPT !.pc = "done", !.answer = a]]
  BY DEF Answers, TypeOK
<1> QED
  BY <1>1, <1>2, ReqSplit DEF TypeOK

LEMMA PanelInit == Init => PanelInv
<1> SUFFICES ASSUME Init PROVE PanelInv
    OBVIOUS
<1>1. req \in [Reqs -> ReqStates]
  BY ReqSplit DEF Init, OpenReq, OpenPC
<1>2. <<NoReq>> \in Seq(Writers) /\ Len(<<NoReq>>) = 1
  BY DEF Writers
<1>3. TypeOK
  BY <1>1, <1>2 DEF Init, TypeOK
<1>4. StartsNeedStops /\ OneBotLoop /\ OnlineHasBot /\ SpawnedDone
  BY DEF Init, StartsNeedStops, OneBotLoop, OnlineHasBot, SpawnedDone
<1>5. LogIsWindow
  BY <1>2, PanelAssumption DEF Init, LogIsWindow
<1> QED
  BY <1>3, <1>4, <1>5 DEF PanelInv

\* Adding an entry to the ring keeps it the window on all entries.
LEMMA LoggedKeeps ==
  ASSUME TypeOK, LogIsWindow, NEW w \in Writers, Logged(w)
  PROVE  LogIsWindow' /\ logs' \in Seq(Writers) /\ written' \in Seq(Writers)
<1> DEFINE s == Append(logs, w)
<1>1. /\ s \in Seq(Writers) /\ Len(s) = Len(logs) + 1
      /\ \A i \in 1..Len(logs) : s[i] = logs[i]
      /\ s[Len(logs) + 1] = w
  BY DEF TypeOK
<1>2. /\ written' \in Seq(Writers) /\ Len(written') = Len(written) + 1
      /\ \A i \in 1..Len(written) : written'[i] = written[i]
      /\ written'[Len(written) + 1] = w
  BY DEF TypeOK, Logged
<1>3. Len(logs) \in Nat /\ Len(written) \in Nat /\ MaxLogs \in Nat \ {0}
  BY PanelAssumption DEF TypeOK
<1>4. \A i \in 1..Len(s) : s[i] = written'[Len(written') - Len(s) + i]
  <2>1. Len(logs) <= Len(written)
    BY <1>3 DEF LogIsWindow
  <2> SUFFICES ASSUME NEW i \in 1..Len(s)
               PROVE  s[i] = written'[Len(written') - Len(s) + i]
      OBVIOUS
  <2>2. CASE i \in 1..Len(logs)
    <3>1. Len(written') - Len(s) + i = Len(written) - Len(logs) + i
      BY <1>1, <1>2, <1>3
    <3>2. Len(written) - Len(logs) + i \in 1..Len(written)
      BY <1>3, <2>1, <2>2
    <3> QED
      BY <1>1, <1>2, <2>2, <3>1, <3>2 DEF LogIsWindow
  <2>3. CASE i = Len(logs) + 1
    <3>1. Len(written') - Len(s) + i = Len(written) + 1
      BY <1>1, <1>2, <1>3, <2>3
    <3> QED
      BY <1>1, <1>2, <2>3, <3>1
  <2> QED
    BY <1>1, <1>3, <2>2, <2>3
<1>5. CASE Len(s) > MaxLogs
  <2>1. Len(logs) = MaxLogs /\ Len(s) = MaxLogs + 1
    BY <1>1, <1>3, <1>5 DEF LogIsWindow
  <2>2. logs' = SubSeq(s, 2, Len(s))
    BY <1>3, <1>5, <2>1 DEF Logged, Trimmed
  <2>3. /\ logs' \in Seq(Writers) /\ Len(logs') = MaxLogs
        /\ \A i \in 1..MaxLogs : logs'[i] = s[i + 1]
    BY <1>1, <1>3, <2>1, <2>2
  <2>4. Len(written) >= MaxLogs
    BY <1>3, <2>1 DEF LogIsWindow
  <2>5. \A i \in 1..Len(logs') : logs'[i] = written'[Len(written') - Len(logs') + i]
    <3> SUFFICES ASSUME NEW i \in 1..MaxLogs
                 PROVE  logs'[i] = written'[Len(written') - MaxLogs + i]
        BY <2>3
    <3>1. logs'[i] = s[i + 1] /\ i + 1 \in 1..Len(s)
      BY <1>3, <2>1, <2>3
    <3>2. Len(written') - Len(s) + (i + 1) = Len(written') - MaxLogs + i
      BY <1>2, <1>3, <2>1
    <3> QED
      BY <1>4, <3>1, <3>2
  <2> QED
    BY <1>2, <1>3, <2>3, <2>4, <2>5 DEF LogIsWindow
<1>6. CASE ~(Len(s) > MaxLogs)
  <2>1. logs' = s
    BY <1>6 DEF Logged, Trimmed
  <2>2. Len(logs) < MaxLogs /\ Len(logs) = Len(written)
    BY <1>1, <1>3, <1>6 DEF LogIsWindow
  <2>3. Len(logs') = Len(written') /\ Len(written') <= MaxLogs
    BY <1>1, <1>2, <1>3, <2>1, <2>2
  <2>4. Len(logs') = IF Len(written') < MaxLogs THEN Len(written') ELSE MaxLogs
    BY <1>2, <1>3, <2>3
  <2>5. \A i \in 1..Len(logs') : logs'[i] = written'[Len(written') - Len(logs') + i]
    BY <1>4, <2>1
  <2> QED
    BY <1>1, <1>2, <2>1, <2>4, <2>5 DEF LogIsWindow
<1> QED
  BY <1>5, <1>6

LEMMA SpawnedStep == PanelInv /\ [Next]_vars => SpawnedDone'
<1> SUFFICES ASSUME PanelInv, [Next]_vars PROVE SpawnedDone'
    OBVIOUS
<1> USE DEF At, vars, flagVars, botVars, logVars
<1>t. TypeOK /\ SpawnedDone
  BY DEF PanelInv
\* Handlers move open requests, and none of them has a goroutine yet.
<1>1. ASSUME NEW r \in Reqs, req[r].pc # "done", gor' = gor,
             \A q \in Reqs : q # r => req'[q] = req[q]
      PROVE  SpawnedDone'
  BY <1>1, <1>t DEF SpawnedDone
<1>2. ASSUME NEW r \in Reqs, Arrive(r) \/ (Handler(r) /\ ~Spawn(r)) PROVE SpawnedDone'
  <2>1. req[r].pc # "done" /\ gor' = gor
    BY <1>2 DEF Arrive, Handler, Lock, StartLocked, StopLocked, StatusLocked, AddLog,
                ChatCheck, ChatDeref
  <2>2. \A q \in Reqs : q # r => req'[q] = req[q]
    <3>1. CASE Arrive(r)
      BY <3>1, <1>t DEF TypeOK, Arrive
    <3>2. ASSUME NEW pc, Goes(r, pc) PROVE \A q \in Reqs : q # r => req'[q] = req[q]
      BY <3>2, <1>t DEF TypeOK, Goes
    <3>3. ASSUME NEW a, Answers(r, a) PROVE \A q \in Reqs : q # r => req'[q] = req[q]
      BY <3>3, <1>t DEF TypeOK, Answers
    <3> QED
      BY <1>2, <3>1, <3>2, <3>3
      DEF Handler, Lock, StartLocked, Refuse, Claim, StopLocked, StatusLocked, AddLog,
          ChatCheck, ChatDeref
  <2> QED
    BY <1>1, <2>1, <2>2
<1>3. ASSUME NEW r \in Reqs, Spawn(r) PROVE SpawnedDone'
  <2>1. req'[r].pc = "done"
    BY <1>3, <1>t, ReqSplit DEF TypeOK, OpenReq, DoneReq, Spawn, Answers
  <2>2. \A q \in Reqs : q # r => req'[q] = req[q] /\ gor'[q] = gor[q]
    BY <1>3, <1>t DEF TypeOK, Spawn, Answers
  <2> QED
    BY <2>1, <2>2, <1>t DEF SpawnedDone
<1>4. ASSUME NEW r \in Reqs, AuthOK(r) \/ ListenOK(r) PROVE SpawnedDone'
  <2>1. gor[r] # "none" /\ req' = req /\ \A q \in Reqs : q # r => gor'[q] = gor[q]
    BY <1>4, <1>t DEF TypeOK, AuthOK, ListenOK
  <2> QED
    BY <2>1, <1>t DEF SpawnedDone
<1>5. CASE Printed \/ UNCHANGED vars
           \/ \E r \in Reqs : AuthFails(r) \/ ListenFails(r) \/ RunBot(r)
  BY <1>5, <1>t DEF SpawnedDone, Printed, AuthFails, ListenFails, RunBot
<1> QED
  BY <1>2, <1>3, <1>4, <1>5 DEF Next, Handler

\* A step that touches neither flag, goroutines nor log, and ends no start on
\* its way, keeps everything but the types.
LEMMA PanelFrame ==
  ASSUME PanelInv, TypeOK', SpawnedDone', UNCHANGED <<botRunning, starts, stops, gor, published>>,
         UNCHANGED <<logs, written>>,
         \A q \in Reqs : UnderWay(q) => UnderWay(q)'
  PROVE  PanelInv'
<1>1. StartsNeedStops' /\ OneBotLoop' /\ LogIsWindow'
  BY DEF PanelInv, StartsNeedStops, OneBotLoop, LogIsWindow
<1>2. OnlineHasBot'
  BY DEF PanelInv, OnlineHasBot
<1> QED
  BY <1>1, <1>2 DEF PanelInv

LEMMA PanelStep == PanelInv /\ [Next]_vars => PanelInv'
<1> SUFFICES ASSUME PanelInv, [Next]_vars PROVE PanelInv'
    OBVIOUS
<1> USE DEF At, vars, flagVars, botVars, logVars
<1>t. /\ TypeOK /\ SpawnedDone
      /\ StartsNeedStops /\ OneBotLoop /\ OnlineHasBot /\ LogIsWindow
  BY DEF PanelInv
<1>s. SpawnedDone'
  BY SpawnedStep
<1>p. /\ {"lock", "locked", "log", "spawn", "check", "deref", "panicked"} \subseteq OpenPC
      /\ {"already running", "started", "stopped", "online", "offline",
          "sent"} \subseteq Answered
      /\ {"start", "stop", "status", "chat"} = Kinds
  BY DEF OpenPC, Answered, Kinds
<1>1. ASSUME NEW r \in Reqs, Arrive(r) PROVE PanelInv'
  <2>1. req' \in [Reqs -> ReqStates]
    <3>1. PICK kind \in Kinds :
            \/ req' = [req EXCEPT ![r].kind = kind,
                                  ![r].pc = IF kind = "chat" THEN "log" ELSE "lock"]
            \/ req' = [req EXCEPT ![r] = [kind |-> kind, pc |-> "done",
                                          answer |-> "bad request"]]
      BY <1>1 DEF Arrive
    <3>2. req[r] \in OpenReq
      BY <1>1, <1>t, ReqSplit DEF TypeOK, DoneReq, Arrive
    <3>3. \A pc \in {"log", "lock"} :
            [req[r] EXCEPT !.kind = kind, !.pc = pc] \in OpenReq
      BY <3>1, <3>2 DEF OpenReq, OpenPC
    <3>4. [kind |-> kind, pc |-> "done", answer |-> "bad request"] \in DoneReq
      BY <3>1 DEF DoneReq, Answered
    <3> QED
      BY <3>1, <3>3, <3>4, <1>t, ReqSplit DEF TypeOK
  <2>2. UNCHANGED <<botMu, botRunning, starts, stops, gor, published, withdrawn, exited, logs, written>>
    BY <1>1 DEF Arrive
  <2>3. TypeOK'
    BY <1>t, <2>1, <2>2 DEF TypeOK
  <2>4. \A q \in Reqs : UnderWay(q) => UnderWay(q)'
    <3>1. \A q \in Reqs : q # r => req'[q] = req[q]
      BY <1>1, <1>t DEF TypeOK, Arrive
    <3>2. req[r].pc = "new"
      BY <1>1 DEF Arrive
    <3> QED
      BY <2>2, <3>1, <3>2 DEF UnderWay
  <2> QED
    BY <2>2, <2>3, <2>4, <1>s, PanelFrame
<1>2. ASSUME NEW r \in Reqs, Lock(r) PROVE PanelInv'
  <2>1. req' \in [Reqs -> ReqStates]
    BY <1>2, <1>p, <1>t, GoesType DEF Lock
  <2>2. TypeOK'
    BY <1>2, <1>t, <2>1 DEF TypeOK, Lock
  <2>3. \A q \in Reqs : UnderWay(q) => UnderWay(q)'
    BY <1>2, <1>t DEF TypeOK, UnderWay, Lock, Goes
  <2> QED
    BY <1>2, <1>s, <2>2, <2>3, PanelFrame DEF Lock
<1>3. ASSUME NEW r \in Reqs, StartLocked(r), botRunning PROVE PanelInv'
  <2>1. /\ Answers(r, "already running") /\ req[r].pc = "locked" /\ req[r].kind = "start"
        /\ botMu' = NoReq
        /\ UNCHANGED <<botRunning, starts, stops, gor, published, withdrawn, exited, logs, written>>
    BY <1>3 DEF StartLocked, Refuse
  <2>2. req' \in [Reqs -> ReqStates]
    BY <1>p, <1>t, <2>1, AnswersType
  <2>3. TypeOK'
    BY <1>t, <2>1, <2>2 DEF TypeOK
  <2>4. \A q \in Reqs : UnderWay(q) => UnderWay(q)'
    BY <1>t, <2>1 DEF TypeOK, UnderWay, Answers
  <2> QED
    BY <2>1, <2>3, <2>4, <1>s, PanelFrame
<1>4. ASSUME NEW r \in Reqs, StartLocked(r), ~botRunning PROVE PanelInv'
  <2>1. /\ Goes(r, "log") /\ req[r].pc = "locked" /\ req[r].kind = "start"
        /\ botRunning' = TRUE /\ starts' = starts + 1 /\ botMu' = NoReq
        /\ UNCHANGED <<stops, gor, published, withdrawn, exited, logs, written>>
    BY <1>4 DEF StartLocked, Claim
  <2>2. req' \in [Reqs -> ReqStates]
    BY <1>p, <1>t, <2>1, GoesType
  <2>3. TypeOK'
    BY <1>t, <2>1, <2>2 DEF TypeOK
  <2>4. StartsNeedStops'
    BY <1>4, <1>t, <2>1 DEF TypeOK, StartsNeedStops
  <2>5. OnlineHasBot'
    <3>1. req'[r].kind = "start" /\ req'[r].pc = "log"
      BY <1>t, <2>1, ReqSplit DEF TypeOK, Goes, OpenReq, DoneReq
    <3> QED
      BY <3>1 DEF OnlineHasBot, UnderWay
  <2>6. OneBotLoop' /\ LogIsWindow'
    BY <1>t, <2>1 DEF OneBotLoop, LogIsWindow
  <2> QED
    BY <1>s, <2>3, <2>4, <2>5, <2>6 DEF PanelInv
<1>5. ASSUME NEW r \in Reqs, StopLocked(r) PROVE PanelInv'
  <2>1. /\ Answers(r, "stopped") /\ req[r].kind = "stop"
        /\ botRunning' = FALSE /\ stops' = stops + 1 /\ botMu' = NoReq
        /\ UNCHANGED <<starts, gor, published, withdrawn, exited, logs, written>>
    BY <1>5 DEF StopLocked, FlagStopped
  <2>2. req' \in [Reqs -> ReqStates]
    BY <1>p, <1>t, <2>1, AnswersType
  <2>3. TypeOK'
    <3>1. botRunning' \in BOOLEAN
      BY <2>1, Zenon
    <3>2. stops' \in Nat /\ botMu' \in Reqs \cup {NoReq}
      BY <1>t, <2>1 DEF TypeOK
    <3> QED
      BY <1>t, <2>1, <2>2, <3>1, <3>2 DEF TypeOK
  <2>4. StartsNeedStops'
    BY <1>t, <2>1 DEF TypeOK, StartsNeedStops
  <2>5. OneBotLoop' /\ LogIsWindow' /\ OnlineHasBot'
    BY <1>t, <2>1 DEF OneBotLoop, LogIsWindow, OnlineHasBot
  <2> QED
    BY <1>s, <2>3, <2>4, <2>5 DEF PanelInv
<1>6. ASSUME NEW r \in Reqs, StatusLocked(r) PROVE PanelInv'
  <2>1. /\ \E a \in {"online", "offline"} : Answers(r, a)
        /\ req[r].kind = "status" /\ botMu' = NoReq
        /\ UNCHANGED <<botRunning, starts, stops, gor, published, withdrawn, exited, logs, written>>
    BY <1>6 DEF StatusLocked
  <2>2. req' \in [Reqs -> ReqStates]
    BY <1>p, <1>t, <2>1, AnswersType
  <2>3. TypeOK'
    BY <1>t, <2>1, <2>2 DEF TypeOK
  <2>4. \A q \in Reqs : UnderWay(q) => UnderWay(q)'
    BY <1>t, <2>1 DEF TypeOK, UnderWay, Answers
  <2> QED
    BY <2>1, <2>3, <2>4, <1>s, PanelFrame
<1>7. ASSUME NEW r \in Reqs, AddLog(r) PROVE PanelInv'
  <2>1. /\ Logged(r) /\ req[r].pc = "log"
        /\ Goes(r, IF req[r].kind = "start" THEN "spawn" ELSE "check")
        /\ UNCHANGED <<botMu, botRunning, starts, stops, gor, published, withdrawn, exited>>
    BY <1>7 DEF AddLog
  <2>2. LogIsWindow' /\ logs' \in Seq(Writers) /\ written' \in Seq(Writers)
    BY <1>t, <2>1, LoggedKeeps DEF Writers
  <2>3. req' \in [Reqs -> ReqStates]
    BY <1>p, <1>t, <2>1, GoesType
  <2>4. TypeOK'
    BY <1>t, <2>1, <2>2, <2>3 DEF TypeOK
  <2>5. \A q \in Reqs : UnderWay(q) => UnderWay(q)'
    <3>1. \A q \in Reqs : q # r => req'[q] = req[q]
      BY <1>t, <2>1 DEF TypeOK, Goes
    <3>2. req[r].kind = "start" => req'[r].kind = "start" /\ req'[r].pc = "spawn"
      BY <1>t, <2>1, ReqSplit DEF TypeOK, Goes, OpenReq, DoneReq
    <3> QED
      BY <2>1, <3>1, <3>2 DEF UnderWay
  <2>6. StartsNeedStops' /\ OneBotLoop' /\ OnlineHasBot'
    BY <1>t, <2>1, <2>5 DEF StartsNeedStops, OneBotLoop, OnlineHasBot
  <2> QED
    BY <1>s, <2>2, <2>4, <2>6 DEF PanelInv
<1>8. CASE Printed
  <2>1. /\ Logged(NoReq)
        /\ UNCHANGED <<req, botMu, botRunning, starts, stops, gor, published, withdrawn, exited>>
    BY <1>8 DEF Printed
  <2>2. LogIsWindow' /\ logs' \in Seq(Writers) /\ written' \in Seq(Writers)
    BY <1>t, <2>1, LoggedKeeps DEF Writers
  <2>3. TypeOK'
    BY <1>t, <2>1, <2>2 DEF TypeOK
  <2>4. StartsNeedStops' /\ OneBotLoop' /\ OnlineHasBot'
    BY <1>t, <2>1 DEF StartsNeedStops, OneBotLoop, OnlineHasBot, UnderWay
  <2> QED
    BY <1>s, <2>2, <2>3, <2>4 DEF PanelInv
<1>9. ASSUME NEW r \in Reqs, Spawn(r) PROVE PanelInv'
  <2>1. /\ Answers(r, "started") /\ req[r].kind = "start"
        /\ gor' = [gor EXCEPT ![r] = "auth"]
        /\ UNCHANGED <<botMu, botRunning, starts, stops, published, withdrawn, exited, logs, written>>
    BY <1>9 DEF Spawn
  <2>2. req' \in [Reqs -> ReqStates]
    BY <1>p, <1>t, <2>1, AnswersType
  <2>3. TypeOK'
    BY <1>t, <2>1, <2>2 DEF TypeOK
  <2>4. gor[r] = "none"
    BY <1>9, <1>t DEF TypeOK, SpawnedDone, Spawn
  <2>5. /\ gor'[r] = "auth"
        /\ \A q \in Reqs : q # r => gor'[q] = gor[q] /\ req'[q] = req[q]
    BY <1>t, <2>1 DEF TypeOK, Answers
  <2>6. StartsNeedStops' /\ LogIsWindow'
    BY <1>t, <2>1 DEF StartsNeedStops, LogIsWindow
  <2>7. OneBotLoop'
    BY <1>t, <2>1, <2>4, <2>5 DEF OneBotLoop
  <2>8. OnlineHasBot'
    BY <2>5 DEF OnlineHasBot, UnderWay
  <2> QED
    BY <1>s, <2>3, <2>6, <2>7, <2>8 DEF PanelInv
<1>10. ASSUME NEW r \in Reqs, ChatCheck(r) \/ ChatDeref(r) PROVE PanelInv'
  <2>1. /\ req[r].kind = "chat" /\ req[r].pc # "done"
        /\ \E pc \in {"deref", "panicked"} : Goes(r, pc) \/ Answers(r, "sent")
        /\ UNCHANGED <<botMu, botRunning, starts, stops, gor, published, exited, logs, written>>
        /\ withdrawn' \in {withdrawn, withdrawn \ {r}}
    BY <1>10 DEF ChatCheck, ChatDeref
  <2>2. req' \in [Reqs -> ReqStates]
    BY <1>p, <1>t, <2>1, AnswersType, GoesType
  <2>3. TypeOK'
    BY <1>t, <2>1, <2>2 DEF TypeOK
  <2>4. \A q \in Reqs : q # r => req'[q] = req[q]
    BY <1>t, <2>1 DEF TypeOK, Goes, Answers
  <2>5. \A q \in Reqs : UnderWay(q) => UnderWay(q)'
    BY <2>1, <2>4 DEF UnderWay
  <2> QED
    BY <1>s, <2>1, <2>3, <2>5, PanelFrame
<1>11. ASSUME NEW g \in Reqs, AuthOK(g) PROVE PanelInv'
  <2>1. /\ gor' = [gor EXCEPT ![g] = "listen"] /\ gor[g] = "auth"
        /\ UNCHANGED <<req, botMu, botRunning, starts, stops, published, withdrawn, exited, logs, written>>
    BY <1>11 DEF AuthOK
  <2>2. TypeOK' /\ StartsNeedStops' /\ LogIsWindow'
    BY <1>t, <2>1 DEF TypeOK, StartsNeedStops, LogIsWindow
  <2>3. \A q \in Reqs : (gor'[q] = "loop" <=> gor[q] = "loop")
                     /\ (gor[q] # "none" => gor'[q] # "none")
    BY <1>t, <2>1 DEF TypeOK
  <2>4. OneBotLoop' /\ OnlineHasBot'
    BY <1>t, <2>1, <2>3 DEF OneBotLoop, OnlineHasBot, UnderWay
  <2> QED
    BY <1>s, <2>2, <2>4 DEF PanelInv
<1>12. ASSUME NEW g \in Reqs, ListenOK(g) PROVE PanelInv'
  <2>1. /\ gor' = [gor EXCEPT ![g] = "loop"] /\ \A q \in Reqs : gor[q] # "loop"
        /\ UNCHANGED <<req, botMu, botRunning, starts, stops, published, withdrawn, exited, logs, written>>
    BY <1>12 DEF ListenOK, PortFree
  <2>2. TypeOK' /\ StartsNeedStops' /\ LogIsWindow'
    BY <1>t, <2>1 DEF TypeOK, StartsNeedStops, LogIsWindow
  <2>3. gor'[g] = "loop" /\ \A q \in Reqs : q # g => gor'[q] = gor[q]
    BY <1>t, <2>1 DEF TypeOK
  <2>4. OneBotLoop'
    BY <1>t, <2>1, <2>3 DEF OneBotLoop
  <2>5. OnlineHasBot'
    BY <2>3 DEF OnlineHasBot, UnderWay
  <2> QED
    BY <1>s, <2>2, <2>4, <2>5 DEF PanelInv
<1>13. ASSUME NEW g \in Reqs, RunBot(g) PROVE PanelInv'
  <2>1. /\ gor[g] = "loop" /\ published' = ~published
        /\ withdrawn' \subseteq Reqs
        /\ UNCHANGED <<req, botMu, botRunning, starts, stops, gor, exited, logs, written>>
    BY <1>13, <1>t DEF RunBot, TypeOK
  <2>2. TypeOK' /\ StartsNeedStops' /\ LogIsWindow' /\ OneBotLoop'
    BY <1>t, <2>1 DEF TypeOK, StartsNeedStops, LogIsWindow, OneBotLoop
  <2>3. OnlineHasBot'
    BY <1>t, <2>1 DEF OnlineHasBot, UnderWay
  <2> QED
    BY <1>s, <2>2, <2>3 DEF PanelInv
<1>14. CASE UNCHANGED vars \/ \E g \in Reqs : AuthFails(g) \/ ListenFails(g)
  <2>1. /\ exited' \in {exited, TRUE}
        /\ UNCHANGED <<req, botMu, botRunning, starts, stops, gor, published, withdrawn, logs, written>>
    BY <1>14 DEF AuthFails, ListenFails
  <2>2. TypeOK'
    BY <1>t, <2>1 DEF TypeOK
  <2>3. \A q \in Reqs : UnderWay(q) => UnderWay(q)'
    BY <2>1 DEF UnderWay
  <2> QED
    BY <1>s, <2>1, <2>2, <2>3, PanelFrame
<1> QED
  BY <1>1, <1>2, <1>3, <1>4, <1>5, <1>6, <1>7, <1>8, <1>9, <1>10, <1>11, <1>12,
     <1>13, <1>14 DEF Next, Handler

-----------------------------------------------------------------------------
\* Every reachable state satisfies the invariant.
THEOREM PanelInvariant == Spec => []PanelInv
BY PanelInit, PanelStep, PTL DEF Spec

\* Every variable of the panel keeps its type.
THEOREM TypeCorrect == Spec => []TypeOK
<1> PanelInv => TypeOK
  BY DEF PanelInv
<1> QED BY PanelInvariant, PTL

\* A start over a running bot needs a stop in between, however the requests
\* interleave.
THEOREM StartsAreGuarded == Spec => []StartsNeedStops
<1>1. PanelInv => StartsNeedStops
  BY DEF PanelInv
<1> QED
  BY <1>1, PanelInvariant, PTL

\* One bot loop at most exists and only it publishes a bot: the assumption on
\* which the module Headless has a single loop.
THEOREM SingleBotLoop == Spec => []OneBotLoop
<1>1. PanelInv => OneBotLoop
  BY DEF PanelInv
<1> QED
  BY <1>1, PanelInvariant, PTL

\* While the panel says Online a start is under way or has its goroutine.
THEOREM OnlineIsTrue == Spec => []OnlineHasBot
<1>1. PanelInv => OnlineHasBot
  BY DEF PanelInv
<1> QED
  BY <1>1, PanelInvariant, PTL

\* The log is the window of the last MaxLogs entries, for every MaxLogs.
THEOREM LogWindow == Spec => []LogIsWindow
<1>1. PanelInv => LogIsWindow
  BY DEF PanelInv
<1> QED
  BY <1>1, PanelInvariant, PTL

-----------------------------------------------------------------------------
\* A start that has signed in has its token on disk or about to be; a saver
\* exists only past the sign-in, and every token has a number above 0.
Late(g) == gor[g] \in {"listen", "loop"} \/ saver[g].pc = "end"
Written == (\E g \in Reqs : Late(g)) /\ ~spoilt =>
             file # 0 \/ \E g \in Reqs : saver[g].pc = "write"
TokenInv ==
  /\ TokenTypeOK /\ Written
  /\ \A g \in Reqs : saver[g].pc = "sleep" => gor[g] \in {"listen", "loop"}
  /\ \A g \in Reqs : saver[g].pc \in {"save", "write"} => saver[g].token # 0

SaverStates(n) ==
  [pc : {"none", "asking", "sleep", "save", "write", "end"}, token : 0..n]

LEMMA TokenInit == TInit => TokenInv
<1> SUFFICES ASSUME TInit PROVE TokenInv
    OBVIOUS
<1>1. /\ saver \in [Reqs -> SaverStates(issued)] /\ file \in 0..issued
      /\ issued \in Nat /\ \A g \in Reqs : saver[g].pc = "none"
  BY DEF TInit, SaverStates
<1>2. spoilt \in BOOLEAN /\ \A g \in Reqs : gor[g] = "none"
  BY DEF TInit, Init
<1> QED
  BY <1>1, <1>2 DEF TokenInv, TokenTypeOK, Written, Late, SaverStates

\* The steps of the module Panel that leave the token alone.
LEMMA TokenBeside ==
  ASSUME TypeOK, TokenInv, UNCHANGED tokenVars,
         \A g \in Reqs : gor'[g] \in {"listen", "loop"} => Late(g),
         \A g \in Reqs : gor[g] \in {"listen", "loop"} => gor'[g] \in {"listen", "loop"}
  PROVE  TokenInv'
BY DEF TokenInv, TokenTypeOK, Written, Late, tokenVars

\* The steps of one saver, by the state it gets.
LEMMA SaverStep ==
  ASSUME TokenInv, NEW g \in Reqs, NEW s \in SaverStates(issued'),
         saver' = [saver EXCEPT ![g] = s], issued' \in Nat, issued' >= issued
  PROVE  /\ saver' \in [Reqs -> SaverStates(issued')] /\ saver'[g] = s
         /\ \A h \in Reqs : h # g => saver'[h] = saver[h]
<1>1. saver \in [Reqs -> SaverStates(issued)] /\ issued \in Nat
  BY DEF TokenInv, TokenTypeOK, SaverStates
<1>2. SaverStates(issued) \subseteq SaverStates(issued')
  BY <1>1 DEF SaverStates
<1> QED
  BY <1>1, <1>2

\* Moving a saver on keeps its token.
LEMMA SavesStep ==
  ASSUME TokenInv, NEW g \in Reqs, UNCHANGED issued,
         NEW pc \in {"asking", "sleep", "write", "end"}, Saves(g, pc)
  PROVE  /\ saver' \in [Reqs -> SaverStates(issued')]
         /\ saver'[g].pc = pc /\ saver'[g].token = saver[g].token
         /\ \A h \in Reqs : h # g => saver'[h] = saver[h]
<1> DEFINE s == [saver[g] EXCEPT !.pc = pc]
<1>1. saver \in [Reqs -> SaverStates(issued)] /\ issued \in Nat
  BY DEF TokenInv, TokenTypeOK, SaverStates
<1>2. s \in SaverStates(issued) /\ s.pc = pc /\ s.token = saver[g].token
  BY <1>1 DEF SaverStates
<1>3. saver' = [saver EXCEPT ![g] = s]
  BY DEF Saves
<1> HIDE DEF s
<1> QED
  BY <1>1, <1>2, <1>3

LEMMA TokenStep == PanelInv /\ TokenInv /\ [TNext]_<<vars, tokenVars>> => TokenInv'
<1> SUFFICES ASSUME PanelInv, TokenInv, [TNext]_<<vars, tokenVars>> PROVE TokenInv'
    OBVIOUS
<1> USE DEF vars, botVars, Saver, Beside
<1>t. /\ TypeOK /\ SpawnedDone /\ Written /\ issued \in Nat /\ file \in 0..issued
      /\ spoilt \in BOOLEAN
      /\ saver \in [Reqs -> SaverStates(issued)]
      /\ gor \in [Reqs -> {"none", "auth", "listen", "loop"}]
      /\ \A g \in Reqs : saver[g].pc = "sleep" => gor[g] \in {"listen", "loop"}
      /\ \A g \in Reqs : saver[g].pc \in {"save", "write"} => saver[g].token # 0
  BY DEF PanelInv, TypeOK, TokenInv, TokenTypeOK, SaverStates
<1>1. CASE UNCHANGED tokenVars /\ gor' = gor
  BY <1>1, <1>t, TokenBeside DEF Late
<1>2. ASSUME NEW r \in Reqs, Spawn(r), UNCHANGED tokenVars PROVE TokenInv'
  <2>1. gor[r] = "none" /\ gor' = [gor EXCEPT ![r] = "auth"]
    BY <1>2, <1>t DEF Spawn, At, SpawnedDone
  <2> QED
    BY <1>2, <1>t, <2>1, TokenBeside DEF Late
<1>3. ASSUME NEW g \in Reqs, ListenOK(g), UNCHANGED tokenVars PROVE TokenInv'
  <2>1. gor[g] = "listen" /\ gor' = [gor EXCEPT ![g] = "loop"]
    BY <1>3 DEF ListenOK
  <2> QED
    BY <1>3, <1>t, <2>1, TokenBeside DEF Late
<1>4. ASSUME NEW g \in Reqs, SignedIn(g) PROVE TokenInv'
  <2>1. /\ gor[g] = "auth" /\ gor' = [gor EXCEPT ![g] = "listen"]
        /\ saver[g].pc = "end" /\ UNCHANGED tokenVars
    BY <1>4 DEF SignedIn, AuthOK
  <2> QED
    BY <1>t, <2>1, TokenBeside DEF Late
<1>5. ASSUME NEW g \in Reqs, LoadToken(g) PROVE TokenInv'
  <2>1. /\ gor[g] = "auth" /\ gor' = [gor EXCEPT ![g] = "listen"]
        /\ file # 0 /\ Saves(g, "sleep") /\ UNCHANGED <<file, issued, spoilt>>
    BY <1>5 DEF LoadToken, AuthOK
  <2>2. /\ saver' \in [Reqs -> SaverStates(issued')] /\ saver'[g].pc = "sleep"
        /\ \A h \in Reqs : h # g => saver'[h] = saver[h] /\ gor'[h] = gor[h]
        /\ gor'[g] = "listen"
    BY <1>t, <2>1, SavesStep
  <2>3. TokenTypeOK' /\ Written'
    BY <1>t, <2>1, <2>2 DEF TokenTypeOK, Written, SaverStates
  <2>4. \A h \in Reqs : /\ saver'[h].pc = "sleep" => gor'[h] \in {"listen", "loop"}
                        /\ saver'[h].pc \in {"save", "write"} => saver'[h].token # 0
    BY <1>t, <2>2
  <2> QED
    BY <2>3, <2>4 DEF TokenInv
\* The steps of a saver that leave the goroutines of the starts alone.
<1>6. ASSUME NEW g \in Reqs, gor' = gor, issued' \in Nat,
             saver' \in [Reqs -> SaverStates(issued')],
             \A h \in Reqs : h # g => saver'[h] = saver[h],
             saver'[g].pc # "sleep",
             saver'[g].pc \in {"save", "write"} => saver'[g].token # 0,
             file' \in 0..issued', spoilt' \in BOOLEAN, Written'
      PROVE  TokenInv'
  <2>1. TokenTypeOK'
    BY <1>6 DEF TokenTypeOK, SaverStates
  <2>2. \A h \in Reqs : /\ saver'[h].pc = "sleep" => gor'[h] \in {"listen", "loop"}
                        /\ saver'[h].pc \in {"save", "write"} => saver'[h].token # 0
    BY <1>6, <1>t
  <2> QED
    BY <1>6, <2>1, <2>2 DEF TokenInv
<1>7. ASSUME NEW g \in Reqs, RequestToken(g) PROVE TokenInv'
  <2>1. /\ saver[g].pc = "none" /\ gor' = gor
        /\ Saves(g, "asking") /\ UNCHANGED <<file, issued, spoilt>>
    BY <1>7 DEF RequestToken
  <2>2. /\ saver' \in [Reqs -> SaverStates(issued')] /\ saver'[g].pc = "asking"
        /\ \A h \in Reqs : h # g => saver'[h] = saver[h]
    BY <2>1, SavesStep
  <2>3. Written'
    BY <1>t, <2>1, <2>2 DEF Written, Late
  <2> QED
    BY <1>6, <1>t, <2>1, <2>2, <2>3
<1>8. ASSUME NEW g \in Reqs, Issue(g) PROVE TokenInv'
  <2> DEFINE s == [pc |-> "save", token |-> issued + 1]
  <2>1. /\ saver[g].pc \in {"asking", "sleep"} /\ gor' = gor
        /\ saver' = [saver EXCEPT ![g] = s] /\ issued' = issued + 1
        /\ UNCHANGED <<file, spoilt>>
    BY <1>8 DEF Issue
  <2>2. /\ s \in SaverStates(issued') /\ s.pc = "save" /\ s.token # 0
        /\ issued' \in Nat /\ issued' >= issued
    BY <1>t, <2>1 DEF SaverStates
  <2> HIDE DEF s
  <2>3. /\ saver' \in [Reqs -> SaverStates(issued')] /\ saver'[g] = s
        /\ \A h \in Reqs : h # g => saver'[h] = saver[h]
    BY <1>t, <2>1, <2>2, SaverStep
  <2>4. Written'
    BY <1>t, <2>1, <2>2, <2>3 DEF Written, Late
  <2>5. issued' \in Nat /\ file' \in 0..issued' /\ spoilt' \in BOOLEAN
    BY <1>t, <2>1
  <2> QED
    BY <1>6, <2>1, <2>2, <2>3, <2>4, <2>5
<1>9. ASSUME NEW g \in Reqs, RefreshFails(g) PROVE TokenInv'
  <2>1. /\ saver[g].pc = "sleep" /\ gor[g] \in {"listen", "loop"} /\ gor' = gor
        /\ Saves(g, "end") /\ UNCHANGED <<file, issued, spoilt>>
    BY <1>9, <1>t DEF RefreshFails
  <2>2. /\ saver' \in [Reqs -> SaverStates(issued')] /\ saver'[g].pc = "end"
        /\ \A h \in Reqs : h # g => saver'[h] = saver[h]
    BY <2>1, SavesStep
  <2>3. Written'
    BY <1>t, <2>1, <2>2 DEF Written, Late
  <2> QED
    BY <1>6, <1>t, <2>1, <2>2, <2>3
<1>10. ASSUME NEW g \in Reqs, Truncate(g) PROVE TokenInv'
  <2>1. CASE file' = 0 /\ Saves(g, "write") /\ UNCHANGED spoilt
    <3>1. saver[g].pc = "save" /\ gor' = gor /\ UNCHANGED issued /\ saver[g].token # 0
      BY <1>10, <1>t DEF Truncate
    <3>2. /\ saver' \in [Reqs -> SaverStates(issued')] /\ saver'[g].pc = "write"
          /\ saver'[g].token = saver[g].token
          /\ \A h \in Reqs : h # g => saver'[h] = saver[h]
      BY <2>1, <3>1, SavesStep
    <3>3. Written' /\ file' \in 0..issued'
      BY <1>t, <2>1, <3>1, <3>2 DEF Written
    <3> QED
      BY <1>6, <1>t, <2>1, <3>1, <3>2, <3>3
  <2>2. CASE spoilt' = TRUE /\ Saves(g, "end") /\ UNCHANGED file
    <3>1. gor' = gor /\ UNCHANGED issued
      BY <1>10 DEF Truncate
    <3>2. /\ saver' \in [Reqs -> SaverStates(issued')] /\ saver'[g].pc = "end"
          /\ \A h \in Reqs : h # g => saver'[h] = saver[h]
      BY <2>2, <3>1, SavesStep
    <3>3. Written' /\ spoilt' \in BOOLEAN
      BY <2>2 DEF Written
    <3> QED
      BY <1>6, <1>t, <2>2, <3>1, <3>2, <3>3
  <2> QED
    BY <1>10, <2>1, <2>2 DEF Truncate
<1>11. ASSUME NEW g \in Reqs, WriteOut(g) PROVE TokenInv'
  <2>1. /\ saver[g].pc = "write" /\ saver[g].token # 0 /\ gor' = gor
        /\ Saves(g, "end") /\ UNCHANGED issued
        /\ file' = saver[g].token \/ (spoilt' /\ file' = 0)
    BY <1>11, <1>t DEF WriteOut
  <2>2. spoilt' \in BOOLEAN
    BY <1>11, <1>t, Zenon DEF WriteOut
  <2>3. /\ saver' \in [Reqs -> SaverStates(issued')] /\ saver'[g].pc = "end"
        /\ \A h \in Reqs : h # g => saver'[h] = saver[h]
    BY <2>1, SavesStep
  <2>4. Written'
    BY <2>1 DEF Written
  <2>5. saver[g].token \in 0..issued /\ 0 \in 0..issued
    BY <1>t DEF SaverStates
  <2> QED
    BY <1>6, <1>t, <2>1, <2>2, <2>3, <2>4, <2>5
<1>12. ASSUME NEW r \in Reqs, UNCHANGED tokenVars,
              Arrive(r) \/ ListenFails(r) \/ RunBot(r) \/ (Handler(r) /\ ~Spawn(r))
       PROVE  TokenInv'
  <2>1. gor' = gor
    BY <1>12 DEF Arrive, ListenFails, RunBot, Handler, Lock, StartLocked, StopLocked,
                 StatusLocked, AddLog, ChatCheck, ChatDeref
  <2> QED
    BY <1>1, <1>12, <2>1
<1>13. CASE Printed /\ UNCHANGED tokenVars
  BY <1>1, <1>13 DEF Printed
<1>14. ASSUME NEW r \in Reqs, RequestFails(r) PROVE TokenInv'
  BY <1>1, <1>14 DEF RequestFails, AuthFails
<1>15. CASE UNCHANGED <<vars, tokenVars>>
  BY <1>1, <1>15
<1> QED
  BY <1>2, <1>3, <1>4, <1>5, <1>7, <1>8, <1>9, <1>10, <1>11, <1>12, <1>13, <1>14, <1>15
  DEF TNext, Handler

-----------------------------------------------------------------------------
\* Every step under the module Tokens is one of the module Panel, or of a saver
\* beside it: what is proved of the panel holds with the token on disk.
LEMMA TokenStepsArePanels == [TNext]_<<vars, tokenVars>> => [Next]_vars
BY DEF TNext, Next, LoadToken, RequestToken, RequestFails, Issue, RefreshFails,
       Truncate, WriteOut, SignedIn, Beside

THEOREM ImplementsPanel == TSpec => Spec
<1>1. TInit => Init
  BY DEF TInit
<1> QED
  BY <1>1, TokenStepsArePanels, PTL DEF TSpec, Spec

\* Once a start is past its sign-in, token.json holds a token that parses
\* unless a save is half done, for any number of starts.
THEOREM TokenStaysOnDisk == TSpec => []TokenKept
<1>1. TokenInv => TokenKept
  BY DEF TokenInv, Written, Late, TokenKept
<1>2. TSpec => []PanelInv
  BY ImplementsPanel, PanelInvariant, PTL
<1> QED
  BY <1>1, <1>2, TokenInit, TokenStep, PTL DEF TSpec
=============================================================================
