--------------------------- MODULE SchematicProofs --------------------------
(***************************************************************************)
(* The schematic builder, for any schematics, origins, layers, commands    *)
(* and overlapping sessions, and every interleaving of a command and the   *)
(* tickers: its types, the ghosts it holds for sent, the printer told to   *)
(* stop, and the layer it has placed when it ends by itself.               *)
(***************************************************************************)
EXTENDS Schematic, TLAPS

USE SchematicAssumption

Places == Int \X Layers

CmdPC == {"idle", "clear", "drop", "swap", "rest", "take", "hide", "seek"}
CmdOps == {"none", "load", "layer", "reset", "clear", "ghost", "origin", "next",
           "start", "stop"}
CmdRec == [pc : CmdPC, op : CmdOps, arg : Int, file : Files \cup {NoFile},
           at : Places]

\* Where a command is says which it is, and what is loaded: only clear leaves
\* the origin set with nothing loaded, until its last step.
CmdOK ==
  /\ cmd \in CmdRec
  /\ cmd.pc \in {"clear", "drop"} =>
       cmd.op \in {"load", "layer", "reset", "clear", "ghost"}
  /\ cmd.pc = "swap" => cmd.op \in {"load", "clear"}
  /\ cmd.pc = "rest" => cmd.op \in {"load", "layer", "reset", "clear"}
  /\ cmd.op = "layer" => cmd.arg \in Layers
  /\ cmd.op = "load" => cmd.file \in Files
  /\ cmd.pc \in {"take", "hide", "seek"} => loaded # NoFile

OriginLoaded ==
  originSet => loaded # NoFile \/ (cmd.pc = "rest" /\ cmd.op = "clear")

SchemOK ==
  /\ loaded \in Files \cup {NoFile} /\ origin \in Origins \cup {0}
  /\ originSet \in BOOLEAN /\ currentIdx \in Nat /\ currentLayer \in Layers

GhostOK ==
  /\ ghostOn \in BOOLEAN
  /\ ghostSent \subseteq Places /\ shown \subseteq Places

\* The tickers of the sessions still to come are off.
TickRec == [pc : TickPC, i : Nat, at : Places]

TickOK ==
  /\ tick \in [Tickers -> TickRec]
  /\ \A t \in Tickers : t > sessions => tick[t].pc = "off"

RestOK ==
  /\ printing \in BOOLEAN /\ ncmds \in 0..MaxCmds
  /\ sessions \in Tickers /\ viewer \in {"client", "none"}
  /\ run \in Seq(Nat) /\ clean \in BOOLEAN
  /\ late \in [Tickers -> Nat \cup {-1}] /\ panicked \in BOOLEAN

\* A mark is followed by its show, and the marks hidden are dropped next.
Shown ==
  /\ orphans \subseteq ghostSent
  /\ cmd.pc # "drop" =>
       \A g \in ghostSent \ orphans :
         g \in shown \/ \E t \in Tickers : tick[t].pc = "show" /\ tick[t].at = g

\* A stopped printer is not due, so a ticker places what it is at and no more.
Stopped ==
  \A t \in Tickers :
    /\ late[t] <= 1
    /\ late[t] >= 0 => ~printing
    /\ late[t] = 1 => tick[t].pc \notin {"place", "turn"}

SchemInv ==
  /\ CmdOK /\ OriginLoaded /\ SchemOK /\ GhostOK /\ TickOK /\ RestOK
  /\ Shown /\ Stopped

-----------------------------------------------------------------------------
\* A block of what is loaded, and where it goes.
LEMMA BlockIs ==
  ASSUME SchemOK, loaded # NoFile
  PROVE  /\ Len0 \in Nat
         /\ \A i \in Nat : i < Len0 => /\ Block(i) \in [x : Int, y : Layers]
                                       /\ At(i) \in Places
<1>1. Blocks[loaded] \in Seq([x : Int, y : Layers])
  BY DEF SchemOK
<1>2. Len0 \in Nat
  BY <1>1 DEF Len0
<1>3. ASSUME NEW i \in Nat, i < Len0
      PROVE  Block(i) \in [x : Int, y : Layers]
  <2>1. i + 1 \in 1..Len(Blocks[loaded])
    BY <1>1, <1>2, <1>3 DEF Len0
  <2>2. ASSUME NEW T, NEW B \in Seq(T), i + 1 \in 1..Len(B)
        PROVE  B[i + 1] \in T
    BY <2>2
  <2> QED BY <1>1, <2>1, <2>2 DEF Block
<1>4. origin \in Int
  BY DEF SchemOK
<1>5. ASSUME NEW i \in Nat, i < Len0  PROVE At(i) \in Places
  BY <1>3, <1>4, <1>5 DEF At, Places
<1> QED BY <1>2, <1>3, <1>5

\* A ticker moves, and the others stay where they are.
LEMMA OneMoves ==
  ASSUME TickOK, RestOK, NEW t \in Tickers, tick[t].pc # "off",
         NEW r \in TickRec, tick' = [tick EXCEPT ![t] = r],
         sessions' = sessions
  PROVE  /\ TickOK' /\ tick'[t] = r
         /\ \A u \in Tickers \ {t} : tick'[u] = tick[u]
<1>1. tick' \in [Tickers -> TickRec]
  BY DEF TickOK
<1>2. tick'[t] = r /\ \A u \in Tickers \ {t} : tick'[u] = tick[u]
  BY DEF TickOK
<1>3. ASSUME NEW u \in Tickers, u > sessions'  PROVE tick'[u].pc = "off"
  BY <1>2, <1>3 DEF TickOK
<1> QED BY <1>1, <1>2, <1>3 DEF TickOK

LEMMA RecordsAre ==
  /\ Idle \in TickRec /\ Off \in TickRec /\ NoCmd \in CmdRec
  /\ Idle.pc = "idle" /\ Off.pc = "off" /\ NoCmd.pc = "idle"
  /\ NoCmd.op = "none"
  /\ \A pc \in TickPC, i \in Nat :
       /\ [Idle EXCEPT !.pc = pc] \in TickRec
       /\ [Idle EXCEPT !.pc = pc].pc = pc
       /\ [Idle EXCEPT !.pc = pc, !.i = i] \in TickRec
       /\ [Idle EXCEPT !.pc = pc, !.i = i].pc = pc
<1>1. <<0, 0>> \in Places
  BY DEF Places
<1>2. Idle \in TickRec /\ Off \in TickRec /\ Idle.pc = "idle" /\ Off.pc = "off"
  BY <1>1 DEF Idle, Off, TickRec, TickPC
<1>3. NoCmd \in CmdRec /\ NoCmd.pc = "idle" /\ NoCmd.op = "none"
  BY <1>1 DEF NoCmd, CmdRec, CmdPC, CmdOps
<1>4. ASSUME NEW pc \in TickPC, NEW i \in Nat
      PROVE  /\ [Idle EXCEPT !.pc = pc] \in TickRec
             /\ [Idle EXCEPT !.pc = pc].pc = pc
             /\ [Idle EXCEPT !.pc = pc, !.i = i] \in TickRec
             /\ [Idle EXCEPT !.pc = pc, !.i = i].pc = pc
  BY <1>2 DEF TickRec
<1> QED BY <1>2, <1>3, <1>4

-----------------------------------------------------------------------------
LEMMA SchemInit == Init => SchemInv
<1> SUFFICES ASSUME Init PROVE SchemInv
  OBVIOUS
<1> USE DEF Init
<1>1. CmdOK /\ OriginLoaded
  BY RecordsAre DEF CmdOK, OriginLoaded
<1>2. SchemOK /\ GhostOK
  BY DEF SchemOK, GhostOK
<1>3. \A t \in Tickers : tick[t].pc \in {"idle", "off"} /\ (t > 1 => tick[t].pc = "off")
  <2> SUFFICES ASSUME NEW t \in Tickers
               PROVE  tick[t].pc \in {"idle", "off"} /\ (t > 1 => tick[t].pc = "off")
    OBVIOUS
  <2>1. tick[t] = IF t = 1 THEN Idle ELSE Off
    OBVIOUS
  <2>2. t \in Nat
    BY DEF Tickers
  <2>3. CASE t = 1
    <3>1. tick[t] = Idle /\ ~(t > 1)
      BY <2>1, <2>3
    <3> QED BY <3>1, RecordsAre
  <2>4. CASE t # 1
    BY <2>1, <2>4, RecordsAre
  <2> QED BY <2>3, <2>4
<1>4. TickOK
  BY <1>3, RecordsAre DEF TickOK
<1>5. RestOK
  <2>1. run \in Seq(Nat)
    OBVIOUS
  <2>2. ncmds \in 0..MaxCmds /\ sessions \in Tickers
    BY DEF Tickers
  <2>3. late \in [Tickers -> Nat \cup {-1}]
    OBVIOUS
  <2> QED BY <2>1, <2>2, <2>3 DEF RestOK
<1>6. Shown /\ Stopped
  BY <1>3 DEF Shown, Stopped
<1> QED BY <1>1, <1>2, <1>4, <1>5, <1>6 DEF SchemInv

\* A ticker that shows nothing goes on with nothing else changed.
LEMMA OnlyTicks ==
  ASSUME SchemInv, NEW t \in Tickers, tick[t].pc \notin {"off", "show"},
         NEW r \in TickRec, tick' = [tick EXCEPT ![t] = r],
         r.pc \in {"place", "turn"} =>
           printing \/ tick[t].pc \in {"place", "turn"},
         UNCHANGED <<schemVars, ghostVars, printVars, envVars, cmd, panicked>>,
         run' \in Seq(Nat), clean' \in BOOLEAN
  PROVE  SchemInv'
<1> USE DEF SchemInv, schemVars, ghostVars, printVars, envVars
<1>1. /\ TickOK' /\ tick'[t] = r
      /\ \A u \in Tickers \ {t} : tick'[u] = tick[u]
  BY OneMoves
<1>2. CmdOK' /\ OriginLoaded' /\ SchemOK' /\ GhostOK' /\ RestOK'
  BY DEF CmdOK, OriginLoaded, SchemOK, GhostOK, RestOK
<1>3. Shown'
  BY <1>1 DEF Shown
<1>4. Stopped'
  BY <1>1 DEF Stopped, RestOK
<1> QED BY <1>1, <1>2, <1>3, <1>4

LEMMA TickKeeps ==
  ASSUME SchemInv, NEW t \in Tickers, TickStep(t) \/ TickerStops(t)
  PROVE  SchemInv'
<1> USE DEF SchemInv
<1>0. /\ tick \in [Tickers -> TickRec] /\ tick[t] \in TickRec
      /\ tick[t].i \in Nat /\ tick[t].at \in Places
      /\ run \in Seq(Nat) /\ clean \in BOOLEAN
  BY DEF TickOK, TickRec, RestOK
<1>a. ASSUME NEW pc \in TickPC
      PROVE  /\ [tick EXCEPT ![t].pc = pc] =
                  [tick EXCEPT ![t] = [tick[t] EXCEPT !.pc = pc]]
             /\ [tick[t] EXCEPT !.pc = pc] \in TickRec
             /\ [tick[t] EXCEPT !.pc = pc].pc = pc
  BY <1>0 DEF TickRec
<1>1. CASE TickStart(t)
  <2> DEFINE r == IF ghostOn THEN [Idle EXCEPT !.pc = "ghosts", !.i = currentIdx]
                             ELSE [Idle EXCEPT !.pc = "print"]
  <2>1. r \in TickRec /\ r.pc \in {"ghosts", "print"}
    BY RecordsAre DEF SchemOK, TickPC
  <2>2. /\ tick[t].pc = "idle" /\ tick' = [tick EXCEPT ![t] = r]
        /\ UNCHANGED <<schemVars, ghostVars, printVars, envVars, cmd, panicked>>
        /\ run' \in Seq(Nat) /\ clean' \in BOOLEAN
    BY <1>0, <1>1 DEF TickStart, TickAt, runVars
  <2> HIDE DEF r
  <2> QED BY <2>1, <2>2, OnlyTicks
<1>2. CASE GhostsEnd(t) \/ NotDue(t) \/ TickerStops(t)
  <2>1. PICK r \in {[Idle EXCEPT !.pc = "print"], Idle, Off} :
          /\ tick[t].pc \in {"ghosts", "print", "idle"}
          /\ tick' = [tick EXCEPT ![t] = r]
          /\ UNCHANGED <<schemVars, ghostVars, printVars, envVars, cmd, panicked>>
          /\ run' \in Seq(Nat) /\ clean' \in BOOLEAN
    BY <1>0, <1>2 DEF GhostsEnd, NotDue, TickerStops, TickAt, TickDone, runVars
  <2>2. r \in TickRec /\ r.pc \in {"print", "idle", "off"}
    <3>1. "print" \in TickPC /\ 0 \in Nat
      BY DEF TickPC
    <3>2. /\ [Idle EXCEPT !.pc = "print"] \in TickRec
          /\ [Idle EXCEPT !.pc = "print"].pc = "print"
      BY <3>1, RecordsAre
    <3> DEFINE p == [Idle EXCEPT !.pc = "print"]
    <3>3. r = p \/ r = Idle \/ r = Off
      BY <2>1
    <3>4. p \in TickRec /\ p.pc = "print"
      BY <3>2
    <3> HIDE DEF p
    <3> QED BY <3>3, <3>4, RecordsAre
  <2> QED BY <2>1, <2>2, OnlyTicks
<1>3. CASE Due(t)
  <2>1. /\ tick[t].pc = "print" /\ printing
        /\ tick' = [tick EXCEPT ![t] = [tick[t] EXCEPT !.pc = "place"]]
        /\ UNCHANGED <<schemVars, ghostVars, printVars, envVars, cmd, panicked>>
    BY <1>3, <1>a DEF Due, TickAt, TickGoes, TickPC, PlacePC
  <2>2. run' \in Seq(Nat) /\ clean' \in BOOLEAN
    <3>1. << >> \in Seq(Nat)
      OBVIOUS
    <3>2. (run' = run /\ clean' = clean) \/ (clean' = FALSE /\ run' = << >>)
      BY <1>3 DEF Due, runVars
    <3> QED BY <1>0, <3>1, <3>2
  <2>3. [tick[t] EXCEPT !.pc = "place"] \in TickRec
    BY <1>a DEF TickPC, PlacePC
  <2> QED BY <2>1, <2>2, <2>3, OnlyTicks
<1>4. CASE PlaceSome(t)
  <2> DEFINE r == [pc |-> "turn", i |-> currentIdx,
                   at |-> <<Block(currentIdx).x, Block(currentIdx).y>>]
  <2>1. loaded # NoFile /\ currentIdx < Len0 /\ currentIdx \in Nat
    BY <1>4, BlockIs DEF PlaceSome, Done, NothingLeft, SchemOK
  <2>2. r \in TickRec /\ r.pc = "turn"
    BY <2>1, BlockIs DEF TickRec, TickPC, PlacePC, Places
  <2>3. /\ tick[t].pc = "place" /\ tick' = [tick EXCEPT ![t] = r]
        /\ UNCHANGED <<schemVars, ghostVars, printVars, envVars, cmd, panicked>>
        /\ run' \in Seq(Nat) /\ clean' \in BOOLEAN
    BY <1>0, <1>4 DEF PlaceSome, Reads, TickAt, runVars
  <2> HIDE DEF r
  <2> QED BY <2>2, <2>3, OnlyTicks
<1>5. CASE GhostMark(t)
  <2>1. PICK i \in tick[t].i..(Len0 - 1) :
          /\ ghostSent' = ghostSent \cup {At(i)}
          /\ tick' = [tick EXCEPT ![t] = [pc |-> "show", i |-> i, at |-> At(i)]]
    BY <1>5 DEF GhostMark
  <2>2. /\ tick[t].pc = "ghosts" /\ loaded # NoFile
        /\ UNCHANGED <<schemVars, ghostOn, shown, orphans, printVars, runVars,
                       envVars, cmd, panicked>>
    BY <1>5 DEF GhostMark, TickAt
  <2>3. At(i) \in Places /\ i \in Nat
    BY <1>0, <2>1, <2>2, BlockIs
  <2>4. [pc |-> "show", i |-> i, at |-> At(i)] \in TickRec
    BY <2>3 DEF TickRec, TickPC
  <2>5. /\ TickOK' /\ tick'[t] = [pc |-> "show", i |-> i, at |-> At(i)]
        /\ \A u \in Tickers \ {t} : tick'[u] = tick[u]
    BY <2>1, <2>2, <2>4, OneMoves DEF envVars
  <2>6. CmdOK' /\ OriginLoaded' /\ SchemOK' /\ RestOK'
    BY <2>2 DEF CmdOK, OriginLoaded, SchemOK, RestOK, schemVars, printVars,
                runVars, envVars
  <2>7. GhostOK'
    BY <2>1, <2>2, <2>3 DEF GhostOK
  <2>8. Shown'
    BY <2>1, <2>2, <2>5 DEF Shown
  <2>9. Stopped'
    BY <2>2, <2>5 DEF Stopped, printVars
  <2> QED BY <2>5, <2>6, <2>7, <2>8, <2>9
<1>6. CASE GhostShow(t)
  <2>1. PICK pc \in {"ghosts", "print"} :
          tick' = [tick EXCEPT ![t] = [Idle EXCEPT !.pc = pc,
                     !.i = IF pc = "ghosts" THEN tick[t].i + 1 ELSE 0]]
    BY <1>6 DEF GhostShow
  <2>2. /\ tick[t].pc = "show"
        /\ UNCHANGED <<schemVars, ghostOn, ghostSent, printVars, runVars,
                       envVars, cmd, panicked>>
    BY <1>6 DEF GhostShow, TickAt
  <2> DEFINE n == IF pc = "ghosts" THEN tick[t].i + 1 ELSE 0
             r == [Idle EXCEPT !.pc = pc, !.i = n]
  <2>3. n \in Nat /\ pc \in TickPC
    BY <1>0 DEF TickPC
  <2> HIDE DEF n
  <2>4. r \in TickRec /\ r.pc = pc
    BY <2>3, RecordsAre
  <2>5. tick' = [tick EXCEPT ![t] = r]
    BY <2>1 DEF n
  <2> HIDE DEF r
  <2>6. /\ TickOK' /\ tick'[t].pc = pc
        /\ \A u \in Tickers \ {t} : tick'[u] = tick[u]
    BY <2>2, <2>4, <2>5, OneMoves DEF envVars
  <2>7. \/ shown' = shown \cup {tick[t].at} /\ orphans' = orphans \ {tick[t].at}
        \/ shown' = shown /\ orphans' = orphans \cup ({tick[t].at} \cap ghostSent)
    BY <1>6 DEF GhostShow
  <2>8. CmdOK' /\ OriginLoaded' /\ SchemOK' /\ RestOK'
    BY <2>2 DEF CmdOK, OriginLoaded, SchemOK, RestOK, schemVars, printVars,
                runVars, envVars
  <2>9. GhostOK'
    BY <1>0, <2>2, <2>7 DEF GhostOK
  <2>10. Shown'
    BY <2>2, <2>6, <2>7 DEF Shown
  <2>11. Stopped'
    BY <2>1, <2>2, <2>6 DEF Stopped, printVars
  <2> QED BY <2>6, <2>8, <2>9, <2>10, <2>11
<1>7. CASE PlaceDone(t)
  <2>1. /\ tick[t].pc = "place" /\ tick' = [tick EXCEPT ![t] = Idle]
        /\ printing' = FALSE
        /\ late' = [u \in Tickers |-> IF late[u] < 0 THEN 0 ELSE late[u]]
        /\ UNCHANGED <<schemVars, ghostVars, runVars, envVars, cmd, panicked>>
    BY <1>7 DEF PlaceDone, TickAt, TickDone, ToldToStop
  <2>2. /\ TickOK' /\ tick'[t].pc = "idle"
        /\ \A u \in Tickers \ {t} : tick'[u] = tick[u]
    BY <2>1, RecordsAre, OneMoves DEF envVars
  <2>3. late' \in [Tickers -> Nat \cup {-1}]
    BY <2>1 DEF RestOK
  <2>4. CmdOK' /\ OriginLoaded' /\ SchemOK' /\ GhostOK' /\ RestOK'
    BY ZenonT(60), <2>1, <2>3 DEF CmdOK, OriginLoaded, SchemOK, GhostOK, RestOK, schemVars,
                      ghostVars, runVars, envVars
  <2>5. Shown'
    BY <2>1, <2>2 DEF Shown, ghostVars
  <2>6. Stopped'
    BY <2>1, <2>2 DEF Stopped, RestOK
  <2> QED BY <2>2, <2>4, <2>5, <2>6
<1>8. CASE PlaceTurn(t)
  <2>1. /\ tick[t].pc = "turn" /\ loaded # NoFile /\ currentIdx' = currentIdx + 1
        /\ UNCHANGED <<loaded, origin, originSet, currentLayer, ghostVars,
                       printVars, runVars, envVars, cmd, panicked>>
    BY <1>8 DEF PlaceTurn, TickAt, OneOn
  <2>2. PICK r \in TickRec : /\ tick' = [tick EXCEPT ![t] = r]
                             /\ r.pc \in {"idle", "turn"}
    <3>1. CASE OneOn >= Len0
      BY <1>8, <3>1, RecordsAre DEF PlaceTurn, TickDone
    <3>2. CASE ~(OneOn >= Len0)
      <4>1. OneOn \in Nat /\ OneOn < Len0
        BY <2>1, <3>2, BlockIs DEF OneOn, SchemOK
      <4>2. [pc |-> "turn", i |-> OneOn, at |-> <<Block(OneOn).x, Block(OneOn).y>>]
              \in TickRec
        BY <2>1, <4>1, BlockIs DEF TickRec, TickPC, PlacePC, Places
      <4> QED BY <1>8, <3>2, <4>2 DEF PlaceTurn, Reads
    <3> QED BY <3>1, <3>2
  <2>3. /\ TickOK' /\ tick'[t] = r
        /\ \A u \in Tickers \ {t} : tick'[u] = tick[u]
    BY <2>1, <2>2, OneMoves DEF envVars
  <2>4. CmdOK' /\ OriginLoaded' /\ SchemOK' /\ GhostOK' /\ RestOK'
    BY <2>1 DEF CmdOK, OriginLoaded, SchemOK, GhostOK, RestOK, ghostVars,
                printVars, runVars, envVars
  <2>5. Shown'
    BY <2>1, <2>3 DEF Shown, ghostVars
  <2>6. Stopped'
    BY <2>1, <2>3 DEF Stopped, printVars
  <2> QED BY <2>3, <2>4, <2>5, <2>6
<1>9. CASE PlaceBlock(t)
  <2> DEFINE r == [pc |-> "advance", i |-> 0,
                   at |-> <<origin + tick[t].at[1], tick[t].at[2]>>]
  <2>1. r \in TickRec /\ r.pc = "advance"
    <3>1. origin \in Int /\ tick[t].at[1] \in Int /\ tick[t].at[2] \in Layers
      BY <1>0 DEF SchemOK, Places
    <3> QED BY <3>1 DEF TickRec, TickPC, PlacePC, Places
  <2>2. /\ tick[t].pc = "turn" /\ tick' = [tick EXCEPT ![t] = r]
        /\ late' = [late EXCEPT ![t] = IF late[t] < 0 THEN late[t] ELSE late[t] + 1]
        /\ UNCHANGED <<schemVars, ghostVars, printing, clean, envVars, cmd, panicked>>
    BY <1>9 DEF PlaceBlock, TickAt
  <2> HIDE DEF r
  <2>3. /\ TickOK' /\ tick'[t] = r
        /\ \A u \in Tickers \ {t} : tick'[u] = tick[u]
    BY <2>1, <2>2, OneMoves DEF envVars
  <2>4. run' \in Seq(Nat)
    BY <1>0, <1>9 DEF PlaceBlock
  <2>5. /\ late \in [Tickers -> Nat \cup {-1}] /\ late' \in [Tickers -> Nat \cup {-1}]
        /\ \A u \in Tickers \ {t} : late'[u] = late[u]
        /\ late'[t] = IF late[t] < 0 THEN late[t] ELSE late[t] + 1
    BY <2>2 DEF RestOK
  <2>6. CmdOK' /\ OriginLoaded' /\ SchemOK' /\ GhostOK' /\ RestOK'
    BY <2>2, <2>4, <2>5 DEF CmdOK, OriginLoaded, SchemOK, GhostOK, RestOK,
       schemVars, ghostVars, envVars
  <2>7. Shown'
    BY <2>2, <2>3 DEF Shown, ghostVars
  <2>8. Stopped'
    <3>1. late[t] \in {-1, 0}
      BY <2>2, <2>5 DEF Stopped
    <3> QED BY <2>1, <2>2, <2>3, <2>5, <3>1 DEF Stopped
  <2> QED BY <2>3, <2>6, <2>7, <2>8
<1>10. CASE PlaceAdvance(t)
  <2>1. /\ tick[t].pc = "advance" /\ tick' = [tick EXCEPT ![t] = Idle]
        /\ ghostSent' = ghostSent \ {tick[t].at} /\ orphans' = orphans \ {tick[t].at}
        /\ currentIdx' = currentIdx + 1
        /\ UNCHANGED <<loaded, origin, originSet, currentLayer, ghostOn, shown,
                       printVars, runVars, envVars, cmd, panicked>>
    BY <1>10 DEF PlaceAdvance, TickAt, TickDone
  <2>2. /\ TickOK' /\ tick'[t].pc = "idle"
        /\ \A u \in Tickers \ {t} : tick'[u] = tick[u]
    BY <2>1, RecordsAre, OneMoves DEF envVars
  <2>3. CmdOK' /\ OriginLoaded' /\ SchemOK' /\ GhostOK' /\ RestOK'
    BY <2>1 DEF CmdOK, OriginLoaded, SchemOK, GhostOK, RestOK, printVars,
                runVars, envVars
  <2>4. Shown'
    BY <2>1, <2>2 DEF Shown
  <2>5. Stopped'
    BY <2>1, <2>2 DEF Stopped, printVars
  <2> QED BY <2>2, <2>3, <2>4, <2>5
<1>11. CASE TickPanics(t)
  <2>1. /\ UNCHANGED <<schemVars, ghostVars, printVars, runVars, envVars, tick, cmd>>
        /\ panicked' \in BOOLEAN
    BY <1>11 DEF TickPanics, TickAt, Panics
  <2> QED BY <2>1 DEF CmdOK, OriginLoaded, SchemOK, GhostOK, TickOK, RestOK,
             Shown, Stopped, schemVars, ghostVars, printVars, runVars, envVars
<1> QED
  BY <1>1, <1>2, <1>3, <1>4, <1>5, <1>6, <1>7, <1>8, <1>9, <1>10, <1>11
  DEF TickStep

-----------------------------------------------------------------------------
\* A step of the command leaves the tickers where they are.
LEMMA CommandKeeps ==
  ASSUME SchemInv, CmdStep
  PROVE  SchemInv'
<1> USE DEF SchemInv
<1>a. ASSUME NEW pc \in CmdPC, CmdGoes(pc)
      PROVE  /\ cmd' \in CmdRec /\ cmd'.pc = pc
             /\ cmd' = NoCmd \/ (cmd'.op = cmd.op /\ cmd'.arg = cmd.arg
                                 /\ cmd'.file = cmd.file)
             /\ pc # "idle" => cmd'.op = cmd.op /\ cmd'.arg = cmd.arg
                                 /\ cmd'.file = cmd.file
  <2>1. CASE pc = "idle"
    BY <1>a, <2>1, RecordsAre DEF CmdGoes
  <2>2. CASE pc # "idle"
    <3>1. cmd' = [cmd EXCEPT !.pc = pc] /\ cmd \in CmdRec
      BY <1>a, <2>2 DEF CmdGoes, CmdOK
    <3> QED BY <2>2, <3>1 DEF CmdRec
  <2> QED BY <2>1, <2>2
<1>0. << >> \in Seq(Nat)
  OBVIOUS
<1>1. CASE HideGhosts
  <2>1. /\ cmd.pc = "clear" /\ CmdGoes("drop") /\ shown' = shown \ ghostSent
        /\ UNCHANGED <<schemVars, ghostOn, ghostSent, orphans, printVars,
                       runVars, envVars, tick, panicked>>
    BY <1>1 DEF HideGhosts, CmdAt
  <2>2. cmd' \in CmdRec /\ cmd'.pc = "drop" /\ cmd'.op = cmd.op
        /\ cmd'.arg = cmd.arg /\ cmd'.file = cmd.file
    BY <1>a, <2>1 DEF CmdPC
  <2>3. CmdOK' /\ OriginLoaded' /\ GhostOK'
    BY <2>1, <2>2 DEF CmdOK, OriginLoaded, GhostOK, schemVars
  <2>4. Shown' /\ Stopped'
    BY <2>1, <2>2 DEF Shown, Stopped, printVars
  <2> QED BY <2>1, <2>3, <2>4 DEF SchemOK, TickOK, RestOK, schemVars, printVars,
             runVars, envVars
<1>2. CASE DropGhosts
  <2>1. PICK pc \in {"swap", "rest", "idle"} :
          /\ CmdGoes(pc)
          /\ pc = "swap" => cmd.op \in {"load", "clear"}
          /\ pc = "rest" => cmd.op \in {"layer", "reset"}
    <3>1. cmd.op \in {"load", "layer", "reset", "clear", "ghost"}
      BY <1>2 DEF DropGhosts, CmdAt, CmdOK
    <3>2. CmdGoes(CASE cmd.op \in {"load", "clear"}  -> "swap"
                    [] cmd.op \in {"layer", "reset"} -> "rest"
                    [] cmd.op = "ghost"              -> "idle")
      BY <1>2 DEF DropGhosts
    <3>3. CASE cmd.op \in {"load", "clear"}
      BY <3>2, <3>3
    <3>4. CASE cmd.op \in {"layer", "reset"}
      BY <3>2, <3>4
    <3>5. CASE cmd.op = "ghost"
      BY <3>2, <3>5
    <3> QED BY <3>1, <3>3, <3>4, <3>5
  <2>2. /\ cmd.pc = "drop" /\ ghostSent' = {} /\ orphans' = {}
        /\ UNCHANGED <<schemVars, ghostOn, shown, printVars, runVars, envVars,
                       tick, panicked>>
    BY <1>2 DEF DropGhosts, CmdAt, NoGhosts
  <2>3. /\ cmd' \in CmdRec /\ cmd'.pc = pc
        /\ cmd' = NoCmd \/ (cmd'.op = cmd.op /\ cmd'.arg = cmd.arg
                            /\ cmd'.file = cmd.file)
        /\ pc # "idle" => cmd'.op = cmd.op
    BY <1>a, <2>1 DEF CmdPC
  <2>4. CmdOK' /\ OriginLoaded'
    BY <2>1, <2>2, <2>3, RecordsAre DEF CmdOK, OriginLoaded, schemVars
  <2>5. GhostOK' /\ Shown' /\ Stopped'
    BY <2>2 DEF GhostOK, Shown, Stopped, printVars
  <2> QED BY <2>2, <2>4, <2>5 DEF SchemOK, TickOK, RestOK, schemVars, printVars,
             runVars, envVars
<1>3. CASE Swap
  <2>1. /\ cmd.pc = "swap" /\ CmdGoes("rest") /\ loaded' = cmd.file
        /\ clean' = FALSE /\ run' = << >>
        /\ UNCHANGED <<origin, originSet, currentIdx, currentLayer, ghostVars,
                       printVars, envVars, tick, panicked>>
    BY <1>3 DEF Swap, CmdAt, Unclean
  <2>2. cmd' \in CmdRec /\ cmd'.pc = "rest" /\ cmd'.op = cmd.op
        /\ cmd'.arg = cmd.arg /\ cmd'.file = cmd.file
    BY <1>a, <2>1 DEF CmdPC
  <2>3. CmdOK' /\ OriginLoaded'
    BY <2>1, <2>2 DEF CmdOK, OriginLoaded
  <2>4. cmd.file \in Files \cup {NoFile}
    BY DEF CmdOK, CmdRec
  <2>5. SchemOK' /\ RestOK'
    BY <1>0, <2>1, <2>4 DEF SchemOK, RestOK, printVars, envVars
  <2>6. GhostOK' /\ Shown' /\ Stopped'
    BY <2>1, <2>2 DEF GhostOK, Shown, Stopped, ghostVars, printVars
  <2> QED BY <2>1, <2>3, <2>5, <2>6 DEF TickOK, envVars
<1>4. CASE CmdRest
  <2>1. /\ cmd.pc = "rest" /\ CmdGoes("idle")
        /\ originSet' = (originSet /\ cmd.op \in {"layer", "reset"})
        /\ UNCHANGED <<loaded, origin, ghostVars, envVars, tick, panicked>>
    BY <1>4 DEF CmdRest, CmdAt, OriginLeft
  <2>2. cmd.op \in {"load", "layer", "reset", "clear"}
    BY <2>1 DEF CmdOK
  <2>3. cmd' = NoCmd
    BY <2>1 DEF CmdGoes
  <2>4. CmdOK' /\ OriginLoaded'
    BY <2>1, <2>2, <2>3, RecordsAre DEF CmdOK, OriginLoaded
  <2>5. currentLayer' \in Layers
    <3>1. currentLayer' = CASE cmd.op = "layer"             -> cmd.arg
                            [] cmd.op = "clear"             -> currentLayer
                            [] cmd.op \in {"load", "reset"} -> 0
      BY <1>4 DEF CmdRest
    <3> QED BY <2>2, <3>1 DEF SchemOK, CmdOK
  <2>6. /\ currentIdx' \in Nat /\ run' \in Seq(Nat) /\ clean' \in BOOLEAN
    <3>1. CASE cmd.op = "clear"
      BY <1>4, <3>1 DEF CmdRest, runVars, SchemOK, RestOK
    <3>2. CASE cmd.op # "clear"
      BY <1>0, <1>4, <3>2 DEF CmdRest, Restart
    <3> QED BY <3>1, <3>2
  <2>7. /\ \/ UNCHANGED <<printing, late>>
           \/ /\ printing' = FALSE
              /\ late' = [u \in Tickers |-> IF late[u] < 0 THEN 0 ELSE late[u]]
    BY <1>4 DEF CmdRest, printVars, ToldToStop
  <2>8. printing' \in BOOLEAN /\ late' \in [Tickers -> Nat \cup {-1}]
    <3>1. printing \in BOOLEAN /\ late \in [Tickers -> Nat \cup {-1}]
      BY DEF RestOK
    <3>2. [u \in Tickers |-> IF late[u] < 0 THEN 0 ELSE late[u]]
            \in [Tickers -> Nat \cup {-1}]
      BY <3>1
    <3> QED BY <2>7, <3>1, <3>2
  <2>9. SchemOK' /\ RestOK'
    BY <2>1, <2>5, <2>6, <2>8 DEF SchemOK, RestOK, envVars
  <2>10. GhostOK' /\ Shown'
    BY <2>1 DEF GhostOK, Shown, ghostVars
  <2>11. Stopped'
    BY <2>1, <2>7 DEF Stopped, RestOK
  <2> QED BY <2>1, <2>4, <2>9, <2>10, <2>11 DEF TickOK, envVars
<1>5. CASE NextTake
  <2>1. /\ cmd.pc = "take" /\ loaded # NoFile
        /\ UNCHANGED <<schemVars, ghostOn, shown, printVars, runVars, envVars,
                       tick, panicked>>
    BY <1>5 DEF NextTake, CmdAt, CmdOK
  <2>2. CASE NothingLeft
    <3>1. CmdGoes("seek") /\ UNCHANGED <<ghostSent, orphans>>
      BY <1>5, <2>2 DEF NextTake
    <3>2. cmd' \in CmdRec /\ cmd'.pc = "seek" /\ cmd'.op = cmd.op
          /\ cmd'.arg = cmd.arg /\ cmd'.file = cmd.file
      BY <1>a, <3>1 DEF CmdPC
    <3>3. CmdOK' /\ OriginLoaded'
      BY <2>1, <3>2 DEF CmdOK, OriginLoaded, schemVars
    <3>4. GhostOK' /\ Shown' /\ Stopped'
      BY <2>1, <3>1, <3>2 DEF GhostOK, Shown, Stopped, printVars
    <3> QED BY <2>1, <3>3, <3>4 DEF SchemOK, TickOK, RestOK, schemVars,
               printVars, runVars, envVars
  <2>3. CASE ~NothingLeft
    <3>1. /\ ghostSent' = ghostSent \ {At(currentIdx)}
          /\ orphans' = orphans \ {At(currentIdx)}
          /\ cmd' = [cmd EXCEPT !.pc = "hide", !.at = At(currentIdx)]
      BY <1>5, <2>3 DEF NextTake
    <3>2. At(currentIdx) \in Places
      BY <2>1, <2>3, BlockIs DEF NothingLeft, SchemOK
    <3>3. cmd' \in CmdRec /\ cmd'.pc = "hide" /\ cmd'.op = cmd.op
          /\ cmd'.arg = cmd.arg /\ cmd'.file = cmd.file
      BY <3>1, <3>2 DEF CmdOK, CmdRec, CmdPC
    <3>4. CmdOK' /\ OriginLoaded'
      BY <2>1, <3>3 DEF CmdOK, OriginLoaded, schemVars
    <3>5. GhostOK' /\ Shown' /\ Stopped'
      BY <2>1, <3>1, <3>3 DEF GhostOK, Shown, Stopped, printVars
    <3> QED BY <2>1, <3>4, <3>5 DEF SchemOK, TickOK, RestOK, schemVars,
               printVars, runVars, envVars
  <2> QED BY <2>2, <2>3
<1>6. CASE NextHide
  <2>1. /\ cmd.pc = "hide" /\ CmdGoes("seek")
        /\ shown' = shown \ {cmd.at}
        /\ orphans' = orphans \cup ({cmd.at} \cap ghostSent)
        /\ currentIdx' = currentIdx + 1 /\ clean' = FALSE /\ run' = << >>
        /\ UNCHANGED <<loaded, origin, originSet, currentLayer, ghostOn,
                       ghostSent, printVars, envVars, tick, panicked>>
    BY <1>6 DEF NextHide, CmdAt, Unclean
  <2>2. cmd' \in CmdRec /\ cmd'.pc = "seek" /\ cmd'.op = cmd.op
        /\ cmd'.arg = cmd.arg /\ cmd'.file = cmd.file
    BY <1>a, <2>1 DEF CmdPC
  <2>3. CmdOK' /\ OriginLoaded'
    BY <2>1, <2>2 DEF CmdOK, OriginLoaded
  <2>4. SchemOK' /\ RestOK'
    <3>1. SchemOK'
      BY <2>1 DEF SchemOK
    <3>2. run' \in Seq(Nat) /\ clean' \in BOOLEAN
      BY <1>0, <2>1
    <3> QED BY <2>1, <3>1, <3>2 DEF RestOK, printVars, envVars
  <2>5. GhostOK' /\ Shown' /\ Stopped'
    BY <2>1, <2>2 DEF GhostOK, Shown, Stopped, printVars
  <2> QED BY <2>1, <2>3, <2>4, <2>5 DEF TickOK, envVars
<1>7. CASE NextSeek
  <2>1. /\ cmd.pc = "seek"
        /\ UNCHANGED <<loaded, origin, originSet, currentLayer, ghostVars,
                       printVars, envVars, tick, panicked>>
        /\ \/ CmdGoes("idle") /\ UNCHANGED <<currentIdx, runVars>>
           \/ /\ currentIdx' = currentIdx + 1 /\ cmd' = cmd
              /\ clean' = FALSE /\ run' = << >>
    BY <1>7 DEF NextSeek, CmdAt, Unclean
  <2>2. cmd' = NoCmd \/ cmd' = cmd
    BY <2>1 DEF CmdGoes
  <2>3. CmdOK' /\ OriginLoaded'
    BY <2>1, <2>2, RecordsAre DEF CmdOK, OriginLoaded
  <2>4. SchemOK' /\ RestOK'
    <3>1. SchemOK'
      BY <2>1 DEF SchemOK
    <3>2. run' \in Seq(Nat) /\ clean' \in BOOLEAN
      BY <1>0, <2>1 DEF RestOK, runVars
    <3> QED BY <2>1, <3>1, <3>2 DEF RestOK, printVars, envVars
  <2>5. GhostOK' /\ Shown' /\ Stopped'
    BY ZenonT(60), <2>1, <2>2, RecordsAre DEF GhostOK, Shown, Stopped, ghostVars, printVars
  <2> QED BY <2>1, <2>3, <2>4, <2>5 DEF TickOK, envVars
<1>8. CASE NextPanics
  <2>1. /\ UNCHANGED <<schemVars, ghostVars, printVars, runVars, envVars, tick, cmd>>
        /\ panicked' \in BOOLEAN
    BY <1>8 DEF NextPanics, CmdAt, Panics
  <2> QED BY <2>1 DEF CmdOK, OriginLoaded, SchemOK, GhostOK, TickOK, RestOK,
             Shown, Stopped, schemVars, ghostVars, printVars, runVars, envVars
<1> QED BY <1>1, <1>2, <1>3, <1>4, <1>5, <1>6, <1>7, <1>8 DEF CmdStep

\* A command that begins finds none under way.
LEMMA BeginKeeps ==
  ASSUME SchemInv,
         \/ ClearingCommand \/ NextBlock \/ Ghosts \/ PrinterStart \/ PrinterStop
         \/ \E o \in Origins : SetOrigin(o)
  PROVE  SchemInv'
<1> USE DEF SchemInv
<1> DEFINE Begins ==
      /\ cmd.pc = "idle" /\ ncmds' \in 0..MaxCmds
      /\ UNCHANGED <<sessions, viewer, tick, panicked>>
<1>0. ASSUME NEW op \in CmdOps, NEW arg \in Int, NEW file \in Files \cup {NoFile},
             NEW pc \in CmdPC, Command(op, arg, file, pc)
      PROVE  /\ Begins /\ cmd' \in CmdRec /\ cmd'.pc = pc
             /\ pc = "idle" => cmd' = NoCmd
             /\ pc # "idle" => cmd'.op = op /\ cmd'.arg = arg /\ cmd'.file = file
  <2>1. Begins
    BY <1>0 DEF Command, RestOK
  <2>2. CASE pc = "idle"
    BY <1>0, <2>1, <2>2, RecordsAre DEF Command
  <2>3. CASE pc # "idle"
    <3>1. cmd' = [NoCmd EXCEPT !.pc = pc, !.op = op, !.arg = arg, !.file = file]
      BY <1>0, <2>3 DEF Command
    <3>2. NoCmd \in CmdRec
      BY RecordsAre
    <3> QED BY <2>1, <2>3, <3>1, <3>2 DEF CmdRec
  <2> HIDE DEF Begins
  <2> QED BY <2>2, <2>3
<1>1. CASE ClearingCommand
  <2>1. /\ Begins /\ cmd' \in CmdRec /\ cmd'.pc = "clear"
        /\ cmd'.op \in {"load", "layer", "reset", "clear", "ghost"}
        /\ cmd'.op = "layer" => cmd'.arg \in Layers
        /\ cmd'.op = "load" => cmd'.file \in Files
    <3>0. /\ "clear" \in CmdPC /\ 0 \in Int /\ NoFile \in Files \cup {NoFile}
          /\ {"load", "layer", "reset", "clear", "ghost"} \subseteq CmdOps
      BY DEF CmdPC, CmdOps
    <3> HIDE DEF Begins
    <3> HIDE DEF SchemInv
    <3>1. ASSUME NEW f \in Files, Command("load", 0, f, "clear")
          PROVE  /\ Begins /\ cmd' \in CmdRec /\ cmd'.pc = "clear"
                 /\ cmd'.op = "load" /\ cmd'.file = f
      <4>1. f \in Files \cup {NoFile} /\ "load" \in CmdOps
        BY <3>0
      <4> QED BY <1>0, <3>0, <3>1, <4>1
    <3>2. ASSUME NEW y \in Layers, Command("layer", y, NoFile, "clear")
          PROVE  /\ Begins /\ cmd' \in CmdRec /\ cmd'.pc = "clear"
                 /\ cmd'.op = "layer" /\ cmd'.arg = y
      BY <1>0, <3>0, <3>2
    <3>3. ASSUME NEW op \in {"reset", "clear", "ghost"}, Command(op, 0, NoFile, "clear")
          PROVE  /\ Begins /\ cmd' \in CmdRec /\ cmd'.pc = "clear" /\ cmd'.op = op
      BY <1>0, <3>0, <3>3
    <3> QED BY <1>1, <3>1, <3>2, <3>3 DEF ClearingCommand
  <2>2. /\ UNCHANGED <<schemVars, ghostSent, shown, orphans, printVars, runVars>>
        /\ ghostOn' \in BOOLEAN
    BY <1>1 DEF ClearingCommand, GhostOK
  <2>3. CmdOK' /\ OriginLoaded' /\ GhostOK'
    BY <2>1, <2>2 DEF CmdOK, OriginLoaded, GhostOK, schemVars
  <2>4. Shown' /\ Stopped'
    BY <2>1, <2>2 DEF Shown, Stopped, printVars
  <2> QED BY <2>1, <2>2, <2>3, <2>4 DEF SchemOK, TickOK, RestOK, schemVars,
             printVars, runVars
<1>2. CASE NextBlock
  <2>1. Begins /\ cmd' \in CmdRec /\ cmd'.pc = "take" /\ cmd'.op = "next"
    <3>1. "take" \in CmdPC /\ 0 \in Int /\ "next" \in CmdOps
      BY DEF CmdPC, CmdOps
    <3> HIDE DEF Begins
    <3> QED BY <1>0, <1>2, <3>1 DEF NextBlock
  <2>2. originSet /\ UNCHANGED <<schemVars, ghostVars, printVars, runVars>>
    BY <1>2 DEF NextBlock
  <2>3. CmdOK' /\ OriginLoaded' /\ GhostOK'
    BY <2>1, <2>2 DEF CmdOK, OriginLoaded, GhostOK, schemVars, ghostVars
  <2>4. Shown' /\ Stopped'
    BY <2>1, <2>2 DEF Shown, Stopped, ghostVars, printVars
  <2> QED BY <2>1, <2>2, <2>3, <2>4 DEF SchemOK, TickOK, RestOK, schemVars,
             printVars, runVars
<1>3. CASE Ghosts \/ PrinterStart \/ PrinterStop
  <2>1. Begins /\ cmd' = NoCmd
    <3>1. "idle" \in CmdPC /\ 0 \in Int /\ {"ghost", "start", "stop"} \subseteq CmdOps
      BY DEF CmdPC, CmdOps
    <3> HIDE DEF Begins
    <3> QED BY <1>0, <1>3, <3>1 DEF Ghosts, PrinterStart, PrinterStop
  <2>2. /\ UNCHANGED <<schemVars, ghostSent, shown, orphans, runVars>>
        /\ ghostOn' \in BOOLEAN
        /\ \/ UNCHANGED <<printing, late>>
           \/ printing' = TRUE /\ late' = [u \in Tickers |-> -1]
           \/ /\ printing' = FALSE
              /\ late' = [u \in Tickers |-> IF late[u] < 0 THEN 0 ELSE late[u]]
    BY <1>3 DEF Ghosts, PrinterStart, PrinterStop, StopObeyed, ToldToStop,
                printVars, ghostVars, GhostOK
  <2>3. printing' \in BOOLEAN /\ late' \in [Tickers -> Nat \cup {-1}]
    <3>1. printing \in BOOLEAN /\ late \in [Tickers -> Nat \cup {-1}]
      BY DEF RestOK
    <3>2. [u \in Tickers |-> IF late[u] < 0 THEN 0 ELSE late[u]]
            \in [Tickers -> Nat \cup {-1}]
      BY <3>1
    <3>3. [u \in Tickers |-> -1] \in [Tickers -> Nat \cup {-1}]
      OBVIOUS
    <3> QED BY <2>2, <3>1, <3>2, <3>3
  <2>4. CmdOK' /\ OriginLoaded' /\ GhostOK' /\ Shown'
    BY ZenonT(60), <2>1, <2>2, RecordsAre DEF CmdOK, OriginLoaded, GhostOK, Shown, schemVars
  <2>5. Stopped'
    BY <2>1, <2>2 DEF Stopped, RestOK
  <2> QED BY <2>1, <2>2, <2>3, <2>4, <2>5 DEF SchemOK, TickOK, RestOK, schemVars,
             runVars
<1>4. ASSUME NEW o \in Origins, SetOrigin(o)
      PROVE  SchemInv'
  <2>1. Begins /\ cmd' = NoCmd
    <3>1. "idle" \in CmdPC /\ o \in Int /\ "origin" \in CmdOps
      BY DEF CmdPC, CmdOps
    <3> HIDE DEF Begins
    <3> QED BY <1>0, <1>4, <3>1 DEF SetOrigin
  <2>2. /\ loaded # NoFile /\ origin' = o /\ originSet' = TRUE
        /\ currentIdx' = 0 /\ run' = << >> /\ clean' \in BOOLEAN
        /\ ghostSent' = {} /\ orphans' = {}
        /\ UNCHANGED <<loaded, currentLayer, ghostOn, shown, printing, late>>
    BY <1>4 DEF SetOrigin, Restart, printVars
  <2>3. CmdOK' /\ OriginLoaded' /\ SchemOK' /\ GhostOK'
    BY <2>1, <2>2, RecordsAre DEF CmdOK, OriginLoaded, SchemOK, GhostOK
  <2>4. << >> \in Seq(Nat)
    OBVIOUS
  <2>5. RestOK'
    BY <2>1, <2>2, <2>4 DEF RestOK
  <2>6. Shown' /\ Stopped'
    BY <2>1, <2>2 DEF Shown, Stopped
  <2> QED BY <2>1, <2>3, <2>5, <2>6 DEF TickOK
<1> QED BY <1>1, <1>2, <1>3, <1>4

LEMMA SchemStep == SchemInv /\ [Next]_vars => SchemInv'
<1> SUFFICES ASSUME SchemInv, [Next]_vars PROVE SchemInv'
  OBVIOUS
<1> USE DEF SchemInv
<1>1. CASE NewSession
  <2>1. /\ sessions < MaxSessions /\ sessions' = sessions + 1
        /\ viewer' \in {"client", "none"} /\ shown' = {} /\ orphans' = ghostSent
        /\ tick' = [tick EXCEPT ![sessions + 1] = Idle]
        /\ UNCHANGED <<schemVars, ghostOn, ghostSent, printVars, runVars, ncmds,
                       cmd, panicked>>
    BY <1>1 DEF NewSession
  <2>2. sessions \in Nat /\ sessions + 1 \in Tickers
    BY <2>1 DEF RestOK, Tickers
  <2>3. /\ tick' \in [Tickers -> TickRec] /\ tick'[sessions + 1].pc = "idle"
        /\ \A u \in Tickers \ {sessions + 1} : tick'[u] = tick[u]
    BY <2>1, <2>2, RecordsAre DEF TickOK
  <2>4. TickOK'
    <3>1. ASSUME NEW u \in Tickers, u > sessions'  PROVE tick'[u].pc = "off"
      <4>1. u \in Nat /\ u # sessions + 1 /\ u > sessions
        BY <2>1, <2>2, <3>1 DEF Tickers
      <4> QED BY <2>3, <4>1 DEF TickOK
    <3> QED BY <2>3, <3>1 DEF TickOK
  <2>5. CmdOK' /\ OriginLoaded' /\ SchemOK' /\ GhostOK' /\ RestOK' /\ Shown'
    BY <2>1, <2>2 DEF CmdOK, OriginLoaded, SchemOK, GhostOK, RestOK, Shown,
                      schemVars, printVars, runVars
  <2>6. Stopped'
    BY <2>1, <2>2, <2>3 DEF Stopped, printVars
  <2> QED BY <2>4, <2>5, <2>6
<1>2. CASE TakeOver \/ MapRace \/ UNCHANGED vars
  <2>1. /\ UNCHANGED <<schemVars, ghostVars, printVars, runVars, ncmds, sessions,
                       tick, cmd>>
        /\ viewer' \in {"client", "none"} /\ panicked' \in BOOLEAN
    BY <1>2 DEF TakeOver, MapRace, Panics, vars, envVars, RestOK
  <2> QED BY <2>1 DEF CmdOK, OriginLoaded, SchemOK, GhostOK, TickOK, RestOK,
             Shown, Stopped, schemVars, ghostVars, printVars, runVars
<1> HIDE DEF SchemInv
<1> QED BY <1>1, <1>2, TickKeeps, CommandKeeps, BeginKeeps DEF Next

-----------------------------------------------------------------------------
THEOREM SchematicInvariant == Spec => []SchemInv
<1> QED BY SchemInit, SchemStep, PTL DEF Spec

\* Every variable keeps its type, and outside a command the origin is set only
\* where there is a schematic to anchor.
THEOREM TypeCorrect == Spec => []TypeOK
<1>1. SchemInv => TypeOK
  BY DEF SchemInv, CmdOK, CmdRec, CmdPC, OriginLoaded, SchemOK, GhostOK, TickOK,
         TickRec, RestOK, Shown, Places, TypeOK
<1> QED BY <1>1, SchematicInvariant, PTL

\* However many tickers mark and show while a command hides and drops, a ghost
\* marked that the client does not see is one next hid, or one shown to an
\* earlier client or to none.
THEOREM MarksAreShown == Spec => []MarkedIsShown
<1>1. SchemInv => MarkedIsShown
  BY DEF SchemInv, Shown, MarkedIsShown
<1> QED BY <1>1, SchematicInvariant, PTL

\* Each ticker of a printer that was told to stop places the block it is at, and
\* no other, however many tickers there are.
THEOREM StopsInTime == Spec => []StopsWithinOne
<1>1. SchemInv => StopsWithinOne
  BY DEF SchemInv, Stopped, StopsWithinOne
<1> QED BY <1>1, SchematicInvariant, PTL

-----------------------------------------------------------------------------
\* The printer that nothing disturbs has placed, in order, the blocks of the
\* layer before the index, with the one it has sent and not yet passed; and one
\* ticker at a time is in placeNext.
LayerBlocks == {i \in 0..(Len0 - 1) : Block(i).y = currentLayer}

PlacedUpTo(n) == {i \in LayerBlocks : i < n}

Ascending(s) == \A j, k \in DOMAIN s : j < k => s[j] < s[k]

Advancing == \E t \in Tickers : tick[t].pc = "advance"

Turning(t) ==
  tick[t].pc = "turn" =>
    /\ tick[t].i = currentIdx /\ currentIdx < Len0
    /\ tick[t].at[2] = Block(currentIdx).y

Placed ==
  clean =>
    /\ \A t, u \in Placing : t = u
    /\ Ascending(run)
    /\ loaded = NoFile =>
         /\ run = << >> /\ currentIdx = 0
         /\ \A t \in Tickers : tick[t].pc \notin {"turn", "advance"}
    /\ loaded # NoFile =>
         ToSet(run) = PlacedUpTo(IF Advancing THEN currentIdx + 1 ELSE currentIdx)
    /\ \A t \in Tickers : Turning(t)
    /\ Advancing => currentIdx \in LayerBlocks

\* A larger number keeps the order.
LEMMA AppendAscends ==
  ASSUME NEW s \in Seq(Nat), NEW e \in Nat, Ascending(s), \A i \in ToSet(s) : i < e
  PROVE  Ascending(Append(s, e)) /\ ToSet(Append(s, e)) = ToSet(s) \cup {e}
<1>1. /\ DOMAIN Append(s, e) = 1..(Len(s) + 1) /\ DOMAIN s = 1..Len(s) /\ Len(s) \in Nat
      /\ Append(s, e)[Len(s) + 1] = e
      /\ \A i \in 1..Len(s) : Append(s, e)[i] = s[i] /\ s[i] < e
  BY DEF ToSet
<1>2. ToSet(Append(s, e)) = ToSet(s) \cup {e}
  BY <1>1 DEF ToSet
<1>3. ASSUME NEW j \in DOMAIN Append(s, e), NEW k \in DOMAIN Append(s, e), j < k
      PROVE  Append(s, e)[j] < Append(s, e)[k]
  <2>1. j \in 1..Len(s) /\ (k \in 1..Len(s) \/ k = Len(s) + 1)
    BY <1>1, <1>3
  <2> QED
    BY <1>1, <1>3, <2>1 DEF Ascending
<1> QED
  BY <1>2, <1>3 DEF Ascending

LEMMA EmptyAscends == Ascending(<< >>) /\ ToSet(<< >>) = {}
<1>1. DOMAIN << >> = {}
  OBVIOUS
<1> QED BY <1>1 DEF Ascending, ToSet

LEMMA PlacedInit == Init => Placed
<1> SUFFICES ASSUME Init PROVE Placed
  OBVIOUS
<1>1. /\ run = << >> /\ currentIdx = 0 /\ loaded = NoFile
      /\ tick = [t \in Tickers |-> IF t = 1 THEN Idle ELSE Off]
  BY DEF Init
<1>2. ASSUME NEW t \in Tickers  PROVE tick[t].pc \in {"idle", "off"}
  BY <1>1, RecordsAre
<1>3. Placing = {} /\ ~Advancing
  BY <1>2 DEF Placing, PlacePC, Advancing
<1> QED
  BY <1>1, <1>2, <1>3, EmptyAscends DEF Placed, Turning

\* A restart begins a run with nothing placed.
LEMMA RestartPlaces ==
  ASSUME SchemInv, Restart, loaded' = loaded, tick' = tick
  PROVE  Placed'
<1> SUFFICES ASSUME clean' PROVE Placed'
  BY DEF Placed
<1>1. run' = << >> /\ currentIdx' = 0 /\ Placing = {}
  BY DEF Restart
<1>2. Placing' = {} /\ ~Advancing'
  BY <1>1 DEF Placing, PlacePC, Advancing
<1>3. \A t \in Tickers : tick'[t].pc \notin {"turn", "advance"}
  BY <1>2 DEF Placing, PlacePC
<1>4. loaded' # NoFile => PlacedUpTo(currentIdx)' = {}
  <2> SUFFICES ASSUME loaded' # NoFile, NEW i \in LayerBlocks' PROVE ~(i < 0)
    BY <1>1 DEF PlacedUpTo
  <2>1. Len0' = Len0
    BY DEF Len0
  <2>2. Len0 \in Nat
    BY BlockIs DEF SchemInv
  <2> QED
    BY <2>1, <2>2 DEF LayerBlocks
<1> QED
  BY <1>1, <1>2, <1>3, <1>4, EmptyAscends DEF Placed, Turning

\* The tickers inside placeNext, and those that turn and advance, are the same
\* as long as the steps stay outside.
LEMMA OutsideKeeps ==
  ASSUME Placed,
         UNCHANGED <<loaded, currentIdx, currentLayer, run, clean>>,
         \A t \in Tickers :
           tick'[t] = tick[t] \/ (tick'[t].pc \notin {"turn", "advance"}
                                  /\ tick[t].pc \notin {"turn", "advance"}
                                  /\ (tick'[t].pc = "place" => tick[t].pc = "place"))
  PROVE  Placed'
<1> SUFFICES ASSUME clean' PROVE Placed'
  BY DEF Placed
<1>1. Placing' \subseteq Placing
  BY DEF Placing, PlacePC
<1>2. Advancing' = Advancing /\ \A t \in Tickers : Turning(t)'
  BY DEF Placed, Advancing, Turning, Len0, Block
<1>3. LayerBlocks' = LayerBlocks /\ \A n : PlacedUpTo(n)' = PlacedUpTo(n)
  BY DEF LayerBlocks, PlacedUpTo, Len0, Block
<1>4. loaded' = NoFile => \A t \in Tickers : tick'[t].pc \notin {"turn", "advance"}
  BY DEF Placed
<1>5. (\A t, u \in Placing : t = u)'
  BY <1>1 DEF Placed
<1>6. Ascending(run)' /\ (loaded' = NoFile => run' = << >> /\ currentIdx' = 0)
  BY DEF Placed, Ascending
<1>7. loaded' # NoFile =>
        ToSet(run') = PlacedUpTo(IF Advancing THEN currentIdx + 1 ELSE currentIdx)'
  BY <1>2, <1>3 DEF Placed, PlacedUpTo
<1>8. Advancing' => (currentIdx \in LayerBlocks)'
  BY <1>2, <1>3 DEF Placed
<1> QED BY <1>2, <1>4, <1>5, <1>6, <1>7, <1>8 DEF Placed

\* A step of the ticker that places, while nothing disturbs it.
LEMMA PrinterPlaces ==
  ASSUME SchemInv, Placed, NEW t \in Tickers,
         Due(t) \/ PlaceSome(t) \/ PlaceTurn(t) \/ PlaceBlock(t) \/ PlaceAdvance(t)
  PROVE  Placed'
<1>t. /\ SchemOK /\ RestOK /\ TickOK /\ tick \in [Tickers -> TickRec]
      /\ tick[t].i \in Nat /\ currentIdx \in Nat /\ run \in Seq(Nat)
  BY DEF SchemInv, TickOK, TickRec, SchemOK, RestOK
<1> SUFFICES ASSUME clean' PROVE Placed'
  BY DEF Placed
<1>c. /\ clean /\ UNCHANGED <<loaded, currentLayer>>
  BY DEF Due, PlaceSome, PlaceTurn, PlaceBlock, PlaceAdvance, runVars, schemVars
<1>l. LayerBlocks' = LayerBlocks /\ \A n : PlacedUpTo(n)' = PlacedUpTo(n)
  BY <1>c DEF LayerBlocks, PlacedUpTo, Len0, Block
\* The other tickers are outside placeNext.
<1>o. /\ \A u \in Tickers \ {t} : tick'[u] = tick[u]
      /\ \A u \in Tickers \ {t} : tick[u].pc \notin PlacePC
  <2>1. ASSUME NEW u \in Tickers \ {t}  PROVE tick'[u] = tick[u]
    BY <1>t DEF Due, PlaceSome, PlaceTurn, PlaceBlock, PlaceAdvance, TickGoes,
                TickDone, Reads
  <2>2. ASSUME NEW u \in Tickers \ {t}  PROVE tick[u].pc \notin PlacePC
    <3>1. CASE Due(t)
      BY <1>c, <3>1 DEF Due, Placing
    <3>2. CASE PlaceSome(t) \/ PlaceTurn(t) \/ PlaceBlock(t) \/ PlaceAdvance(t)
      <4>1. t \in Placing
        BY <3>2 DEF PlaceSome, PlaceTurn, PlaceBlock, PlaceAdvance, TickAt,
                    Placing, PlacePC
      <4> QED BY <1>c, <4>1 DEF Placed, Placing
    <3> QED BY <3>1, <3>2
  <2> QED BY <2>1, <2>2
<1>p. /\ \A v, u \in Placing' : v = u
      /\ Advancing' <=> tick'[t].pc = "advance"
      /\ Advancing <=> tick[t].pc = "advance"
      /\ \A u \in Tickers \ {t} : tick'[u].pc \notin {"turn", "advance"}
  BY <1>o DEF Placing, PlacePC, Advancing
<1>1. CASE Due(t)
  <2>1. /\ tick[t].pc = "print" /\ tick'[t].pc = "place"
        /\ UNCHANGED <<currentIdx, run, clean>>
    BY <1>1, <1>t, <1>c DEF Due, TickAt, TickGoes, runVars, schemVars
  <2> QED BY <2>1, <1>c, <1>l, <1>p DEF Placed, Turning, Ascending, PlacedUpTo
<1>2. CASE PlaceSome(t)
  <2>1. /\ tick[t].pc = "place" /\ loaded # NoFile /\ currentIdx < Len0
        /\ tick'[t] = [pc |-> "turn", i |-> currentIdx,
                       at |-> <<Block(currentIdx).x, Block(currentIdx).y>>]
        /\ UNCHANGED <<currentIdx, run, clean>>
    <3>1. /\ tick[t].pc = "place" /\ loaded # NoFile
          /\ ~(currentIdx >= Len0)
          /\ UNCHANGED <<currentIdx, run, clean>>
      BY <1>2 DEF PlaceSome, TickAt, runVars, schemVars, Done, NothingLeft
    <3>2. Len0 \in Nat
      BY <1>t, <3>1, BlockIs
    <3>3. currentIdx < Len0
      BY <1>t, <3>1, <3>2
    <3>4. tick'[t] = [pc |-> "turn", i |-> currentIdx,
                      at |-> <<Block(currentIdx).x, Block(currentIdx).y>>]
      BY <1>2, <1>t DEF PlaceSome, Reads
    <3> QED BY <3>1, <3>3, <3>4
  <2>2. Turning(t)'
    BY <2>1, <1>c DEF Turning, Len0, Block
  <2> QED BY <2>1, <2>2, <1>c, <1>l, <1>p DEF Placed, Turning, Ascending
<1>3. CASE PlaceTurn(t)
  <2>1. /\ tick[t].pc = "turn" /\ loaded # NoFile /\ currentIdx' = currentIdx + 1
        /\ tick[t].at[2] # currentLayer /\ UNCHANGED <<run, clean>>
    BY <1>3 DEF PlaceTurn, TickAt, runVars, OneOn
  <2>2. Block(currentIdx).y # currentLayer /\ ToSet(run) = PlacedUpTo(currentIdx)
    BY <2>1, <1>c, <1>p DEF Placed, Turning
  <2>3. PlacedUpTo(currentIdx + 1) = PlacedUpTo(currentIdx)
    <3>1. Len0 \in Nat
      BY <1>t, <2>1, BlockIs
    <3> QED BY <1>t, <2>2, <3>1 DEF PlacedUpTo, LayerBlocks
  <2>4. tick'[t].pc # "advance" /\ Turning(t)'
    <3>1. CASE OneOn >= Len0
      BY <1>3, <1>t, <3>1, RecordsAre DEF PlaceTurn, TickDone, Turning
    <3>2. CASE ~(OneOn >= Len0)
      <4>1. /\ tick'[t] = [pc |-> "turn", i |-> OneOn,
                           at |-> <<Block(OneOn).x, Block(OneOn).y>>]
            /\ OneOn < Len0
        BY <1>3, <1>t, <2>1, <3>2, BlockIs DEF PlaceTurn, Reads, OneOn
      <4> QED BY <4>1, <2>1, <1>c DEF Turning, Len0, Block, OneOn
    <3> QED BY <3>1, <3>2
  <2>5. ToSet(run') = PlacedUpTo(currentIdx)'
    BY <2>1, <2>2, <2>3, <1>c DEF PlacedUpTo, LayerBlocks, Len0, Block
  <2> QED BY <2>1, <2>4, <2>5, <1>c, <1>p DEF Placed, Turning, Ascending
<1>4. CASE PlaceBlock(t)
  <2>1. /\ tick[t].pc = "turn" /\ tick'[t].pc = "advance"
        /\ UNCHANGED currentIdx /\ run' = Append(run, tick[t].i)
        /\ tick[t].at[2] = currentLayer \/ (loaded # NoFile /\ currentIdx >= Len0)
    BY <1>4, <1>t, <1>c DEF PlaceBlock, TickAt, schemVars, NothingLeft
  <2>2. loaded # NoFile
    BY <2>1, <1>c DEF Placed
  <2>3. Len0 \in Nat
    BY <1>t, <2>2, BlockIs
  <2>4. /\ tick[t].i = currentIdx /\ currentIdx < Len0
        /\ Block(currentIdx).y = currentLayer
        /\ ToSet(run) = PlacedUpTo(currentIdx) /\ Ascending(run)
    BY <1>t, <2>1, <2>2, <2>3, <1>c, <1>p DEF Placed, Turning
  <2>5. currentIdx \in LayerBlocks /\ \A i \in ToSet(run) : i < currentIdx
    BY <1>t, <2>3, <2>4 DEF LayerBlocks, PlacedUpTo
  <2>6. PlacedUpTo(currentIdx + 1) = PlacedUpTo(currentIdx) \cup {currentIdx}
    BY <1>t, <2>3, <2>5 DEF PlacedUpTo, LayerBlocks
  <2>7. Ascending(Append(run, currentIdx))
        /\ ToSet(Append(run, currentIdx)) = ToSet(run) \cup {currentIdx}
    BY <1>t, <2>4, <2>5, AppendAscends
  <2>8. Ascending(run)' /\ ToSet(run') = PlacedUpTo(currentIdx + 1)
    BY <2>1, <2>4, <2>6, <2>7 DEF Ascending
  <2>9. ToSet(run') = PlacedUpTo(currentIdx + 1)'
    BY <2>1, <2>8, <1>c DEF PlacedUpTo, LayerBlocks, Len0, Block
  <2> QED BY <2>1, <2>2, <2>5, <2>8, <2>9, <1>c, <1>l, <1>p DEF Placed, Turning
<1>5. CASE PlaceAdvance(t)
  <2>1. /\ tick[t].pc = "advance" /\ tick'[t].pc = "idle"
        /\ currentIdx' = currentIdx + 1 /\ UNCHANGED <<run, clean>>
    BY <1>5, <1>t, RecordsAre DEF PlaceAdvance, TickAt, TickDone, runVars
  <2>2. loaded # NoFile
    BY <2>1, <1>c DEF Placed
  <2>3. ToSet(run) = PlacedUpTo(currentIdx + 1)
    BY <2>1, <2>2, <1>c, <1>p DEF Placed
  <2>4. ToSet(run') = PlacedUpTo(currentIdx)'
    BY <2>1, <2>3, <1>c DEF PlacedUpTo, LayerBlocks, Len0, Block
  <2> QED BY <2>1, <2>2, <2>4, <1>c, <1>p DEF Placed, Turning, Ascending
<1> QED BY <1>1, <1>2, <1>3, <1>4, <1>5

LEMMA PlacedStep == SchemInv /\ Placed /\ [Next]_vars => Placed'
<1> SUFFICES ASSUME SchemInv, Placed, [Next]_vars PROVE Placed'
  OBVIOUS
<1>t. tick \in [Tickers -> TickRec] /\ TickOK
  BY DEF SchemInv, TickOK
<1>1. CASE CmdRest
  <2>1. tick' = tick /\ loaded' = loaded
    BY <1>1 DEF CmdRest, CmdAt
  <2>2. CASE cmd.op = "clear"
    <3>1. UNCHANGED <<currentIdx, currentLayer, run, clean>>
      BY <1>1, <2>2 DEF CmdRest, runVars
    <3> QED BY <2>1, <3>1, OutsideKeeps
  <2>3. CASE cmd.op # "clear"
    BY <1>1, <2>1, <2>3, RestartPlaces DEF CmdRest
  <2> QED BY <2>2, <2>3
<1>2. ASSUME NEW o \in Origins, SetOrigin(o) PROVE Placed'
  BY <1>2, RestartPlaces DEF SetOrigin, Command
<1>3. CASE Swap \/ NextHide
  BY <1>3 DEF Swap, NextHide, Unclean, Placed
<1>4. CASE NextSeek
  <2>1. CASE clean' = FALSE
    BY <2>1 DEF Placed
  <2>2. CASE UNCHANGED <<currentIdx, runVars>>
    <3>1. UNCHANGED <<loaded, currentIdx, currentLayer, run, clean, tick>>
      BY <1>4, <2>2 DEF NextSeek, CmdAt, runVars
    <3> QED BY <3>1, OutsideKeeps
  <2> QED BY <1>4, <2>1, <2>2 DEF NextSeek, Unclean
<1>5. ASSUME NEW t \in Tickers,
             \/ TickStart(t) \/ GhostMark(t) \/ GhostsEnd(t) \/ GhostShow(t)
             \/ NotDue(t) \/ PlaceDone(t) \/ TickerStops(t)
      PROVE  Placed'
  <2>1. UNCHANGED <<loaded, currentIdx, currentLayer, run, clean>>
    BY <1>5 DEF TickStart, GhostMark, GhostsEnd, GhostShow, NotDue, PlaceDone,
                TickerStops, schemVars, runVars
  <2>2. tick[t].pc \notin {"turn", "advance"}
    BY <1>5 DEF TickStart, GhostMark, GhostsEnd, GhostShow, NotDue, PlaceDone,
                TickerStops, TickAt
  <2>3. PICK r : /\ tick' = [tick EXCEPT ![t] = r]
                 /\ r.pc \in {"off", "idle", "ghosts", "show", "print"}
    <3>0. {"ghosts", "print"} \subseteq TickPC /\ 0 \in Nat
      BY DEF TickPC
    <3>1. CASE TickStart(t)
      <4>1. currentIdx \in Nat
        BY DEF SchemInv, SchemOK
      <4>2. /\ [Idle EXCEPT !.pc = "ghosts", !.i = currentIdx].pc = "ghosts"
            /\ [Idle EXCEPT !.pc = "print"].pc = "print"
        BY <3>0, <4>1, RecordsAre
      <4>3. CASE ghostOn
        BY <3>1, <4>2, <4>3 DEF TickStart
      <4>4. CASE ~ghostOn
        BY <3>1, <4>2, <4>4 DEF TickStart
      <4> QED BY <4>3, <4>4
    <3>2. CASE GhostsEnd(t)
      <4>1. [Idle EXCEPT !.pc = "print"].pc = "print"
        BY <3>0, RecordsAre
      <4> QED BY <3>2, <4>1 DEF GhostsEnd
    <3>3. CASE NotDue(t) \/ PlaceDone(t) \/ TickerStops(t)
      BY <3>3, RecordsAre DEF NotDue, PlaceDone, TickerStops, TickDone
    <3>4. CASE GhostMark(t)
      <4>1. PICK i \in tick[t].i..(Len0 - 1) :
              tick' = [tick EXCEPT ![t] = [pc |-> "show", i |-> i, at |-> At(i)]]
        BY <3>4 DEF GhostMark
      <4>2. [pc |-> "show", i |-> i, at |-> At(i)].pc = "show"
        OBVIOUS
      <4> QED BY <4>1, <4>2
    <3>5. CASE GhostShow(t)
      <4>1. PICK pc \in {"ghosts", "print"} :
              tick' = [tick EXCEPT ![t] = [Idle EXCEPT !.pc = pc,
                         !.i = IF pc = "ghosts" THEN tick[t].i + 1 ELSE 0]]
        BY <3>5 DEF GhostShow
      <4> DEFINE n == IF pc = "ghosts" THEN tick[t].i + 1 ELSE 0
      <4>2. n \in Nat
        BY <1>t DEF TickRec
      <4> HIDE DEF n
      <4>3. [Idle EXCEPT !.pc = pc, !.i = n].pc = pc
        BY <3>0, <4>2, RecordsAre
      <4>4. tick' = [tick EXCEPT ![t] = [Idle EXCEPT !.pc = pc, !.i = n]]
        BY <4>1 DEF n
      <4> QED BY <4>3, <4>4
    <3> QED BY <1>5, <3>1, <3>2, <3>3, <3>4, <3>5
  <2>4. \A u \in Tickers :
          tick'[u] = tick[u] \/ (tick'[u].pc \notin {"turn", "advance", "place"}
                                 /\ tick[u].pc \notin {"turn", "advance"})
    BY <1>t, <2>2, <2>3
  <2> QED BY <2>1, <2>4, OutsideKeeps
<1>6. CASE \/ HideGhosts \/ DropGhosts \/ NextTake \/ NextPanics
           \/ ClearingCommand \/ NextBlock \/ Ghosts \/ PrinterStart \/ PrinterStop
           \/ TakeOver \/ MapRace \/ UNCHANGED vars
           \/ \E t \in Tickers : TickPanics(t)
  <2>1. UNCHANGED <<loaded, currentIdx, currentLayer, run, clean, tick>>
    <3>1. CASE \/ MapRace \/ NextPanics \/ TakeOver \/ UNCHANGED vars
               \/ \E t \in Tickers : TickPanics(t)
      BY <3>1 DEF TickPanics, MapRace, NextPanics, Panics, TakeOver, vars,
                  schemVars, runVars
    <3>2. CASE HideGhosts \/ DropGhosts \/ NextTake
      BY <3>2 DEF HideGhosts, DropGhosts, NextTake, CmdAt, schemVars, runVars
    <3>3. CASE ClearingCommand \/ NextBlock \/ Ghosts \/ PrinterStart \/ PrinterStop
      BY <3>3 DEF ClearingCommand, NextBlock, Ghosts, PrinterStart, PrinterStop,
                  Command, schemVars, runVars
    <3> QED BY <1>6, <3>1, <3>2, <3>3
  <2> QED BY <2>1, OutsideKeeps
<1>7. CASE NewSession
  <2>1. /\ UNCHANGED <<loaded, currentIdx, currentLayer, run, clean>>
        /\ tick' = [tick EXCEPT ![sessions + 1] = Idle]
        /\ sessions < MaxSessions
    BY <1>7 DEF NewSession, schemVars, runVars
  <2>2. sessions \in Nat /\ sessions + 1 \in Tickers
    BY <2>1 DEF SchemInv, RestOK, Tickers
  <2>3. tick[sessions + 1].pc = "off"
    BY <1>t, <2>2 DEF TickOK
  <2>4. \A u \in Tickers :
          tick'[u] = tick[u] \/ (tick'[u].pc \notin {"turn", "advance", "place"}
                                 /\ tick[u].pc \notin {"turn", "advance"})
    BY <1>t, <2>1, <2>2, <2>3, RecordsAre
  <2> QED BY <2>1, <2>4, OutsideKeeps
<1> QED
  BY <1>1, <1>2, <1>3, <1>4, <1>5, <1>6, <1>7, PrinterPlaces
  DEF Next, TickStep, CmdStep

\* Every reachable state satisfies the printer's invariant.
THEOREM PlacedInvariant == Spec => [](SchemInv /\ Placed)
BY SchemInit, SchemStep, PlacedInit, PlacedStep, PTL DEF Spec

\* A printer that stops by itself has placed every block of the layer, each once
\* and in the order of the file, whichever tickers took turns, unless a command
\* moved the index or two tickers were in placeNext at once.
THEOREM PrinterPlacesLayer == Spec => LayerPlaced
<1> DEFINE Ends(t) == tick[t].pc = "place" /\ tick'[t].pc = "idle" /\ clean
           Whole == /\ ToSet(run) = LayerBlocks
                    /\ \A j, k \in DOMAIN run : j < k => run[j] < run[k]
<1>1. SchemInv /\ Placed /\ [Next]_vars => [\A t \in Tickers : Ends(t) => Whole]_vars
  <2> SUFFICES ASSUME SchemInv, Placed, Next, NEW t \in Tickers, Ends(t)
               PROVE  Whole
    BY DEF vars
  <2>t. tick \in [Tickers -> TickRec] /\ TickOK
    BY DEF SchemInv, TickOK
  <2>1. tick'[t] # tick[t]
    OBVIOUS
  <2>2. TickStep(t) \/ TickerStops(t)
    <3>1. ASSUME NEW u \in Tickers, u # t, TickStep(u) \/ TickerStops(u)
          PROVE  tick'[t] = tick[t]
      BY <2>t, <3>1 DEF TickStep, TickerStops, TickStart, GhostMark, GhostsEnd,
         GhostShow, NotDue, Due, PlaceDone, PlaceSome, PlaceTurn, PlaceBlock,
         PlaceAdvance, TickPanics, Panics, TickGoes, TickDone, Reads
    <3>2. CASE CmdStep
      BY <2>1, <3>2 DEF CmdStep, HideGhosts, DropGhosts, Swap, CmdRest, NextTake,
         NextHide, NextSeek, NextPanics, CmdAt
    <3>3. CASE \/ ClearingCommand \/ NextBlock \/ Ghosts \/ PrinterStart
               \/ PrinterStop \/ \E o \in Origins : SetOrigin(o)
      BY <2>1, <3>3 DEF ClearingCommand, NextBlock, Ghosts, PrinterStart,
         PrinterStop, SetOrigin, Command
    <3>4. CASE TakeOver \/ MapRace
      BY <2>1, <3>4 DEF TakeOver, MapRace, Panics
    <3>5. CASE NewSession
      <4>1. /\ sessions \in Nat /\ sessions + 1 \in Tickers
            /\ tick' = [tick EXCEPT ![sessions + 1] = Idle]
        BY <3>5 DEF NewSession, SchemInv, RestOK, Tickers
      <4>2. tick[sessions + 1].pc = "off"
        BY <2>t, <4>1 DEF TickOK
      <4> QED BY <2>t, <2>1, <4>1, <4>2
    <3> QED BY <2>1, <3>1, <3>2, <3>3, <3>4, <3>5 DEF Next
  <2>3. PlaceDone(t)
    BY <2>t, <2>1, <2>2 DEF TickStep, TickerStops, TickStart, GhostMark, GhostsEnd,
       GhostShow, NotDue, Due, PlaceDone, PlaceSome, PlaceTurn, PlaceBlock,
       PlaceAdvance, TickPanics, Panics, TickAt, Reads
  <2>4. loaded # NoFile /\ currentIdx >= Len0
    BY <2>3 DEF PlaceDone, Done, NothingLeft
  <2>5. Len0 \in Nat /\ currentIdx \in Nat
    BY <2>4, BlockIs DEF SchemInv, SchemOK
  <2>6. ~Advancing
    BY DEF Placed, Placing, PlacePC, Advancing
  <2>7. PlacedUpTo(currentIdx) = LayerBlocks
    BY <2>4, <2>5 DEF PlacedUpTo, LayerBlocks
  <2> QED
    BY <2>4, <2>6, <2>7 DEF Placed, Ascending
<1> QED
  BY <1>1, PlacedInvariant, PTL DEF Spec, LayerPlaced, LayerBlocks
=============================================================================
