------------------------------ MODULE Schematic -----------------------------
(***************************************************************************)
(* The schematic builder of mods/schematic.go: chat commands load a        *)
(* schematic, anchor it and choose a layer; every tick shows ghost blocks  *)
(* of that layer to the client and, while the printer is on, places the    *)
(* next one on the server.  There is one builder for the whole process,    *)
(* but each session and each bot starts a ticker of its own over it        *)
(* (session.go:16) and gives it its senders, and sessions overlap.  A      *)
(* command runs in the pipe of a client, a tick in the goroutine of its    *)
(* ticker, and nothing locks the state they share: a step here ends where  *)
(* another goroutine can get in between.                                   *)
(*                                                                         *)
(* Positions are on a line and a layer: what the code does with x and z is *)
(* the same.  Indices are the code's, from 0.                              *)
(***************************************************************************)
EXTENDS Integers, SequencesExt, FiniteSets

CONSTANTS
  Files,      (* the schematics on disk                                    *)
  NoFile,     (* nothing loaded                                            *)
  Blocks,     (* Blocks[f]: the blocks of f, with x and y                  *)
  Origins,    (* where %schem origin can anchor                            *)
  Layers,     (* the layers %schem layer can choose (bound)                *)
  MaxCmds,    (* bound: commands                                           *)
  MaxSessions (* bound: sessions and bots, that may overlap                *)

ASSUME SchematicAssumption ==
  /\ NoFile \notin Files
  /\ \A f \in Files : Blocks[f] \in Seq([x : Int, y : Layers])
  /\ Origins \subseteq Int /\ Layers \subseteq Int /\ 0 \in Layers
  /\ MaxCmds \in Nat /\ MaxSessions \in Nat \ {0}

VARIABLES
  loaded, origin, originSet, currentIdx, currentLayer,
  ghostOn, ghostSent,
  printing,
  sessions,   (* sessions and bots begun; the last gave its senders        *)
  viewer,     (* there is a client behind sendToClient, or none yet        *)
  shown,      (* the ghosts that client sees                               *)
  tick,       (* tick[t]: where Tick is in the ticker of the t-th session, *)
              (* its i, and the block or position it has read              *)
  cmd,        (* the command: where HandlePacket is, and which             *)
  ncmds,
  run,        (* indices placed since the index was last set to 0 ...      *)
  clean,      (* ... with nothing but one ticker at a time moving it       *)
  late,       (* late[t]: blocks ticker t has placed since the player last *)
              (* stopped the printer, -1 when it was told to print since   *)
  orphans,    (* marked ghosts that next hid, or that no viewer was shown  *)
  panicked    (* the process has died of a nil, an index or a map race     *)

schemVars == <<loaded, origin, originSet, currentIdx, currentLayer>>
ghostVars == <<ghostOn, ghostSent, shown, orphans>>
printVars == <<printing, late>>
runVars   == <<run, clean>>
envVars   == <<ncmds, sessions, viewer>>
vars == <<schemVars, ghostVars, printVars, runVars, envVars, tick, cmd,
          panicked>>

Tickers == 1..MaxSessions

Off    == [pc |-> "off",  i |-> 0, at |-> <<0, 0>>]
Idle   == [pc |-> "idle", i |-> 0, at |-> <<0, 0>>]
NoCmd  == [pc |-> "idle", op |-> "none", arg |-> 0, file |-> NoFile,
           at |-> <<0, 0>>]

\* The first session has begun, with its client, or is a bot that has none yet.
Init ==
  /\ loaded = NoFile /\ origin = 0 /\ originSet = FALSE
  /\ currentIdx = 0 /\ currentLayer = 0
  /\ ghostOn = TRUE /\ ghostSent = {}
  /\ printing = FALSE
  /\ sessions = 1 /\ viewer \in {"client", "none"} /\ shown = {}
  /\ tick = [t \in Tickers |-> IF t = 1 THEN Idle ELSE Off]
  /\ cmd = NoCmd /\ ncmds = 0
  /\ run = << >> /\ clean = TRUE /\ late = [t \in Tickers |-> -1]
  /\ orphans = {} /\ panicked = FALSE

Len0 == Len(Blocks[loaded])
Block(i) == Blocks[loaded][i + 1]
At(i) == <<origin + Block(i).x, Block(i).y>>
NothingLeft == currentIdx >= Len0

\* A step of a ticker, and one of the command.
TickAt(t, pc) == ~panicked /\ tick[t].pc = pc /\ UNCHANGED <<cmd, envVars>>
TickGoes(t, pc) == tick' = [tick EXCEPT ![t].pc = pc]
TickDone(t) == tick' = [tick EXCEPT ![t] = Idle]
CmdAt(pc) == ~panicked /\ cmd.pc = pc /\ UNCHANGED <<tick, envVars>>
CmdGoes(pc) ==
  cmd' = IF pc = "idle" THEN NoCmd ELSE [cmd EXCEPT !.pc = pc]

Panics ==
  /\ panicked' = TRUE
  /\ UNCHANGED <<schemVars, ghostVars, printVars, runVars, tick, cmd>>

\* The tickers inside placeNext.
PlacePC == {"place", "turn", "advance"}
Placing == {t \in Tickers : tick[t].pc \in PlacePC}

-----------------------------------------------------------------------------
\* Two goroutines at the map of ghosts at once may kill the process.
MapRace ==
  /\ ~panicked
  /\ \/ \E t, u \in Tickers :
          t # u /\ {tick[t].pc, tick[u].pc} \subseteq {"ghosts", "advance"}
     \/ /\ \E t \in Tickers : tick[t].pc \in {"ghosts", "advance"}
        /\ cmd.pc \in {"clear", "take"}
  /\ Panics /\ UNCHANGED envVars

\* Tick.  Its first line is a return when there is nothing to do.
TickStart(t) ==
  /\ TickAt(t, "idle") /\ loaded # NoFile /\ originSet
  /\ tick' = [tick EXCEPT ![t] =
                IF ghostOn THEN [Idle EXCEPT !.pc = "ghosts", !.i = currentIdx]
                           ELSE [Idle EXCEPT !.pc = "print"]]
  /\ UNCHANGED <<schemVars, ghostVars, printVars, runVars, panicked>>

\* The loop of refreshGhosts, from a block it marks to the next.  It passes over
\* those of another layer, those marked, and those too far from the player.
GhostMark(t) ==
  /\ TickAt(t, "ghosts") /\ loaded # NoFile
  /\ \E i \in tick[t].i..(Len0 - 1) :
       /\ Block(i).y = currentLayer /\ At(i) \notin ghostSent
       /\ ghostSent' = ghostSent \cup {At(i)}
       /\ tick' = [tick EXCEPT ![t] = [pc |-> "show", i |-> i, at |-> At(i)]]
  /\ UNCHANGED <<schemVars, ghostOn, shown, orphans, printVars, runVars,
                 panicked>>

GhostsEnd(t) ==
  /\ TickAt(t, "ghosts") /\ loaded # NoFile
  /\ tick' = [tick EXCEPT ![t] = [Idle EXCEPT !.pc = "print"]]
  /\ UNCHANGED <<schemVars, ghostVars, printVars, runVars, panicked>>

\* The loop goes on, or has shown its 50th ghost.
GhostShow(t) ==
  /\ TickAt(t, "show")
  /\ IF viewer = "client"
     THEN shown' = shown \cup {tick[t].at} /\ orphans' = orphans \ {tick[t].at}
     ELSE shown' = shown /\ orphans' = orphans \cup ({tick[t].at} \cap ghostSent)
  /\ \E pc \in {"ghosts", "print"} :
       tick' = [tick EXCEPT ![t] = [Idle EXCEPT !.pc = pc,
                  !.i = IF pc = "ghosts" THEN tick[t].i + 1 ELSE 0]]
  /\ UNCHANGED <<schemVars, ghostOn, ghostSent, printVars, runVars, panicked>>

\* The schematic went, or another goroutine moves the index past the end
\* between the test of it and the read of the block.
IndexMoves(t) ==
  \/ \E u \in Tickers \ {t} : tick[u].pc \in {"turn", "advance"}
  \/ cmd.pc \in {"hide", "seek"}

TickPanics(t) ==
  /\ \/ TickAt(t, "ghosts") /\ loaded = NoFile
     \/ TickAt(t, "place") /\ (loaded = NoFile \/ IndexMoves(t))
     \/ /\ TickAt(t, "turn") /\ tick[t].at[2] # currentLayer
        /\ loaded = NoFile \/ IndexMoves(t)
  /\ Panics

\* The printer places in every printDelay-th tick: in this one or not.  A
\* second ticker in placeNext moves the index under the first.
NotDue(t) ==
  /\ TickAt(t, "print")
  /\ TickDone(t)
  /\ UNCHANGED <<schemVars, ghostVars, printVars, runVars, panicked>>

Due(t) ==
  /\ TickAt(t, "print") /\ printing
  /\ TickGoes(t, "place")
  /\ IF Placing = {} THEN UNCHANGED runVars ELSE clean' = FALSE /\ run' = << >>
  /\ UNCHANGED <<schemVars, ghostVars, printVars, panicked>>

\* The player's word to stop counts from here, unless it was given before.
ToldToStop ==
  late' = [t \in Tickers |-> IF late[t] < 0 THEN 0 ELSE late[t]]

\* placeNext.  Mutants: done one block too soon; the index stays in the loop.
DoneTooSoon == currentIdx + 1 >= Len0
Done == NothingLeft
StayThere == currentIdx
OneOn == currentIdx + 1

PlaceDone(t) ==
  /\ TickAt(t, "place") /\ loaded # NoFile /\ Done
  /\ printing' = FALSE /\ ToldToStop
  /\ TickDone(t)
  /\ UNCHANGED <<schemVars, ghostVars, runVars, panicked>>

\* The block at index i, read before a turn of the loop.
Reads(t, i) ==
  tick' = [tick EXCEPT ![t] = [pc |-> "turn", i |-> i,
                               at |-> <<Block(i).x, Block(i).y>>]]

PlaceSome(t) ==
  /\ TickAt(t, "place") /\ loaded # NoFile /\ ~Done
  /\ Reads(t, currentIdx)
  /\ UNCHANGED <<schemVars, ghostVars, printVars, runVars, panicked>>

\* The loop goes on as long as the block it has read is of another layer, and
\* the index within the schematic.
PlaceTurn(t) ==
  /\ TickAt(t, "turn") /\ loaded # NoFile
  /\ tick[t].at[2] # currentLayer /\ ~NothingLeft
  /\ currentIdx' = OneOn
  /\ IF OneOn >= Len0 THEN TickDone(t) ELSE Reads(t, OneOn)
  /\ UNCHANGED <<loaded, origin, originSet, currentLayer, ghostVars,
                 printVars, runVars, panicked>>

\* It works out where the block it has read goes, and sends it to the server.
PlaceBlock(t) ==
  /\ TickAt(t, "turn")
  /\ \/ tick[t].at[2] = currentLayer
     \/ loaded # NoFile /\ NothingLeft
  /\ run' = IF clean THEN Append(run, tick[t].i) ELSE run
  /\ late' = [late EXCEPT ![t] = IF @ < 0 THEN @ ELSE @ + 1]
  /\ tick' = [tick EXCEPT ![t] =
       [pc |-> "advance", i |-> 0,
        at |-> <<origin + tick[t].at[1], tick[t].at[2]>>]]
  /\ UNCHANGED <<schemVars, ghostVars, printing, clean, panicked>>

\* Its mark goes; the client is sent nothing.
PlaceAdvance(t) ==
  /\ TickAt(t, "advance")
  /\ ghostSent' = ghostSent \ {tick[t].at} /\ orphans' = orphans \ {tick[t].at}
  /\ currentIdx' = currentIdx + 1
  /\ TickDone(t)
  /\ UNCHANGED <<loaded, origin, originSet, currentLayer, ghostOn, shown,
                 printVars, runVars, panicked>>

-----------------------------------------------------------------------------
\* A command begins, one at a time.  One that fails its checks only answers,
\* and is left out.
Command(op, arg, file, pc) ==
  /\ ~panicked /\ cmd.pc = "idle" /\ ncmds < MaxCmds
  /\ ncmds' = ncmds + 1
  /\ cmd' = IF pc = "idle" THEN NoCmd
            ELSE [NoCmd EXCEPT !.pc = pc, !.op = op, !.arg = arg, !.file = file]
  /\ UNCHANGED <<sessions, viewer, tick, panicked>>

\* Load, layer, reset, clear and ghost (off) begin with clearGhosts.
ClearingCommand ==
  /\ \/ /\ \E f \in Files : Command("load", 0, f, "clear")
        /\ UNCHANGED ghostOn
     \/ /\ loaded # NoFile /\ UNCHANGED ghostOn
        /\ \/ \E y \in Layers : Command("layer", y, NoFile, "clear")
           \/ Command("reset", 0, NoFile, "clear")
     \/ Command("clear", 0, NoFile, "clear") /\ UNCHANGED ghostOn
     \/ /\ ghostOn /\ Command("ghost", 0, NoFile, "clear")
        /\ ghostOn' = FALSE
  /\ UNCHANGED <<schemVars, ghostSent, shown, orphans, printVars, runVars>>

HideGhosts ==
  /\ CmdAt("clear")
  /\ shown' = shown \ ghostSent
  /\ CmdGoes("drop")
  /\ UNCHANGED <<schemVars, ghostOn, ghostSent, orphans, printVars, runVars,
                 panicked>>

\* The map of ghosts is made anew.  The mutant keeps it.
KeptGhosts == ghostSent
NoGhosts == {}

DropGhosts ==
  /\ CmdAt("drop")
  /\ ghostSent' = NoGhosts /\ orphans' = {}
  /\ CmdGoes(CASE cmd.op \in {"load", "clear"}  -> "swap"
               [] cmd.op \in {"layer", "reset"} -> "rest"
               [] cmd.op = "ghost"              -> "idle")
  /\ UNCHANGED <<schemVars, ghostOn, shown, printVars, runVars, panicked>>

Unclean == clean' = FALSE /\ run' = << >>

Swap ==
  /\ CmdAt("swap")
  /\ loaded' = cmd.file /\ Unclean
  /\ CmdGoes("rest")
  /\ UNCHANGED <<origin, originSet, currentIdx, currentLayer, ghostVars,
                 printVars, panicked>>

\* clean: no placement is under way that would move the index again.
Restart ==
  /\ currentIdx' = 0 /\ run' = << >>
  /\ clean' = (Placing = {})

\* The mutant leaves the anchor of the schematic that went.
KeptOrigin == originSet
OriginLeft == originSet /\ cmd.op \in {"layer", "reset"}

\* What each command sets to its initial value, after clearGhosts.
CmdRest ==
  /\ CmdAt("rest")
  /\ originSet' = OriginLeft
  /\ currentLayer' = CASE cmd.op = "layer"             -> cmd.arg
                       [] cmd.op = "clear"             -> currentLayer
                       [] cmd.op \in {"load", "reset"} -> 0
  /\ IF cmd.op = "clear" THEN UNCHANGED <<currentIdx, runVars>> ELSE Restart
  /\ IF cmd.op = "layer" THEN UNCHANGED printVars
                         ELSE printing' = FALSE /\ ToldToStop
  /\ CmdGoes("idle")
  /\ UNCHANGED <<loaded, origin, ghostVars, panicked>>

SetOrigin(o) ==
  /\ loaded # NoFile /\ Command("origin", o, NoFile, "idle")
  /\ origin' = o /\ originSet' = TRUE /\ Restart
  /\ ghostSent' = {} /\ orphans' = {}
  /\ UNCHANGED <<loaded, currentLayer, ghostOn, shown, printVars>>

\* next takes the mark at the index away, hides the block and goes on, step by
\* step, to the next block of the layer.
NextBlock ==
  /\ originSet /\ Command("next", 0, NoFile, "take")
  /\ UNCHANGED <<schemVars, ghostVars, printVars, runVars>>

NextTake ==
  /\ CmdAt("take")
  /\ IF NothingLeft THEN CmdGoes("seek") /\ UNCHANGED <<ghostSent, orphans>>
     ELSE /\ ghostSent' = ghostSent \ {At(currentIdx)}
          /\ orphans' = orphans \ {At(currentIdx)}
          /\ cmd' = [cmd EXCEPT !.pc = "hide", !.at = At(currentIdx)]
  /\ UNCHANGED <<schemVars, ghostOn, shown, printVars, runVars, panicked>>

NextHide ==
  /\ CmdAt("hide")
  /\ shown' = shown \ {cmd.at}
  /\ orphans' = orphans \cup ({cmd.at} \cap ghostSent)
  /\ currentIdx' = currentIdx + 1 /\ Unclean
  /\ CmdGoes("seek")
  /\ UNCHANGED <<loaded, origin, originSet, currentLayer, ghostOn, ghostSent,
                 printVars, panicked>>

NextSeek ==
  /\ CmdAt("seek")
  /\ IF NothingLeft \/ Block(currentIdx).y = currentLayer
     THEN CmdGoes("idle") /\ UNCHANGED <<currentIdx, runVars>>
     ELSE currentIdx' = currentIdx + 1 /\ Unclean /\ UNCHANGED cmd
  /\ UNCHANGED <<loaded, origin, originSet, currentLayer, ghostVars,
                 printVars, panicked>>

NextPanics ==
  /\ CmdAt("take") \/ CmdAt("seek")
  /\ \E t \in Tickers : tick[t].pc \in {"turn", "advance"}
  /\ Panics

Ghosts ==
  /\ ~ghostOn /\ Command("ghost", 0, NoFile, "idle")
  /\ ghostOn' = TRUE
  /\ UNCHANGED <<schemVars, ghostSent, shown, orphans, printVars, runVars>>

PrinterStart ==
  /\ loaded # NoFile /\ originSet /\ Command("start", 0, NoFile, "idle")
  /\ printing' = TRUE /\ late' = [t \in Tickers |-> -1]
  /\ UNCHANGED <<schemVars, ghostVars, runVars>>

\* The mutant tells the player but not the printer.
StopIgnored == printing' = printing
StopObeyed == printing' = FALSE

PrinterStop ==
  /\ Command("stop", 0, NoFile, "idle")
  /\ StopObeyed /\ ToldToStop
  /\ UNCHANGED <<schemVars, ghostVars, runVars>>

-----------------------------------------------------------------------------
\* Another session or bot begins: its senders take the place of the last one's,
\* and it starts a ticker beside those that run.  A bot has no client yet.
NewSession ==
  /\ ~panicked /\ sessions < MaxSessions
  /\ sessions' = sessions + 1
  /\ viewer' \in {"client", "none"} /\ shown' = {} /\ orphans' = ghostSent
  /\ tick' = [tick EXCEPT ![sessions + 1] = Idle]
  /\ UNCHANGED <<schemVars, ghostOn, ghostSent, printVars, runVars, ncmds,
                 cmd, panicked>>

\* A client takes the bot over.  One that goes is written to in vain.
TakeOver ==
  /\ ~panicked /\ viewer = "none"
  /\ viewer' = "client"
  /\ UNCHANGED <<schemVars, ghostVars, printVars, runVars, ncmds, sessions,
                 tick, cmd, panicked>>

\* The session of a ticker has ended: it takes the stop instead of a tick.
TickerStops(t) ==
  /\ TickAt(t, "idle")
  /\ tick' = [tick EXCEPT ![t] = Off]
  /\ UNCHANGED <<schemVars, ghostVars, printVars, runVars, panicked>>

TickStep(t) ==
  \/ TickStart(t) \/ GhostMark(t) \/ GhostsEnd(t) \/ GhostShow(t)
  \/ NotDue(t) \/ Due(t) \/ PlaceDone(t) \/ PlaceSome(t) \/ PlaceTurn(t)
  \/ PlaceBlock(t) \/ PlaceAdvance(t) \/ TickPanics(t)

CmdStep ==
  \/ HideGhosts \/ DropGhosts \/ Swap \/ CmdRest
  \/ NextTake \/ NextHide \/ NextSeek \/ NextPanics

Next ==
  \/ \E t \in Tickers : TickStep(t) \/ TickerStops(t)
  \/ CmdStep
  \/ ClearingCommand \/ NextBlock \/ Ghosts \/ PrinterStart \/ PrinterStop
  \/ \E o \in Origins : SetOrigin(o)
  \/ NewSession \/ TakeOver \/ MapRace

Spec == Init /\ [][Next]_vars

\* The tickers tick, every printDelay-th tick of theirs is due, and a command
\* that has begun goes on.  Nothing makes a player type or a session begin or
\* end.
Fairness ==
  /\ WF_vars(\E t \in Tickers : TickStep(t))
  /\ SF_vars(\E t \in Tickers : Due(t))
  /\ WF_vars(CmdStep)

FairSpec == Spec /\ Fairness

-----------------------------------------------------------------------------
TickPC == {"off", "idle", "ghosts", "show", "print"} \cup PlacePC

TypeOK ==
  /\ loaded \in Files \cup {NoFile} /\ origin \in Origins \cup {0}
  /\ originSet \in BOOLEAN /\ currentIdx \in Nat /\ currentLayer \in Layers
  /\ ghostOn \in BOOLEAN /\ printing \in BOOLEAN
  /\ ghostSent \subseteq Int \X Layers /\ shown \subseteq Int \X Layers
  /\ orphans \subseteq ghostSent
  /\ tick \in [Tickers -> [pc : TickPC, i : Nat, at : Int \X Layers]]
  /\ cmd.pc \in {"idle", "clear", "drop", "swap", "rest", "take", "hide",
                 "seek"}
  /\ cmd.file \in Files \cup {NoFile}
  /\ ncmds \in 0..MaxCmds /\ sessions \in Tickers
  /\ viewer \in {"client", "none"}
  /\ run \in Seq(Nat) /\ clean \in BOOLEAN
  /\ late \in [Tickers -> Nat \cup {-1}]
  /\ panicked \in BOOLEAN
  /\ (originSet /\ cmd.pc = "idle" => loaded # NoFile)

\* A marked ghost is on the screen of the client, or it would never be shown
\* again: of the mark and show of any number of tickers and the hide and drop
\* of clearGhosts, no order leaves one marked and hidden (schematic.go:99-104,
\* :109-114).  What does leave one, and is set aside as orphans: next, when a
\* tick marks between its lines :320 and :321, and marks whose show went to an
\* earlier client or to none.
MarkedIsShown ==
  cmd.pc # "drop" =>
    \A g \in ghostSent \ orphans :
      g \in shown \/ \E t \in Tickers : tick[t].pc = "show" /\ tick[t].at = g

\* The printer that stops by itself has placed the layer, every block of it
\* once and in order, whichever tickers took turns, unless a command moved the
\* index or two tickers were in placeNext at once: two of those can place a
\* block twice and pass over the next (schematic.go:126-154).
LayerPlaced ==
  [][ \A t \in Tickers :
        tick[t].pc = "place" /\ tick'[t].pc = "idle" /\ clean =>
          /\ ToSet(run) = {i \in 0..(Len0 - 1) : Block(i).y = currentLayer}
          /\ \A j, k \in DOMAIN run : j < k => run[j] < run[k] ]_vars

\* After the printer is told to stop, or the schematic goes, each ticker may
\* still place one block, the one it is at (schematic.go:76-80).
StopsWithinOne == \A t \in Tickers : late[t] <= 1

\* The printer ends by itself once the player leaves it alone, while a ticker
\* runs (schematic.go:127-130).
PrinterEnds ==
  printing /\ ncmds = MaxCmds /\ cmd.pc = "idle" ~>
    ~printing \/ panicked \/ \A t \in Tickers : tick[t].pc = "off"

-----------------------------------------------------------------------------
\* schematic.go:356 answers "Ghost blocks OFF": with the tickers idle, hiding
\* the ghosts leaves none of them on the client's screen.
GhostsOff ==
  [][ cmd.op = "ghost" /\ cmd.pc = "clear" /\ cmd'.pc = "drop"
      /\ (\A t \in Tickers : tick[t].pc \in {"off", "idle"})
      => shown' = {} ]_vars
=============================================================================
