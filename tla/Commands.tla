------------------------------ MODULE Commands ------------------------------
(***************************************************************************)
(* The mods that all sessions share (mods/commands.go, modules.go,         *)
(* packetrecorder.go, welcome.go; schematic.go as one that answers).  A    *)
(* session, or a run of the headless bot, first hands its send functions   *)
(* to every mod (initMods), then its pipes, and the bot's own reader of    *)
(* its server, take packets through them: the command router may answer    *)
(* and drop a packet, the recorder files what it sees, the schematic       *)
(* builder and the help answer what is left.  Nothing is locked.           *)
(***************************************************************************)
EXTENDS Integers, Sequences

CONSTANTS
  Sessions,   (* proxied sessions, and runs of the bot                     *)
  Bots,       (* the latter: their client comes later, if at all           *)
  None,       (* no session: a mod nobody has initialised                  *)
  Streams     (* what may come: the packets each pipe gets to read         *)

\* The two pipes, and the bot's own reader, which goes on beside the server's
\* pipe: which of the two gets a packet is settled by stream.
Ends == {"client", "server", "own"}
Pipes == Sessions \X Ends

\* What the router takes ("unknown" names no registered module or setting),
\* what later mods take, and what nobody does ("nan" holds a value that JSON
\* cannot).  %set stores TRUE for the words true, 1 and on ("setOn") and FALSE
\* for any other: off and the like ("setOff"), but yes or TRUE too ("setYes").
RouterKinds == {"mods", "toggle", "info", "setOn", "setOff", "setYes", "unknown"}
Kinds == RouterKinds \cup {"schem", "help", "chat", "nan"}

ASSUME CommandsAssumption ==
  /\ None \notin Sessions
  /\ Streams \subseteq [Sessions -> [Ends -> Seq(Kinds)]]

Mods == <<"router", "recorder", "schem", "welcome">>   \* as registered
Answering == {"router", "schem", "welcome"}
Torn == <<None, "client", 0>>                          \* a spoilt record

VARIABLES
  stream,     (* stream[s][e]: the packets that come to the pipe of end e  *)
  inited,     (* inited[s]: mods its initMods has been through, -1 before  *)
  settled,    (* settled[s]: sessions past initMods when s began its own   *)
  disturbed,  (* sessions since whose beginning another initialised a mod  *)
  client,     (* client[s]: the client its send function writes to         *)
  sender,     (* sender[m]: whose send function mod m has                  *)
  replies,    (* answers: who asked, whose client was sent it              *)
  enabled,    (* DeathTracker, the one registered Module: switched on      *)
  announce,   (* its one setting                                           *)
  seen,       (* seen[s]: what the two were since s read or did its command *)
  claim,      (* claim[s]: what the answer to that command said they are   *)
  flips,      (* whether the toggles so far are odd in number              *)
  crossed,    (* two toggles have been under way at once                   *)
  pipe,       (* pipe[p]: where the pipe is, and the value it has loaded   *)
  nread,      (* nread[p]: packets it has read                             *)
  encoder,    (* the recorder has a file                                   *)
  broken,     (* a write to it failed: its encoder takes no more           *)
  log,        (* its records: pipe and number of the packet                *)
  shared,     (* pipes in Encode whose buffer another has used since       *)
  late        (* pipes in Encode of a file that has been replaced          *)

initVars   == <<stream, inited, settled, disturbed, sender>>
moduleVars == <<enabled, announce, seen, flips, crossed>>
recordVars == <<encoder, broken, log, shared, late>>
vars == <<initVars, client, replies, moduleVars, claim, pipe, nread, recordVars>>

Begun(s) == inited[s] >= 0
Ready(s) == inited[s] = Len(Mods)
Held == {<<"enabled", enabled>>, <<"announce", announce>>}
Nothing == <<"none", FALSE>>

Init ==
  /\ stream \in Streams
  /\ inited = [s \in Sessions |-> -1]
  /\ settled = [s \in Sessions |-> {}]
  /\ disturbed = {}
  /\ client = [s \in Sessions |-> IF s \in Bots THEN "none" ELSE "open"]
  /\ sender = [m \in Answering |-> None]
  /\ replies = {}
  /\ enabled = FALSE /\ announce = TRUE
  /\ seen = [s \in Sessions |-> Held]
  /\ claim = [s \in Sessions |-> Nothing]
  /\ flips = FALSE /\ crossed = FALSE
  /\ pipe = [p \in Pipes |-> [pc |-> "read", val |-> FALSE]]
  /\ nread = [p \in Pipes |-> 0]
  /\ encoder = FALSE /\ broken = FALSE /\ log = << >> /\ shared = {} /\ late = {}

-----------------------------------------------------------------------------
Begin(s) ==
  /\ ~Begun(s)
  /\ inited' = [inited EXCEPT ![s] = 0]
  /\ settled' = [settled EXCEPT ![s] = {t \in Sessions : Ready(t)}]
  /\ UNCHANGED <<stream, disturbed, sender, client, replies, moduleVars, claim, pipe,
                 nread, recordVars>>

\* Mutants: a mod keeps the first function a session gives it; it takes none.
KeepSender(m, s) == IF sender[m] = None THEN s ELSE sender[m]
NoSender(m, s) == None
NewSender(m, s) == s

At(pc) == {p \in Pipes : pipe[p].pc = pc}

\* os.Create truncates the file and the recorder encodes to it from now on, or
\* fails and everything stays as it is.
CreateFile ==
  \/ /\ encoder' = TRUE /\ broken' = FALSE /\ log' = << >>
     /\ shared' = {} /\ late' = At("encode")
  \/ UNCHANGED recordVars

InitMod(s) ==
  /\ Begun(s) /\ ~Ready(s)
  /\ inited' = [inited EXCEPT ![s] = @ + 1]
  /\ disturbed' = disturbed \cup {t \in Sessions \ {s} : Begun(t)}
  /\ LET m == Mods[inited[s] + 1] IN
       IF m = "recorder" THEN CreateFile /\ UNCHANGED sender
       ELSE /\ sender' = [sender EXCEPT ![m] = NewSender(m, s)]
            /\ UNCHANGED recordVars
  /\ UNCHANGED <<stream, settled, client, replies, moduleVars, claim, pipe, nread>>

\* A client takes the bot over, which it may before initMods; one goes away.
TakeOver(s) ==
  /\ client[s] = "none"
  /\ client' = [client EXCEPT ![s] = "open"]
  /\ UNCHANGED <<initVars, replies, moduleVars, claim, pipe, nread, recordVars>>

Leaves(s) ==
  /\ client[s] = "open"
  /\ client' = [client EXCEPT ![s] = "closed"]
  /\ UNCHANGED <<initVars, replies, moduleVars, claim, pipe, nread, recordVars>>

-----------------------------------------------------------------------------
Packet(p) == stream[p[1]][p[2]][nread[p]]
GoesWith(p, from, to, val) ==
  /\ pipe[p].pc = from
  /\ pipe' = [pipe EXCEPT ![p] = [pc |-> to, val |-> val]]
Goes(p, from, to) == GoesWith(p, from, to, FALSE)

\* The pipes wait for the client.  Only its packets concern the router.
Read(p) ==
  /\ Ready(p[1]) /\ (p[2] = "own" \/ client[p[1]] # "none")
  /\ nread[p] < Len(stream[p[1]][p[2]])
  /\ Goes(p, "read", IF p[2] = "client" THEN "router" ELSE "recorder")
  /\ nread' = [nread EXCEPT ![p] = @ + 1]
  /\ IF p[2] = "client"
     THEN /\ seen' = [seen EXCEPT ![p[1]] = Held]
          /\ claim' = [claim EXCEPT ![p[1]] = Nothing]
     ELSE UNCHANGED <<seen, claim>>
  /\ UNCHANGED <<initVars, client, replies, enabled, announce, flips, crossed,
                 recordVars>>

\* A mod answers through the function it has; a client that is not there, or no
\* longer, is not sent anything.
Answer(s, m, said) ==
  /\ claim' = [claim EXCEPT ![s] = said]
  /\ replies' =
       IF client[sender[m]] = "open"
       THEN replies \cup {[asker |-> s, to |-> sender[m]]} ELSE replies

\* Session s changes the module: it sees only what comes of its own change.
Became(s, on, says) ==
  /\ enabled' = on /\ announce' = says
  /\ seen' = [t \in Sessions |->
                (IF t = s THEN {} ELSE seen[t])
                  \cup {<<"enabled", on>>, <<"announce", says>>}]

Passes(p) ==
  /\ Packet(p) \notin RouterKinds
  /\ Goes(p, "router", "recorder")
  /\ UNCHANGED <<initVars, client, replies, moduleVars, claim, nread, recordVars>>

\* %mods and %info report, an unknown name is an error: nothing changes.
Listed == <<"enabled", enabled>>
Informed == <<"announce", announce>>
Reports(p) ==
  /\ \E a \in {<<"mods", Listed>>, <<"info", Informed>>, <<"unknown", Nothing>>} :
       a[1] = Packet(p) /\ Answer(p[1], "router", a[2])
  /\ Goes(p, "router", "read")
  /\ UNCHANGED <<initVars, client, moduleVars, nread, recordVars>>

\* %set stores what the word stands for, and answers with the word itself.
Stored(p) == Packet(p) = "setOn"
Echo(p) == IF Packet(p) = "setYes" THEN <<"yes", TRUE>>
                                   ELSE <<"announce", Packet(p) = "setOn">>
Sets(p) ==
  /\ Packet(p) \in {"setOn", "setOff", "setYes"}
  /\ Became(p[1], enabled, Stored(p))
  /\ Answer(p[1], "router", Echo(p))
  /\ Goes(p, "router", "read")
  /\ UNCHANGED <<initVars, client, flips, crossed, nread, recordVars>>

\* mod.enabled = !mod.enabled, a load and a store, then the answer.
ToggleLoads(p) ==
  /\ Packet(p) = "toggle"
  /\ GoesWith(p, "router", "store", enabled)
  /\ crossed' = (crossed \/ At("store") # {})
  /\ UNCHANGED <<initVars, client, replies, enabled, announce, seen, flips,
                 claim, nread, recordVars>>

\* Mutant: %mod switches on and never off.
AlwaysOn(p) == TRUE
Flipped(p) == ~pipe[p].val

ToggleStores(p) ==
  /\ Goes(p, "store", "tell")
  /\ Became(p[1], Flipped(p), announce)
  /\ flips' = ~flips
  /\ UNCHANGED <<initVars, client, replies, crossed, claim, nread, recordVars>>

\* Mutant: the answer tells the opposite, the state the toggle found.
OldState == <<"enabled", ~enabled>>
NewState == <<"enabled", enabled>>

ToggleTells(p) ==
  /\ Goes(p, "tell", "read")
  /\ Answer(p[1], "router", NewState)
  /\ UNCHANGED <<initVars, client, moduleVars, nread, recordVars>>

-----------------------------------------------------------------------------
\* record: there is no file, or Encode fails before it has touched the buffer,
\* because a write has failed or the value cannot be encoded; record drops the
\* error.
Unrecorded(p) ==
  /\ ~encoder \/ broken \/ Packet(p) = "nan"
  /\ Goes(p, "recorder", IF p[2] = "client" THEN "rest" ELSE "read")
  /\ UNCHANGED <<initVars, client, replies, moduleVars, claim, nread, recordVars>>

\* Else it first fills the encoder's buffer, which a pipe in the same encoder
\* may be about to write from, then writes.
Fills(p) ==
  /\ encoder /\ ~broken /\ Packet(p) # "nan"
  /\ Goes(p, "recorder", "encode")
  /\ shared' = LET others == At("encode") \ late
               IN IF others = {} THEN shared ELSE shared \cup others \cup {p}
  /\ UNCHANGED <<initVars, client, replies, moduleVars, claim, nread, encoder,
                 broken, log, late>>

\* The bytes of a buffer two pipes used are either's or a mixture; those of a
\* replaced file land at its old offset, in the middle of what is there now.
\* Mutant: a record that finds the recorder busy is left out.
BusyRecords(p) == IF p \in shared \/ At("encode") # {p} THEN {log} ELSE
                  {Append(log, <<p[1], p[2], nread[p]>>)}
Records(p) ==
  {Append(log, r) : r \in
     {r \in {<<p[1], p[2], nread[p]>>, Torn} :
        /\ r = Torn => p \in shared \cup late
        /\ p \in late => r = Torn}}

Writes(p) ==
  /\ Goes(p, "encode", IF p[2] = "client" THEN "rest" ELSE "read")
  /\ log' \in Records(p)
  /\ shared' = shared \ {p} /\ late' = late \ {p}
  /\ UNCHANGED <<initVars, client, replies, moduleVars, claim, nread, encoder,
                 broken>>

\* The write fails, with some of the bytes written or none.  The error stays
\* with the encoder that met it.
WriteFails(p) ==
  /\ Goes(p, "encode", IF p[2] = "client" THEN "rest" ELSE "read")
  /\ log' \in {log, Append(log, Torn)}
  /\ broken' = (broken \/ p \notin late)
  /\ shared' = shared \ {p} /\ late' = late \ {p}
  /\ UNCHANGED <<initVars, client, replies, moduleVars, claim, nread, encoder>>

\* The mods after the recorder: %schem and %help are answered, the rest goes on
\* to the server.
Taker(p) == IF Packet(p) = "help" THEN "welcome" ELSE "schem"
Rest(p) ==
  /\ Goes(p, "rest", "read")
  /\ IF Packet(p) \in {"chat", "nan"} THEN UNCHANGED <<replies, claim>>
     ELSE Answer(p[1], Taker(p), Nothing)
  /\ UNCHANGED <<initVars, client, moduleVars, nread, recordVars>>

Router(p) == Passes(p) \/ Reports(p) \/ Sets(p) \/ ToggleLoads(p)

PipeStep(p) ==
  \/ Read(p)
  \/ pipe[p].pc = "router" /\ Router(p)
  \/ ToggleStores(p) \/ ToggleTells(p)
  \/ pipe[p].pc = "recorder" /\ (Unrecorded(p) \/ Fills(p))
  \/ Writes(p) \/ WriteFails(p)
  \/ pipe[p].pc = "rest" /\ Rest(p)

Next ==
  \/ \E s \in Sessions : Begin(s) \/ InitMod(s) \/ TakeOver(s) \/ Leaves(s)
  \/ \E p \in Pipes : PipeStep(p)

Spec == Init /\ [][Next]_vars

-----------------------------------------------------------------------------
PipePC == {"read", "router", "store", "tell", "recorder", "encode", "rest"}
Says == {"none", "enabled", "announce", "yes"} \X BOOLEAN

TypeOK ==
  /\ stream \in Streams
  /\ inited \in [Sessions -> -1..Len(Mods)]
  /\ settled \in [Sessions -> SUBSET Sessions]
  /\ disturbed \subseteq Sessions
  /\ client \in [Sessions -> {"none", "open", "closed"}]
  /\ sender \in [Answering -> Sessions \cup {None}]
  /\ replies \subseteq [asker : Sessions, to : Sessions]
  /\ {enabled, announce, flips, crossed, encoder, broken} \subseteq BOOLEAN
  /\ seen \in [Sessions -> SUBSET Says]
  /\ claim \in [Sessions -> Says]
  /\ pipe \in [Pipes -> [pc : PipePC, val : BOOLEAN]]
  /\ nread \in [Pipes -> Nat]
  /\ log \in Seq((Sessions \cup {None}) \X Ends \X Nat)
  /\ shared \subseteq Pipes /\ late \subseteq Pipes
  /\ \A s \in Sessions, i \in 1..Len(Mods) :
       i <= inited[s] /\ Mods[i] \in Answering => sender[Mods[i]] # None

\* An answer never goes to a session whose initMods was over before that of
\* the one who asked began: mods may serve a later session, or one that was
\* initialising them at the same time, never an earlier one (session.go:36).
NoEarlierRecipient == \A r \in replies : r.to \notin settled[r.asker]

\* And while nobody else initialises the mods, whoever asks is answered.
OwnAnswer == \A r \in replies : r.to = r.asker \/ r.asker \in disturbed

\* What an answer says the module is, it was at some moment since the asker's
\* change or, if it only asked, since its command was read (commands.go:80-135):
\* other sessions may change it meanwhile, nobody is told what never was.  One
\* answer is not so: %set answers with the word typed (:170), and where that is
\* yes or TRUE the module is never what it says (:166).
AnswersHeld ==
  \A s \in Sessions :
    claim[s][1] \in {"enabled", "announce"} => claim[s] \in seen[s]

\* Unless two toggles crossed, each has taken effect (commands.go:109).
NoLostToggle == ~crossed => enabled = flips

\* The recorder's file has the packets of a pipe, or of the bot's own reader, in
\* the order it took them, and leaves out none between two but those the router
\* took and those that cannot be encoded (packetrecorder.go:40-60): a pipe whose
\* write failed has no later record in that file either.  Unless a record was
\* spoilt, by another pipe's or by a write that failed half-way.
Handed(p) == {k \in 1..Len(stream[p[1]][p[2]]) :
                /\ stream[p[1]][p[2]][k] # "nan"
                /\ p[2] = "client" => stream[p[1]][p[2]][k] \notin RouterKinds}
Numbers(p) == {log[i][3] : i \in {i \in 1..Len(log) :
                                    log[i][1] = p[1] /\ log[i][2] = p[2]}}
Spoilt == \E i \in 1..Len(log) : log[i] = Torn

RecordedInOrder ==
  /\ \A i, j \in 1..Len(log) :
       i < j /\ log[i] # Torn /\ log[i][1] = log[j][1] /\ log[i][2] = log[j][2]
         => log[i][3] < log[j][3]
  /\ \A p \in Pipes : \A a, b \in Numbers(p) : \A k \in Handed(p) :
       ~Spoilt /\ a < k /\ k < b => k \in Numbers(p)
=============================================================================
