------------------------------ MODULE Trackers ------------------------------
(***************************************************************************)
(* The mods that follow what the server says: EntityTracker                *)
(* (mods/entities.go), StateTracker (mods/playerstate.go), BlockRegistry   *)
(* (mods/blockregistry.go), QueueWaiter (mods/queuewaiter.go) and          *)
(* AutoReconnect (mods/autoreconnect.go).                                  *)
(* Each session and each bot reads a server of its own, and they overlap;  *)
(* the mods are shared by all.  A packet goes through all of them, each    *)
(* taking those of its own kinds.  EntityTracker and BlockRegistry do it   *)
(* under a lock, in one step.  StateTracker tests the player's id outside  *)
(* of its lock, and QueueWaiter has none: there the servers' steps mix.    *)
(* None of these mods is told of a new session.                            *)
(***************************************************************************)
EXTENDS Integers, Sequences, Functions, FiniteSetsExt

CONSTANTS
  Ids,          (* runtime ids                                             *)
  Unique,       (* Unique[s][r]: the unique id of entity r of server s,    *)
                (* maybe not r, and maybe another's runtime id             *)
  Places,       (* where an entity or the player can be                    *)
  Unknown,      (* no place                                                *)
  Names, Clean, (* block names, and Clean[n]: n without its namespace      *)
  Palettes,     (* the block lists a server can send, often none           *)
  Static,       (* the palette files there can be at the start, or none    *)
  Queue,        (* the queue positions a message can hold                  *)
  NotifyAt,     (* QueueWaiter's threshold, 10 in the code                 *)
  MaxPkts,      (* bound: packets that change something                    *)
  MaxSessions   (* bound: sessions and bots                                *)

Servers == 1..MaxSessions

ASSUME TrackersAssumption ==
  /\ Ids \subseteq Nat \ {0} /\ Unknown \notin Places
  /\ Unique \in [Servers -> [Ids -> Nat]]
  /\ Clean \in [Names -> Names] /\ Palettes \subseteq Seq(Names)
  /\ \A raw \in Static :
       DOMAIN raw \subseteq Names /\ raw \in [DOMAIN raw -> Nat]
  /\ Queue \subseteq Nat \ {0} /\ NotifyAt \in Nat \ {0}
  /\ MaxPkts \in Nat /\ MaxSessions \in Nat \ {0}

VARIABLES
  entities,     (* EntityTracker: the place of each tracked runtime id     *)
  runtimeID,    (* StateTracker: the player's id, 0 before any             *)
  position,     (* StateTracker: the player's place                        *)
  moving,       (* moving[s]: the place a move that has passed its test    *)
                (* is about to write there                                 *)
  nameToID,     (* BlockRegistry: the id of each name it knows             *)
  queuePos,     (* QueueWaiter: its position                               *)
  waiter,       (* waiter[s]: where its HandlePacket is with a message of  *)
                (* server s, the position in the last one, and oldPos      *)
  triggered,    (* AutoReconnect                                           *)
  sleeping,     (* its goroutines asleep                                   *)
  sending,      (* those in their send                                     *)
  reconnectCh,  (* what its channel holds                                  *)
  session,      (* sessions and bots begun                                 *)
  npkts,
  world,        (* world[s]: what server s has, by the packets taken of it *)
  gone,         (* gone[s]: what it has removed and not added again        *)
  teller,       (* teller[r]: the server that last put or moved what is    *)
                (* tracked as r; 0 once a removal has taken that           *)
  self,         (* self[s]: the player's id and place as server s told     *)
  speaker,      (* the server that last said who the player is             *)
  foreign,      (* another than that has placed the player since           *)
  palette,      (* the last list of blocks a server sent                   *)
  owed          (* owed[s]: the last position above the threshold is of s, *)
                (* or came after it, and nothing was announced since       *)

entityVars == <<entities, world, gone, teller>>
stateVars  == <<runtimeID, position, moving, self, speaker, foreign>>
blockVars  == <<nameToID, palette>>
queueVars  == <<queuePos, waiter, owed>>
againVars  == <<triggered, sleeping, sending, reconnectCh>>
vars == <<entityVars, stateVars, blockVars, queueVars, againVars, session, npkts>>

Nobody == [id |-> 0, at |-> Unknown]
Empty == [r \in {} |-> Unknown]

\* The names a block goes by; those of a list, and the id each has there: that
\* of the last block so named, counted from 0.
Named(n) == {n, Clean[n]}
Said(pal) == UNION {Named(pal[i]) : i \in DOMAIN pal}
IdIn(pal, n) == Max({i \in DOMAIN pal : n \in Named(pal[i])}) - 1

\* loadStaticPalette goes through the file's names in any order.
Loaded(raw) ==
  {f \in [UNION {Named(n) : n \in DOMAIN raw} -> Range(raw)] :
     \A m \in DOMAIN f : \E n \in DOMAIN raw : m \in Named(n) /\ f[m] = raw[n]}

Init ==
  /\ entities = Empty /\ teller = [r \in Ids |-> 0]
  /\ world = [s \in Servers |-> Empty] /\ gone = [s \in Servers |-> {}]
  /\ runtimeID = 0 /\ position = Unknown
  /\ moving = [s \in Servers |-> Unknown]
  /\ self = [s \in Servers |-> Nobody] /\ speaker = 0 /\ foreign = FALSE
  /\ nameToID \in UNION {Loaded(raw) : raw \in Static} /\ palette = << >>
  /\ queuePos = 0 /\ owed = [s \in Servers |-> FALSE]
  /\ waiter = [s \in Servers |-> [pc |-> "idle", pos |-> 0, old |-> 0]]
  /\ triggered = FALSE /\ sleeping = 0 /\ sending = 0 /\ reconnectCh = 0
  /\ session = 1 /\ npkts = 0

\* The reader of server s has the next packet.
Packet(s) ==
  /\ s <= session /\ moving[s] = Unknown /\ waiter[s].pc = "idle"
  /\ npkts < MaxPkts /\ npkts' = npkts + 1 /\ UNCHANGED session
Put(f, r, x) == [i \in DOMAIN f \cup {r} |-> IF i = r THEN x ELSE f[i]]

-----------------------------------------------------------------------------
\* AddPlayer, AddActor.
Add(s, r, x) ==
  /\ Packet(s)
  /\ entities' = Put(entities, r, x) /\ teller' = [teller EXCEPT ![r] = s]
  /\ world' = [world EXCEPT ![s] = Put(@, r, x)]
  /\ gone' = [gone EXCEPT ![s] = @ \ {r}]
  /\ UNCHANGED <<stateVars, blockVars, queueVars, againVars>>

\* An entity moves, and is moved if it is tracked.  A server moves nothing it has
\* removed.
Moved(f, r, x) == IF r \in DOMAIN f THEN [f EXCEPT ![r] = x] ELSE f

EntityMoves(s, r, x) ==
  /\ r \notin gone[s]
  /\ entities' = Moved(entities, r, x)
  /\ teller' = [teller EXCEPT ![r] = IF @ = 0 THEN 0 ELSE s]
  /\ world' = [world EXCEPT ![s] = Moved(@, r, x)] /\ UNCHANGED gone

\* MoveActorAbsolute, MoveActorDelta.
MoveActor(s, r, x) ==
  /\ Packet(s) /\ EntityMoves(s, r, x)
  /\ UNCHANGED <<stateVars, blockVars, queueVars, againVars>>

\* MovePlayer, which both trackers take: of the player itself, or of another.
\* The mutant takes any for the player's own.
IsAnyone(r) == TRUE
IsSelf(r) == r = runtimeID

MovePlayer(s, r, x) ==
  /\ Packet(s) /\ EntityMoves(s, r, x)
  /\ moving' = [moving EXCEPT ![s] = IF IsSelf(r) THEN x ELSE Unknown]
  /\ self' = [self EXCEPT ![s].at = IF r = self[s].id THEN x ELSE @]
  /\ UNCHANGED <<runtimeID, position, speaker, foreign, blockVars, queueVars,
                 againVars>>

\* The test of the id is past: the lock is taken and the place written.
MoveLands(s) ==
  /\ moving[s] # Unknown
  /\ position' = moving[s] /\ moving' = [moving EXCEPT ![s] = Unknown]
  /\ foreign' = (s # speaker)
  /\ UNCHANGED <<runtimeID, self, speaker, entityVars, blockVars, queueVars,
                 againVars, session, npkts>>

\* RemoveActor, by unique id.  The mutant removes nothing.
KeepRemoved(u) == DOMAIN entities
KeepOthers(u) == DOMAIN entities \ {u}

RemoveActor(s, r) ==
  LET u == Unique[s][r]
  IN /\ Packet(s)
     /\ entities' = Restrict(entities, KeepOthers(u))
     /\ teller' = [i \in Ids |-> IF i = u THEN 0 ELSE teller[i]]
     /\ world' = [world EXCEPT ![s] = Restrict(@, DOMAIN @ \ {r})]
     /\ gone' = [gone EXCEPT ![s] = @ \cup {r}]
     /\ UNCHANGED <<stateVars, blockVars, queueVars, againVars>>

-----------------------------------------------------------------------------
\* A server's list of blocks, taken into what is known already.  The mutant
\* keeps the ids it knows.
KeepKnown(f, pal) ==
  [n \in DOMAIN f \cup Said(pal) |->
     IF n \in DOMAIN f THEN f[n] ELSE IdIn(pal, n)]
TakenIn(f, pal) ==
  [n \in DOMAIN f \cup Said(pal) |->
     IF n \in Said(pal) THEN IdIn(pal, n) ELSE f[n]]

\* A server says once who the player is and, maybe, which blocks it has.
StartGame(s, r, x, pal) ==
  /\ Packet(s) /\ self[s] = Nobody
  /\ runtimeID' = r /\ position' = x
  /\ self' = [self EXCEPT ![s] = [id |-> r, at |-> x]]
  /\ speaker' = s /\ foreign' = FALSE
  /\ nameToID' = TakenIn(nameToID, pal)
  /\ palette' = IF pal = << >> THEN palette ELSE pal
  /\ UNCHANGED <<moving, entityVars, queueVars, againVars>>

Respawn(s, x) ==
  /\ Packet(s) /\ self[s] # Nobody
  /\ position' = x /\ self' = [self EXCEPT ![s].at = x]
  /\ foreign' = (s # speaker)
  /\ UNCHANGED <<runtimeID, moving, speaker, entityVars, blockVars, queueVars,
                 againVars>>

-----------------------------------------------------------------------------
\* A message with a queue position: oldPos is read, the new one written, and,
\* when the bar has been sent to the client, read again for two tests.
WaiterAt(s, pc) ==
  /\ waiter[s].pc = pc
  /\ UNCHANGED <<entityVars, stateVars, blockVars, againVars, session, npkts>>
WaiterGoes(s, pc) == waiter' = [waiter EXCEPT ![s].pc = pc]
Nothing == [s \in Servers |-> FALSE]

QueueMessage(s, p) ==
  /\ Packet(s)
  /\ waiter' = [waiter EXCEPT ![s] = [pc |-> "write", pos |-> p, old |-> queuePos]]
  /\ owed' = IF \E u \in Servers \ {s} : waiter[u].pc # "idle" THEN Nothing ELSE owed
  /\ UNCHANGED <<queuePos, entityVars, stateVars, blockVars, againVars>>

QueueWrite(s) ==
  /\ WaiterAt(s, "write") /\ WaiterGoes(s, "test")
  /\ queuePos' = waiter[s].pos
  /\ owed' = [owed EXCEPT ![s] =
       @ \/ /\ waiter[s].pos > NotifyAt
            /\ \A u \in Servers \ {s} : waiter[u].pc = "idle"]

\* [QUEUE_READY]: the threshold is reached.  Mutant: it must fall by one.
AnnouncesNext(old) == old = NotifyAt + 1 /\ queuePos <= NotifyAt
Announces(old) == old > NotifyAt /\ queuePos <= NotifyAt

QueueTest(s) ==
  /\ WaiterAt(s, "test") /\ WaiterGoes(s, "done")
  /\ owed' = IF Announces(waiter[s].old) THEN Nothing ELSE owed
  /\ UNCHANGED queuePos

\* [QUEUE_READY] 1, at the end of a queue, which is forgotten.
QueueDone(s) ==
  /\ WaiterAt(s, "done") /\ WaiterGoes(s, "idle")
  /\ IF queuePos <= 1 THEN queuePos' = 0 /\ owed' = Nothing
                      ELSE UNCHANGED <<queuePos, owed>>

-----------------------------------------------------------------------------
\* Disconnect, unless one has been seen in the last ReconnectDelay.  The mutant
\* does not remember.
Forgets == triggered' = triggered
Remembers == triggered' = TRUE

Disconnect(s) ==
  /\ Packet(s) /\ ~triggered
  /\ Remembers
  /\ sleeping' = sleeping + 1
  /\ UNCHANGED <<entityVars, stateVars, blockVars, queueVars, sending,
                 reconnectCh>>

Wakes ==
  /\ sleeping > 0
  /\ triggered' = FALSE
  /\ sleeping' = sleeping - 1 /\ sending' = sending + 1
  /\ UNCHANGED <<entityVars, stateVars, blockVars, queueVars, reconnectCh,
                 session, npkts>>

\* Nothing receives from the channel, which has room for one.
RoomForTwo == reconnectCh < 2
HasRoom == reconnectCh < 1

Sends ==
  /\ sending > 0 /\ HasRoom
  /\ sending' = sending - 1 /\ reconnectCh' = reconnectCh + 1
  /\ UNCHANGED <<entityVars, stateVars, blockVars, queueVars, triggered,
                 sleeping, session, npkts>>

-----------------------------------------------------------------------------
\* Another session or bot begins, beside those that run.
NewSession ==
  /\ session < MaxSessions
  /\ session' = session + 1
  /\ UNCHANGED <<entityVars, stateVars, blockVars, queueVars, againVars, npkts>>

\* What the schematic builder asks for the id of a block it has the name of.
RuntimeIDForBlock(n) ==
  IF n \in DOMAIN nameToID THEN nameToID[n]
  ELSE IF Clean[n] \in DOMAIN nameToID THEN nameToID[Clean[n]] ELSE 0

ServerStep(s) ==
  \/ \E r \in Ids, x \in Places :
       \/ Add(s, r, x) \/ MoveActor(s, r, x) \/ MovePlayer(s, r, x)
       \/ \E pal \in Palettes : StartGame(s, r, x, pal)
  \/ \E r \in Ids : RemoveActor(s, r)
  \/ \E x \in Places : Respawn(s, x)
  \/ \E p \in Queue : QueueMessage(s, p)
  \/ MoveLands(s) \/ QueueWrite(s) \/ QueueTest(s) \/ QueueDone(s)
  \/ Disconnect(s)

Next ==
  \/ \E s \in Servers : ServerStep(s)
  \/ Wakes \/ Sends \/ NewSession

Spec == Init /\ [][Next]_vars

-----------------------------------------------------------------------------
TypeOK ==
  /\ DOMAIN entities \subseteq Ids /\ entities \in [DOMAIN entities -> Places]
  /\ DOMAIN world = Servers
  /\ \A s \in Servers : /\ DOMAIN world[s] \subseteq Ids
                        /\ world[s] \in [DOMAIN world[s] -> Places]
  /\ gone \in [Servers -> SUBSET Ids]
  /\ teller \in [Ids -> Servers \cup {0}]
  /\ runtimeID \in Ids \cup {0} /\ position \in Places \cup {Unknown}
  /\ moving \in [Servers -> Places \cup {Unknown}]
  /\ self \in [Servers -> [id : Ids \cup {0}, at : Places \cup {Unknown}]]
  /\ speaker \in Servers \cup {0} /\ foreign \in BOOLEAN
  /\ DOMAIN nameToID \subseteq Names /\ nameToID \in [DOMAIN nameToID -> Nat]
  /\ palette \in Seq(Names)
  /\ queuePos \in Queue \cup {0} /\ owed \in [Servers -> BOOLEAN]
  /\ waiter \in [Servers -> [pc : {"idle", "write", "test", "done"},
                            pos : Queue \cup {0}, old : Queue \cup {0}]]
  /\ triggered \in BOOLEAN
  /\ sleeping \in Nat /\ sending \in Nat /\ reconnectCh \in 0..1
  /\ session \in Servers /\ npkts \in 0..MaxPkts

\* What a server has, or has removed by an id that is its runtime id, is tracked
\* where that server put it, or not at all, if the entry under the id is its
\* own: not when another server, of an earlier session or of one that
\* overlaps, put or moved an entity of the same id since, nor when a removal
\* by a unique id hit that of another entity (entities.go:76-125, keyed by two
\* kinds of id).
EntitiesFollow ==
  \A s \in Servers, r \in Ids :
    /\ r \in DOMAIN world[s] /\ teller[r] = s =>
         r \in DOMAIN entities /\ entities[r] = world[s][r]
    /\ r \in gone[s] /\ Unique[s][r] = r /\ teller[r] \in {0, s} =>
         r \notin DOMAIN entities

\* The player's id is that of the server that said last who it is, and the place
\* the one that server told last, if no other server has placed its player, or
\* an entity of that id, since; a move that has passed its test counts once it
\* is written (playerstate.go:52-57, :62; headless.go:195, schematic.go:86 use
\* them).
PlayerFollows ==
  speaker # 0 =>
    /\ runtimeID = self[speaker].id
    /\ ~foreign /\ moving[speaker] = Unknown => position = self[speaker].at

\* Whatever palette files and earlier lists left behind, a name of the last list
\* a server sent, with its namespace or without, gives the id of a block that
\* goes by it there (blockregistry.go:81-87, :98-109).
NamesFollow ==
  \A n \in Said(palette) :
    \E i \in DOMAIN palette :
      RuntimeIDForBlock(n) = i - 1 /\ n \in Named(palette[i])

\* A queue that was above the threshold and is not any more has been announced
\* since it was, whichever servers' messages came between, unless two were
\* handled at once: the second may hide the first's fall from its test
\* (queuewaiter.go:96-98, :128, :139-144).
FallsAnnounced ==
  \A s \in Servers :
    owed[s] /\ waiter[s].pc = "idle" => waiter[s].pos > NotifyAt

\* However many sessions disconnect, one reconnect at most is being waited
\* for, and it is on (autoreconnect.go:27, :34).
OneWaits == sleeping = IF triggered THEN 1 ELSE 0
=============================================================================
