# BedrockForge panel: TLA+ verification project

The program is a web panel (`src/main.go`) that starts a headless Minecraft
Bedrock bot (`src/proxy/headless.go`). The bot keeps a connection to a game
server; when a real client connects, it takes the bot's session over, or, if no
bot is up, gets a proxied session of its own (`src/proxy/proxy.go`,
`src/proxy/session.go`). Packets pass through *mods* (`src/mods/`): command
router, trackers, queue waiter, schematic builder and others.

The sources have neither documentation nor tests. The modules below are
translated from the Go code; the few promises the code makes in comments and in
the messages it shows its user are quoted where a run contradicts one.

## 1. Inventory

| Component | State | Operations | Modelled in |
|---|---|---|---|
| Control panel, `main.go`, `proxy/botchat.go` | `botRunning` under `botMu`, `logs` under `logMu`, the stdout pipe | handlers start, stop, status, chat, logs; the start goroutine | `Panel` |
| Sign-in token, `proxy/auth.go` | `token.json`, which outlives the process | load, ask the user, refresh after two seconds, save | `Tokens`, over `Panel` |
| Headless bot, `proxy/headless.go` | `activeBot`; per bot `client`, `clientReady`, `cachedPkts` | dial, cache, wait for a takeover, replay, pipe, end; accept loop, `TakeoverBot` | `Headless` |
| Proxied session, `proxy/proxy.go`, `proxy/session.go` | two connections, `errc`, the ticker's stop channel | dial, StartGame, `initMods`, `runTicker`, two `pipe`s, the closing | `Sessions`, `Relay` |
| Mod registry, `mods/mods.go` | the global list; each mod's send functions | `Register`, `initMods`, `Tick`, `HandlePacket` | `Commands` (who has a mod's send function); the ticker's life in `Sessions` |
| Commands and modules, `mods/commands.go`, `modules.go`, `welcome.go` | a module's toggle and setting | `%mod`, `%set`, `%mods`, `%info`, `%help` | `Commands` |
| Packet recorder, `mods/packetrecorder.go` | an open file, its encoder | truncate at each session, record | `Commands` |
| Schematic builder, `mods/schematic.go` | schematic, origin, index, layer, ghosts sent, printer | `%schem` and `%printer` commands, `Tick` | `Schematic` |
| Schematic files, `mods/nbtschematic.go` | the blocks found so far | parse `.schematic`, `.nbt`, `.schem`, `.litematic` | `Files` |
| Block registry, `mods/blockregistry.go` | ids by name | load a palette file, take a server's list in, look up | `Trackers` |
| Entity tracker, `mods/entities.go` | `entities`, by runtime id | add, move, remove | `Trackers` |
| Player state, `mods/playerstate.go` | id, place; attributes, items | StartGame, MovePlayer, Respawn, ... | `Trackers` (id and place) |
| Queue waiter, `mods/queuewaiter.go` | position, total, enabled | message, `Tick` | `Trackers` (position and alert) |
| Auto reconnect, `mods/autoreconnect.go` | `triggered`, `ReconnectCh` | Disconnect, a delayed send | `Trackers` |
| Module settings, `config/config.go`; `drive.go` | a map, a file; a token store | get, set, save | not modelled: no caller in the program |
| Resource packs, DNS, chat logger, HTML page | - | load, print | not modelled: I/O without decisions |
| Packet logger, CPS counter, `*.go.bak` | - | - | not modelled: not registered, not compiled |

**How they interact.** `handleStart` launches `StartHeadlessAndListen` in a
goroutine, which signs in and runs an accept loop and the bot loop. Those two
meet in `activeBot` (under `activeBotMu`, except in `SendBotChat`), in the bot's
fields (under `bot.mu`, except one read) and in the channel `clientReady`. Every
session and every bot hands its own send functions to the one global list of
mods, while other sessions run: a session goes on when the next bot has dialled.
A mod is called from the two pipes of a session, from a bot's own reader of its
server (headless.go:136) and from a ticker of each session and bot, and most mods
lock nothing. `State` and `Blocks` are read by the schematic builder, `State`
also by the bot.

**What is hard.** The takeover (a pointer read under a lock and used after it, a
channel that must be closed once, a replay that races with live forwarding); ends
that go away while other goroutines are blocked on them; global mods under
sessions that come and go: whose client an answer goes to, toggles that cross,
one encoder under several pipes; the schematic builder's unlocked state between
commands and the ticks of several tickers; a flag (`botRunning`) that stands for a goroutine it does not
control; a token file that two goroutines may write and a kill may cut short;
state keyed by ids that outlive a session; entries packed across signed words.
`PROJECT.json` lists these hazards line by line with the properties that cover
them.

**What makes each component correct.** Panel: no two starts without a stop,
Online is true, every request is answered (but for one chat, see `AllAnswered`),
the log is the newest entries. Token:
whoever has signed in need not do so again. Headless: a takeover is served, the
client misses none of the server's state and ends the replay on the newest;
everything a bot started ends. Sessions: streams pass in order, one end's going
hangs the other up, nothing is left open. Commands: an answer goes to its asker,
or at worst to a later session, and is true; a toggle is not lost; the record is
in order and has no hole that goes on. Schematic: marks agree with the screen, a
layer is placed whole and in order, stop stops; each as far as the unlocked code
keeps it. Files: the blocks are the file's, each in
its cell. Trackers: what they hold is what some server said last, and whose word
counts is known.

## 2. Modules and what they stand for

`MC*` modules only give the constants of TLC's runs; `*Proofs` modules extend a
component with its theorems.

### Headless (`proxy/headless.go`, `pipe` of `session.go`)
One variable per field and per goroutine's program counter: `main` is `runBot`
and the loop around it, `accept` the accept loop with `TakeoverBot`, and per bot
`ticker`, `reader`, `pipeS`, `pipeC` (of the ticker its life; what a tick does is
in `Schematic`). A bot is one successful dial. A packet is its
position in the server's stream, `StatePkts` being those `runBot` caches; a
write to an open client appends to `got`. A step ends where another goroutine can
get in between: `TakeoverBot` is three (read `activeBot` and unlock; set
`bot.client` under `bot.mu`; close `clientReady`), the reader three (read; cache
and read `bot.client` under the mutex; write), the replay one per packet with
`bot.mu` held throughout (`MuFree`). A second close of `clientReady` is a panic,
which ends the process (`Running`). A dial that fails changes nothing and is not
a step. The order of the deferred calls is the code's: stop the ticker, unpublish,
close.

### Panel (`main.go`, `proxy/botchat.go`)
Each request is a goroutine with a program counter. Handlers take `botMu` and
then decide, log, spawn in the code's order. `gor` is the start goroutine (auth,
`Listen`, the loop); the port belongs to the first that listens, and a failure of
auth or `Listen` is `log.Fatalf`, the end of the process. `ChatCheck` and
`ChatDeref` are the two unlocked reads of `activeBot`; when the second finds nil the
handler panics, net/http drops the connection, and the request has no answer (pc
"panicked"). `withdrawn` is a history variable: the chats during whose two reads
runBot withdrew its bot. `AllAnswered` allows the missing answer to those alone.
`OneBotLoop`, proved here,
is what lets `Headless` have a single bot loop.

### Tokens (`proxy/auth.go`), over Panel
`Tokens` EXTENDS `Panel` and composes with it: the sign-in that `Panel` leaves
open (`AuthOK`, `AuthFails`) becomes `getTokenSource`. With a token on disk it
returns at once and leaves a goroutine behind that refreshes and saves two
seconds later; without one it asks the user and saves what it is given.
`os.WriteFile` empties the file and then writes it, in two steps, each of which
may fail. The file may hold a token at the start, which an earlier process left:
since the property is about every state, it covers a process killed at any step
and the restart after it. `spoilt` is a history variable: a save failed, or two
starts were between the halves of one at the same time.

### Sessions and Relay (`proxy/proxy.go`, `proxy/session.go`)
`Sessions` is `runSession` for any number of clients at once: dial, StartGame,
`initMods` and the start of the pipes, ticker, two pipes, first error, the two
closes, the deferred stop. `Stream` gives what each end sends: at each position,
whether the packet is a command that a mod drops. `Relay` is the abstract
specification: the packets to be kept of each end reach the other in order, once,
none skipped, and when one end is gone the other is closed. `Sessions` implements
it with `conn` as its connections and `Kept` as the packets that are no command.

### Commands (`mods/commands.go`, `modules.go`, `packetrecorder.go`, `welcome.go`)
The mods as sessions share them. Here `initMods` is one mod at a time, against
other sessions' `initMods` and pipes; a bot's client may take it over before,
within or after it (`TakeOver`), and never come at all. `sender[m]` is whose send
function mod `m` was given last. A pipe takes a packet through the router, the
recorder and the rest in that order, and so does a bot's own reader of its server
(`Ends` has "own"), which needs no client; which of it and the server's pipe gets
a packet after a handover is settled by `stream`. A toggle is a load, a store and
the answer. `%set` stores what a word stands for (`Stored`) and answers with the
word (`Echo`): of `yes` or `TRUE` it stores false and says "= yes", the one answer
`AnswersHeld` leaves out, because it does not hold.

`Encode` fills the encoder's buffer and then writes it, so two pipes can spoil each
other's record (`shared`), and one that writes to a file the next session has
truncated lands in the middle of it (`late`); the outcomes are the record or
`Torn`. The recorder drops Encode's error. A value that cannot be encoded (a float
that is no number, "nan") is left out before the buffer is touched; a write that
fails leaves nothing or a piece (`Torn`) and its error in the encoder, which takes
no more (`broken`), until the next session makes another. So what is missing
from a file is packets that cannot be encoded, or all from some moment on.

What the properties compare with is kept in history variables: `settled` (who was
past `initMods` when a session began its own), `disturbed` (whose mods somebody
else initialised since), `seen` (what the module was since a command began),
`claim` (what the answer said), `flips` and `crossed` (toggles so far, and whether
two crossed). `DeathTracker` is the one module that is registered and `announce`
its one setting.

### Schematic (`mods/schematic.go`)
`tick[t]` is the ticker of the `t`-th session or bot inside `Tick`, with its local
variables: there is one builder and, since sessions overlap, any number of tickers
over it (`NewSession`, `TickerStops`). `cmd` is the pipe inside `HandlePacket`; one
command runs at a time, so two clients that type at the same moment are left out.
Nothing is locked, so a ticker stops between the test and the body of the ghost
loop, between marking and showing a ghost, before and after each turn of the loop
of placeNext, between placing and advancing; and a command between hiding the
ghosts, dropping the marks and the rest, and in `next` between taking the mark
away, hiding the block and each turn of its loop. Positions have one horizontal
coordinate and a layer. `viewer` tells whether there is a client behind the last
session's `sendToClient`; `shown` is what that client sees. `TickPanics` and
`NextPanics` are the nil dereference or index out of range that one goroutine can
cause under another, `MapRace` the runtime's end on a map of ghosts two of them are
at. `printDelay` is a choice (`Due`, `NotDue`).

The code keeps less than one would like, and the properties say what it does keep:
- `MarkedIsShown` sets `orphans` aside: blocks that a tick marks between lines 320
  and 321 of `next`, which then hides them, and marks whose ghost went to an
  earlier client or to a bot with none.
- `LayerPlaced` is about layers during which no command moved the index and no two
  tickers were in placeNext at once (`clean`): two of those place a block twice and
  pass over the next. Tickers that take turns are in it.
- `StopsWithinOne` counts one block for each ticker, as each may have one in hand.

### Trackers (`mods/entities.go`, `playerstate.go`, `blockregistry.go`, `queuewaiter.go`, `autoreconnect.go`)
What the mods keep (`entities`, `runtimeID`, `position`, `nameToID`, `queuePos`,
`triggered`, the goroutines and the channel), written by the readers of several
servers at once (`Servers`, one of each session and bot), next to what each server
said (`world[s]`, `gone[s]`, `self[s]`). A packet is one step, taken by every mod
that handles its kind, but where the code gives another server's packet room: the
test of the player's id and the write of the place (playerstate.go:52, :53), and in
the queue waiter, which locks nothing, the read of the old position, the write of
the new one, and the two tests after it (:97, :98, :128, :139). The mods' `Init` is
empty, so `NewSession` adds a server and resets nothing. A list of blocks is taken
into the names known so far (`TakenIn`); the palette file at the start is gone
through in the order of a Go map (`Loaded`), so of two blocks with one name
without namespace either may win.

Whose word counts is kept in history variables. `teller[r]` is the server that
last put or moved what is tracked as `r`, 0 after a removal: `EntitiesFollow`
speaks of a server's own entries. A RemoveActor names a unique id and
entities.go:123 takes it for a runtime id, so where the two differ the entity stays,
or another one goes; `Unique` may be any numbering, with another entity's runtime id
in it, and the property says nothing of an entry that was hit so. `speaker` and
`foreign` tell who said last who the player is, and whether another server placed
its own player since. `owed[s]` is a position above the threshold that has not
been announced: `FallsAnnounced` says that a fall is announced, unless two messages
were in the waiter at once. It says nothing of more announcements, because there are
more: every position 1 prints `[QUEUE_READY] 1` (:140). And a queue that is first
seen at or below the threshold gets none until 1, though :13-15 has it "when
position reaches the notify threshold". `Disconnect` tests and sets `triggered` in
one step (autoreconnect.go:27, :30): that two readers cross there is left out.

The model takes it that the packets the code switches on reach the mods, that they
carry what the code takes them to carry (a MoveActorDelta's place is absolute,
entities.go:110), that a server moves nothing it has removed, and that a server's
packets are taken one at a time: a bot's two readers can swap packets of one
server (`headless_order`), and `world` is then by the packets in the order taken.

### Files (`mods/nbtschematic.go`)
A run parses one file, given as what its NBT decodes to: regions with a size,
entries and a palette, `ok` telling whether all fields are there. A step is one
turn of a loop; the regions of a Litematica file come in any order, as from a Go
map. Words have `W` bits and a sign: `>>` is `\div`, which rounds down as the
arithmetic shift does, `&` with a mask is `%`, `<<` wraps (`Signed`). A size that
is missing is 0, as `toInt` makes it. Names are abstract; `Clean`, `HasAir` and
`Blank` are what the code asks of them. `Bits` is the code's: the length of the
palette, at least 4, where the Litematica format takes the logarithm of it; the
reference `BlocksOfTheFile` compares with reads entries of that same width, bit
by bit. Worth knowing of this code: `parseNBTSchematic` has no caller, and what
`%schem list` lists of these formats is parsed as JSON by `%schem load`; the
Sponge parser drops every name that contains "air", stairs too; and a negative
Litematica word can make it panic (`PanicsOnlyFor` says exactly when).

## 3. Runs

| Run | Shows |
|---|---|
| `headless_bot` | one bot, two clients, every interleaving: types, `ClientBeforeReady`, `TakeoverServed`, `NoStateLost`, `ReplayCurrent`, and the liveness `ReconnectsAfterHandover`, `GoroutinesEnd` |
| `panel_safety` | `StartsNeedStops`, `OneBotLoop`, `OnlineHasBot`, `LogIsWindow`, `TokenKept`, `AllAnswered`, with the sign-in token |
| `sessions_relay` | `Sessions` implements `Relay` (`InOrder`, `HungUp`); `NothingLeftOpen`, `GoroutinesEnd` |
| `commands_safety` | a session and a run of the bot, with its own reader, share the mods: `NoEarlierRecipient`, `OwnAnswer`, `AnswersHeld`, `NoLostToggle`, `RecordedInOrder` |
| `schematic_safety` | commands against the tickers of two sessions that overlap: `MarkedIsShown`, `StopsWithinOne`, `LayerPlaced`, `PrinterEnds` |
| `files_parse` | some thirty thousand files: `InFileOrder`, `BlocksOfTheFile`, `PanicsOnlyFor` |
| `trackers_safety` | two servers read at once: `EntitiesFollow`, `PlayerFollows`, `NamesFollow`, `FallsAnnounced`, `OneWaits` |
| `headless_accept` | **violation** of `AcceptSurvives` |
| `headless_reconnect` | **violation** of `Reconnects` |
| `headless_order` | **violation** of `NormalPipeSession` |
| `panel_offline` | **violation** of `OfflineMeansNoBot` |
| `schematic_ghosts` | **violation** of `GhostsOff` |

What the properties mean is said above each of them in its module. Every
property of a passing run comes with a mutant (`PROJECT.json`): a plausible bug
in a mapped definition, written beside it, with which TLC finds the property
violated.

### What the violations show
- `headless_accept`: a second client during a taken-over session makes
  `TakeoverBot` close `clientReady` again; the panic ends the process
  (headless.go:41), though the loop is there to "Accept real clients in
  background" (:64).
- `headless_reconnect`: a bot whose server drops before any client has come
  waits on `clientReady` for ever (:174), in a loop that "reconnects
  automatically" (:78).
- `headless_order`: after a handover the reader goroutine goes on beside the
  pipe, so two goroutines read one server and write one client, and packets
  overtake each other in what :199 calls a "Normal pipe session".
- `panel_offline`: stop clears a flag; the bot runs on while the page shows
  "Offline" (main.go:114, html.go:46).
- `schematic_ghosts`: `%schem origin` forgets the marks of ghosts that are on
  the screen without hiding them (schematic.go:299), so "Ghost blocks OFF"
  leaves them there.

### Bounds, and why they are enough
- `Headless`: one bot; two clients, the second of which is the replacement or
  the extra one; two state packets, enough for an order and a loss. With two bots
  the temporal properties are beyond what TLC does in minutes; what one bot leaves
  to the next is only `activeBot` and the clients, and the proofs of the safety
  properties hold for any number of bots.
- `Panel` with `Tokens`: three requests of any kind (start, stop, start is the
  shortest story with two goroutines, and with two saves of a token), a log of two
  entries that overflows (three lines printed, beside what the handlers log), a token on disk or none.
- `Sessions`: one session with every packet, since sessions share nothing in this
  module; commands lie before, between and after packets to pass.
- `Commands`: a proxied session and a run of the bot, in either order of their
  `initMods`, and six scenarios of what comes (`MCStreams`): both toggle and one
  asks; toggles around a `%set`; one sets and one asks, an answer from each kind of
  mod; and the recorder under the pipes of both and the bot's own reader, with
  packets that cannot be encoded among them, while its writes fail and its file is
  replaced. The scenarios are separate because all of them at once is too much.
- `Schematic`: two schematics, one shorter, with a layer that is interrupted and
  has a last block on another; four commands (load, origin, start and one that
  disturbs them); two sessions or bots that overlap, each with its ticker, with a
  client, without, or taken over; one place to anchor at, which is enough since a
  later origin forgets the marks of the earlier one whatever it is.
  `schematic_ghosts` needs one session only.
- `Trackers`: two servers at once, where an entity of the first has the other's
  runtime id for its unique id, and of the second one that is nobody's; two places;
  queue positions on both sides of a threshold of 2, with 1, the end, among them; two
  lists of blocks that disagree and one that is empty, a palette file of another
  version or none; four packets, enough for two of each server in any order.
- `Files`: words of eight bits, so that a palette of five straddles them at every
  offset, one of eight fills a word and one of nine is too wide; volumes up to
  two cells a side and three, empty and negative ones, more and fewer entries than
  cells; up to three words, among them the most negative, -1, and patterns of
  every id; two regions in either order. A size of the first two formats is not
  negative, as the formats have it unsigned.

Runs with `CHECK_DEADLOCK FALSE` are of systems that may stop: an exit, a panic,
a silent server, everything answered.

### Fairness, and why the code justifies it
- `Headless`: weak fairness of each goroutine's steps (the Go scheduler), that
  StartGame returns (gophertunnel bounds it), and that a read on a closed
  connection of one's own fails. No fairness of dials, packets, clients or drops.
- `Panel`: weak fairness of handlers and of `Listen`'s return; none of a
  sign-in or a request; strong fairness of `Lock`, because
  `sync.Mutex` has a starvation mode that hands it to a waiter.
- `Sessions`: weak fairness of `runSession` (dial and StartGame have time
  limits), of the pipes, and of the ticker, which selects on its stop channel.
  None of packets or drops. The bot's ticker in `Headless` likewise.
- `Schematic`: weak fairness of the tickers together and of a command that has
  begun; strong fairness of `Due` of some ticker, since every `printDelay`-th tick
  is. None of the player, nor of sessions that begin or end: when all tickers have
  stopped, the printer waits, and `PrinterEnds` allows it.
- `Panel` with `Tokens` adds no fairness: a user need not sign in.
- `Commands`, `Trackers`, `Files`: safety only.

## 4. Proofs

TLAPS proves these for every value of the constants, under the module's named
assumption, which TLC evaluates on the instances.

| Module | Theorems | Inductive invariant, and why it is needed |
|---|---|---|
| `HeadlessProofs` | `TypeCorrect`, `ReleasedWithClient`, `TakeoverIsServed` | `HandoverInv`: `ClientBeforeReady` needs that a client is attached before the close (`ClosingAttached`), and `TakeoverServed` that an untaken bot is the current, published, waiting one (`UntakenWaits`) because only `clientReady` ends the wait |
| `HeadlessReplayProofs` | `StateIsNotLost`, `OneBotPerClient`, `ReplayEndsCurrent` | `ReplayInv` follows a state packet: read, so cached or about to be (`CachedBefore`); cached, so replayed once passed (`ReplayedSoFar`); in the session, written or in a goroutine's hands (`DeliveredInSession`). It rests on a connection being accepted once (`FreshClients`) and on the mutex held over the replay. `CurrentInv`: nobody but this bot's goroutines holds its client (`OneHolder`), and what its reader holds is the last it cached (`HandIsNewest`), so a packet it writes cannot undo the replay's last; the reader cannot cache another before the mutex is free |
| `PanelProofs` | `TypeCorrect`, `StartsAreGuarded`, `SingleBotLoop`, `OnlineIsTrue`, `LogWindow`; `ImplementsPanel`, `TokenStaysOnDisk` | `PanelInv`: the properties together with `SpawnedDone`, a launched goroutine's request is answered. `TokenInv`: a save has a token in hand, and a saver that sleeps belongs to a start that is past its sign-in; `Written` extends `TokenKept` to a sign-in that is over but has not returned |
| `SessionsProofs` | `TypeCorrect`, `ReturnsClosed`, `Relays`, `StreamsArriveAsSent` | `PipeInv` (what a pipe holds), `ConnInv` (how far a session is tells which connections exist), `StreamInv` (what has arrived is all of what was read but what is in hand) |
| `CommandsProofs` | `TypeCorrect`, `Recipients`, `AskerIsAnswered`, `TruthTold`, `TogglesKept`, `FileInOrder` | `HoldsInv`: a pipe that holds a packet is past `initMods`. `SenderInv`: a mod a session has been through has the function of no session settled before, and its own while it is undisturbed. `SeenInv`: what the module is now belongs to what each session has seen. `ToggleInv`: unless two crossed, one toggle at most is between load and store, and its value is still right. `RecordInv`: what the file has of a pipe is no newer than what that pipe has finished, and what is missing after its first record (`Gapless`) is what cannot be encoded, or, once the encoder is broken, after its last |
| `SchematicProofs` | `TypeCorrect`, `MarksAreShown`, `StopsInTime`, `PrinterPlacesLayer` | `SchemInv`: what the tickers and a command hold while the others run (`TickOK`, `CmdOK`), `Shown`, which allows for the marks that are set and the ghosts that are hidden in between, and `Stopped`, which counts the block each ticker already has in hand. `Placed`: while `clean`, one ticker at most is in placeNext, and what is placed is, in ascending order, all the layer's blocks before the index, with the one that is sent and not yet passed; each turn of its loop passes a block of another layer (`Turning`) |
| `FilesProofs` | `TypeCorrect`, `BlocksInOrder`, `BlocksAreTheFiles`, `PanicsOnlyThere` | `FilesInv`: the region in hand is one of the file. That the cells are distinct and in order is the arithmetic that division and remainders invert `x + w * (z + l * y)`. `ContentInv`: the blocks of the region so far are the file's cells before the entry, every entry gone through is there (`Reached`), and a region is left with none to come (`NoneLeft`: entries lie in the order of the words). A turn adds one cell or none (`CellsGrow`), and what shift, mask and the joining of two words give is the number the file's bits write (`EntryIs`) or, where that has the sign bit of a negative word, negative, which panics |
| `TrackersProofs` | `TypeCorrect`, `EntitiesAreFollowed`, `PlayerIsFollowed`, `NamesAreFollowed`, `FallsAreAnnounced`, `OneReconnectWaits` | `FollowInv`: the properties, with `EntityInv`, that a tracked entity has one teller and an entry no removal took is the teller's last word; `PlayerInv`, that a move in flight holds the speaker's last place; and `QueueInv`, that while a position is owed one message at most is in the waiter, and it holds, or is about to write over, a position above the threshold |

`Relays` is the refinement `Sessions => Relay`'s safety part: initial states map
to initial states, and every step to a step of `Relay` or a stutter.
`StreamsArriveAsSent` draws from the refinement alone that the other end of a
stream has a beginning of what is to be kept, without a gap or a repetition.
`ImplementsPanel` says that `Tokens` only restricts `Panel`, so all of `Panel`'s
theorems hold of the composition. Every invariant and action property of a
passing run is a theorem. `MapRace`, `TickPanics` and the other panics have none
but `PanicsOnlyThere`, as the code promises nothing of them. What a property sets
aside (`orphans`, `clean`, `crossed`, `foreign`, `withdrawn`, ...) is set aside in
its theorem too: the theorems are about any number of sessions, servers and tickers,
not about orders in which the code loses what it should keep.

`ReplayCurrent` and `LayerPlaced` speak of sequences by their members and order
(`EndsOn`, strictly ascending with a given range) rather than through a filter or
a sort, so that they can be reasoned about. `BlocksOfTheFile` supposes that an
entry has at most as many bits as a word (`Bits <= W`, 64 in the code): the
parser joins two words, and a wider entry needs three. The theorem on the blocks
is about the words of a Go `int64` (`Word`, in `FilesAssumption`).

How `FilesProofs` gets at data: an induction over a number of bits is one over
the set of numbers for which the fact holds (`Induction`, from the well-founded
order of the naturals), which needs no operator as a parameter; any
function with the equations of the recursive `Number` (`SumsUp`) agrees with it
(`NumberIs`), so the proofs give one in closed form. Of powers the provers
know nothing: that `2^(n + 1)` is `2 * 2^n` is proved by counting the subsets of a
set with one more member (`PowerStep`), from the library's theorem that a set of n
members has `2^n` subsets (`FS_SUBSET`). The library's own proof of it leaves that
very law of powers (`TwoExpLemma`) to the reader, so read these theorems as resting
on school arithmetic of powers of two.

**Only model-checked.** Liveness under fairness (`ReconnectsAfterHandover` and
both `GoroutinesEnd`, `AllAnswered`, `HungUp`, `PrinterEnds`), which the provers
do not reach: they cannot reason about ENABLED. The runs that show a violation
have nothing to prove.

## 5. What is not modelled, and why
- The connection library (RakNet, login, encryption): a connection is open or
  closed, takes writes in order while open, and reads fail once it is closed.
- Text: chat messages, patterns, formatting, what is printed. A command or a
  queue message is its meaning.
- `handleLogs`, `handleIndex`, the HTML page, `%schem list`, `status`,
  `materials`: they read.
- `SendBotChat`'s packet: nothing sets the bot's `server` field it would be
  written to, so there is none.
- Yaw, pitch, health, held item and inventory of `playerstate.go`: nothing reads
  them. The total of a queue, the message patterns and what `QueueWaiter.Tick`
  prints.
- Number and text settings of modules: none is registered. `DeathTracker`'s
  packets only print.
- The chat logger prints; the packet logger and the CPS counter are not
  registered. Resource packs are loaded once, DNS is a resolver setting.
- `config/config.go` and `drive.go` have no caller, so the program uses neither in
  any way a model could be faithful to.
- gzip and NBT decoding, which a library does: `Files` begins at the decoded
  fields, and `ok` is whether they are there.
- The player's own moves, which `State` does not follow: the place `%schem
  origin` anchors at is the one the server told last.
- In `Trackers`, that the two readers of one server that follow a handover swap its
  packets (`headless_order`): each server's are one at a time, in the order taken.
- In `Schematic`, two clients that type a command at the same moment, and the chat
  lines the commands answer with.

## 6. Plan

Done: `Headless`, `Panel` with `Tokens`, `Sessions` with `Relay`, `Commands`,
`Schematic`, `Files` and `Trackers`, each with its proofs.

Next, in this order:
1. An abstract specification of a bot's life (waits, is taken over once, serves,
   is gone before the next) that `Headless` implements, as `Relay` is for
   `Sessions`.
2. `Disconnect` under two readers, one of which has passed the test of `triggered`
   while another sets it; two commands of two clients at once in `Schematic`;
   `QueueWaiter.Tick` against the reset.
3. A Litematica file as a whole: `BlocksOfTheFile` is about the region in hand;
   that the list returned is the regions' one after another, in whatever order
   they came.
4. A second client of a taken-over bot in `Commands`, and `config.go` if it gets a
   caller.
