--------------------------- MODULE TrackersProofs ---------------------------
(***************************************************************************)
(* The mods that follow the servers, for any ids, numberings, places,      *)
(* queues and number of servers at once.                                   *)
(*                                                                         *)
(* The five trackers keep variables of their own, so each part of the      *)
(* invariant is proved against the actions that touch it, and kept by the  *)
(* others.                                                                 *)
(***************************************************************************)
EXTENDS Trackers, WellFoundedInduction, TLAPS

\* The types, by tracker.
EntityOK ==
  /\ DOMAIN entities \subseteq Ids /\ entities \in [DOMAIN entities -> Places]
  /\ DOMAIN world = Servers
  /\ \A s \in Servers : /\ DOMAIN world[s] \subseteq Ids
                        /\ world[s] \in [DOMAIN world[s] -> Places]
  /\ gone \in [Servers -> SUBSET Ids]
  /\ teller \in [Ids -> Servers \cup {0}]

StateOK ==
  /\ runtimeID \in Ids \cup {0} /\ position \in Places \cup {Unknown}
  /\ moving \in [Servers -> Places \cup {Unknown}]
  /\ self \in [Servers -> [id : Ids \cup {0}, at : Places \cup {Unknown}]]
  /\ speaker \in Servers \cup {0} /\ foreign \in BOOLEAN

BlockOK ==
  /\ DOMAIN nameToID \subseteq Names /\ nameToID \in [DOMAIN nameToID -> Nat]
  /\ palette \in Seq(Names)

Waiters == [pc : {"idle", "write", "test", "done"},
            pos : Queue \cup {0}, old : Queue \cup {0}]

QueueOK ==
  /\ queuePos \in Queue \cup {0} /\ owed \in [Servers -> BOOLEAN]
  /\ waiter \in [Servers -> Waiters]

AgainOK ==
  /\ triggered \in BOOLEAN
  /\ sleeping \in Nat /\ sending \in Nat /\ reconnectCh \in 0..1

CountOK == session \in Servers /\ npkts \in 0..MaxPkts

\* What is tracked has been told by some server, and what the last to tell of it
\* has is what is tracked.  One that has removed it by its id is not that.
EntityInv ==
  /\ \A r \in Ids : r \in DOMAIN entities <=> teller[r] # 0
  /\ \A s \in Servers, r \in Ids :
       /\ r \in DOMAIN world[s] /\ teller[r] = s => entities[r] = world[s][r]
       /\ r \in gone[s] /\ Unique[s][r] = r => teller[r] # s

\* A move of the player that has passed its test is to where its server has it,
\* unless that is not the server that said who the player is.
PlayerInv ==
  speaker # 0 =>
    /\ runtimeID = self[speaker].id
    /\ moving[speaker] # Unknown => moving[speaker] = self[speaker].at
    /\ ~foreign /\ moving[speaker] = Unknown => position = self[speaker].at

\* As long as an announcement is owed, one message at most is being handled, and
\* the position is above the threshold, or its fall is about to be seen.
QueueInv ==
  \A s \in Servers : owed[s] =>
    /\ waiter[s].pc \in {"idle", "done"} => waiter[s].pos > NotifyAt
    /\ \A u, v \in Servers :
         waiter[u].pc # "idle" /\ waiter[v].pc # "idle" => u = v
    /\ \A u \in Servers :
         /\ waiter[u].pc = "write" => waiter[u].old = queuePos
         /\ waiter[u].pc \in {"test", "done"} => waiter[u].pos = queuePos
         /\ waiter[u].pc = "test" /\ waiter[u].pos <= NotifyAt =>
              waiter[u].old > NotifyAt
    /\ queuePos > NotifyAt \/ \E u \in Servers : waiter[u].pc = "test"

FollowInv ==
  /\ EntityOK /\ StateOK /\ BlockOK /\ QueueOK /\ AgainOK /\ CountOK
  /\ EntityInv /\ PlayerInv /\ NamesFollow /\ QueueInv /\ OneWaits

USE TrackersAssumption

-----------------------------------------------------------------------------
\* What is left when one entity goes.
LEMMA RestrictAt ==
  ASSUME NEW f, NEW S \in SUBSET DOMAIN f
  PROVE  /\ DOMAIN Restrict(f, S) = S
         /\ \A i \in S : Restrict(f, S)[i] = f[i]
         /\ f \in [DOMAIN f -> Places] => Restrict(f, S) \in [S -> Places]
BY DEF Restrict

\* The greatest of some numbers with a bound.
LEMMA MaxIsIn ==
  ASSUME NEW n \in Nat, NEW S \in SUBSET 1..n, S # {}
  PROVE  Max(S) \in S
<1> DEFINE R == {p \in Nat \X Nat : p[1] < p[2]}
           T == {n - i : i \in S}
<1>1. IsWellFoundedOn(R, Nat)
  BY NatLessThanWellFounded DEF OpToRel
<1>2. T \subseteq Nat /\ T # {}
  OBVIOUS
<1> HIDE DEF R, T
<1>3. PICK x \in T : \A y \in T : <<y, x>> \notin R
  BY <1>1, <1>2, WFMin
<1>4. PICK m \in S : x = n - m
  BY <1>3 DEF T
<1>5. ASSUME NEW i \in S  PROVE m >= i
  <2>1. n - i \in T /\ n - i \in Nat /\ x \in Nat
    BY <1>2, <1>3 DEF T
  <2>2. <<n - i, x>> \notin R
    BY <1>3, <2>1
  <2>3. ~ (n - i < x)
    BY <2>1, <2>2 DEF R
  <2> QED BY <1>4, <2>1, <2>3
<1> QED BY <1>4, <1>5 DEF Max

\* The id a list gives a name is the place in it of a block so named.
LEMMA IdInIs ==
  ASSUME NEW pal \in Seq(Names), NEW n \in Said(pal)
  PROVE  \E i \in DOMAIN pal : IdIn(pal, n) = i - 1 /\ n \in Named(pal[i])
<1> DEFINE S == {i \in DOMAIN pal : n \in Named(pal[i])}
<1>1. Len(pal) \in Nat /\ DOMAIN pal = 1..Len(pal)
  OBVIOUS
<1>2. S \in SUBSET 1..Len(pal) /\ S # {}
  BY <1>1 DEF Said
<1>3. Max(S) \in S
  <2> HIDE DEF S
  <2> QED BY <1>1, <1>2, MaxIsIn
<1> QED BY <1>3 DEF IdIn

LEMMA SaidIsNames ==
  ASSUME NEW pal \in Seq(Names)
  PROVE  Said(pal) \subseteq Names
<1>1. \A i \in DOMAIN pal : pal[i] \in Names
  OBVIOUS
<1> QED BY <1>1 DEF Said, Named

-----------------------------------------------------------------------------
\* EntityTracker.
LEMMA AddKeeps ==
  ASSUME EntityOK, EntityInv, NEW s \in Servers, NEW r \in Ids, NEW x \in Places,
         Add(s, r, x)
  PROVE  EntityOK' /\ EntityInv'
<1>0. /\ entities \in [DOMAIN entities -> Places]
      /\ world[s] \in [DOMAIN world[s] -> Places]
      /\ \A u \in Servers : u # 0
  BY DEF EntityOK, Servers
<1>1. /\ entities' = Put(entities, r, x) /\ teller' = [teller EXCEPT ![r] = s]
      /\ world' = [world EXCEPT ![s] = Put(world[s], r, x)]
      /\ gone' = [gone EXCEPT ![s] = gone[s] \ {r}]
  BY DEF Add
<1>2. /\ DOMAIN entities' = DOMAIN entities \cup {r} /\ entities'[r] = x
      /\ entities' \in [DOMAIN entities' -> Places]
      /\ \A i \in DOMAIN entities : i # r => entities'[i] = entities[i]
  <2> DEFINE p == Put(entities, r, x)
  <2>1. /\ DOMAIN p = DOMAIN entities \cup {r} /\ p[r] = x
        /\ p \in [DOMAIN entities \cup {r} -> Places]
        /\ \A i \in DOMAIN entities : i # r => p[i] = entities[i]
    BY <1>0 DEF Put
  <2> HIDE DEF p
  <2>2. entities' = p
    BY <1>1 DEF p
  <2> QED BY <2>1, <2>2
<1>3. /\ DOMAIN world' = Servers
      /\ \A u \in Servers \ {s} : world'[u] = world[u]
      /\ DOMAIN world'[s] = DOMAIN world[s] \cup {r} /\ world'[s][r] = x
      /\ world'[s] \in [DOMAIN world'[s] -> Places]
      /\ \A i \in DOMAIN world[s] : i # r => world'[s][i] = world[s][i]
  <2> DEFINE p == Put(world[s], r, x)
  <2>1. /\ DOMAIN p = DOMAIN world[s] \cup {r} /\ p[r] = x
        /\ p \in [DOMAIN world[s] \cup {r} -> Places]
        /\ \A i \in DOMAIN world[s] : i # r => p[i] = world[s][i]
    BY <1>0 DEF Put
  <2>2. world' = [world EXCEPT ![s] = p]
    BY <1>1
  <2> HIDE DEF p
  <2>3. /\ DOMAIN world' = Servers /\ world'[s] = p
        /\ \A u \in Servers \ {s} : world'[u] = world[u]
    BY <2>2 DEF EntityOK
  <2> QED BY <2>1, <2>3
<1>4. /\ teller' \in [Ids -> Servers \cup {0}] /\ teller'[r] = s
      /\ \A i \in Ids \ {r} : teller'[i] = teller[i]
      /\ gone' \in [Servers -> SUBSET Ids] /\ r \notin gone'[s]
      /\ \A u \in Servers : gone'[u] \subseteq gone[u]
  BY <1>1 DEF EntityOK
<1>5. EntityOK'
  <2>1. ASSUME NEW u \in Servers
        PROVE  /\ DOMAIN world'[u] \subseteq Ids
               /\ world'[u] \in [DOMAIN world'[u] -> Places]
    <3>1. DOMAIN world[u] \subseteq Ids /\ world[u] \in [DOMAIN world[u] -> Places]
      BY DEF EntityOK
    <3>2. CASE u = s
      BY <1>3, <3>1, <3>2
    <3>3. CASE u # s
      BY <1>3, <3>1, <3>3
    <3> QED BY <3>2, <3>3
  <2>2. DOMAIN entities' \subseteq Ids
    BY <1>2 DEF EntityOK
  <2> QED BY <1>2, <1>3, <1>4, <2>1, <2>2 DEF EntityOK
<1>7. s # 0
  BY DEF Servers
<1>8. ASSUME NEW u \in Servers, NEW i \in Ids
      PROVE  /\ i \in DOMAIN world'[u] /\ teller'[i] = u =>
                  entities'[i] = world'[u][i]
             /\ i \in gone'[u] /\ Unique[u][i] = i => teller'[i] # u
  <2>1. CASE i = r
    BY <1>2, <1>3, <1>4, <2>1
  <2>2. CASE i # r
    <3>1. i \in DOMAIN world'[u] /\ teller'[i] = u =>
            i \in DOMAIN world[u] /\ teller[i] = u
      BY ZenonT(60), <1>3, <1>4, <2>2
    <3>2. i \in DOMAIN world[u] /\ teller[i] = u =>
            i \in DOMAIN entities /\ entities[i] = world[u][i]
      <4>1. u # 0
        BY DEF Servers
      <4> QED BY <4>1 DEF EntityInv
    <3>3. world'[u][i] = world[u][i] \/ i \notin DOMAIN world[u]
      BY <1>3, <2>2
    <3>4. i \in gone'[u] /\ Unique[u][i] = i => teller'[i] # u
      BY SMTT(30), <1>4, <2>2 DEF EntityInv
    <3> QED BY <1>2, <2>2, <3>1, <3>2, <3>3, <3>4
  <2> QED BY <2>1, <2>2
<1>9. \A i \in Ids : i \in DOMAIN entities' <=> teller'[i] # 0
  BY <1>2, <1>4, <1>7 DEF EntityInv
<1> QED BY <1>5, <1>8, <1>9 DEF EntityInv

LEMMA EntityMovesKeeps ==
  ASSUME EntityOK, EntityInv, NEW s \in Servers, NEW r \in Ids, NEW x \in Places,
         EntityMoves(s, r, x)
  PROVE  EntityOK' /\ EntityInv'
<1>0. /\ entities \in [DOMAIN entities -> Places]
      /\ world[s] \in [DOMAIN world[s] -> Places]
      /\ \A u \in Servers : u # 0
  BY DEF EntityOK, Servers
<1>1. /\ entities' = Moved(entities, r, x)
      /\ teller' = [teller EXCEPT ![r] = IF teller[r] = 0 THEN 0 ELSE s]
      /\ world' = [world EXCEPT ![s] = Moved(world[s], r, x)]
      /\ gone' = gone /\ r \notin gone[s]
  BY DEF EntityMoves
<1>2. /\ DOMAIN entities' = DOMAIN entities
      /\ entities' \in [DOMAIN entities' -> Places]
      /\ r \in DOMAIN entities => entities'[r] = x
      /\ \A i \in DOMAIN entities : i # r => entities'[i] = entities[i]
  <2> DEFINE m == Moved(entities, r, x)
  <2>1. /\ m \in [DOMAIN entities -> Places]
        /\ r \in DOMAIN entities => m[r] = x
        /\ \A i \in DOMAIN entities : i # r => m[i] = entities[i]
    BY <1>0 DEF Moved
  <2> HIDE DEF m
  <2>2. entities' = m
    BY <1>1 DEF m
  <2> QED BY <2>1, <2>2
<1>3. /\ DOMAIN world' = Servers
      /\ \A u \in Servers \ {s} : world'[u] = world[u]
      /\ DOMAIN world'[s] = DOMAIN world[s]
      /\ world'[s] \in [DOMAIN world'[s] -> Places]
      /\ r \in DOMAIN world[s] => world'[s][r] = x
      /\ \A i \in DOMAIN world[s] : i # r => world'[s][i] = world[s][i]
  <2> DEFINE m == Moved(world[s], r, x)
  <2>1. /\ m \in [DOMAIN world[s] -> Places]
        /\ r \in DOMAIN world[s] => m[r] = x
        /\ \A i \in DOMAIN world[s] : i # r => m[i] = world[s][i]
    BY <1>0 DEF Moved
  <2>2. world' = [world EXCEPT ![s] = m]
    BY <1>1
  <2> HIDE DEF m
  <2>3. /\ DOMAIN world' = Servers /\ world'[s] = m
        /\ \A u \in Servers \ {s} : world'[u] = world[u]
    BY <2>2 DEF EntityOK
  <2> QED BY <2>1, <2>3
<1>4. /\ teller' \in [Ids -> Servers \cup {0}]
      /\ teller'[r] = IF teller[r] = 0 THEN 0 ELSE s
      /\ \A i \in Ids \ {r} : teller'[i] = teller[i]
  BY <1>1 DEF EntityOK
<1>5. EntityOK'
  BY <1>1, <1>2, <1>3, <1>4 DEF EntityOK
<1>7. s # 0
  BY DEF Servers
<1>8. ASSUME NEW u \in Servers, NEW i \in Ids
      PROVE  /\ i \in DOMAIN world'[u] /\ teller'[i] = u =>
                  entities'[i] = world'[u][i]
             /\ i \in gone'[u] /\ Unique[u][i] = i => teller'[i] # u
  <2>0. u # 0
    BY DEF Servers
  <2>1. CASE i = r
    <3>1. teller'[i] = u => u = s /\ i \in DOMAIN entities
      BY <1>4, <2>0, <2>1 DEF EntityInv
    <3> QED BY <1>1, <1>2, <1>3, <2>1, <3>1
  <2>2. CASE i # r
    <3>1. i \in DOMAIN world'[u] /\ teller'[i] = u =>
            /\ i \in DOMAIN world[u] /\ i \in DOMAIN entities
            /\ entities[i] = world[u][i]
      <4>1. i \in DOMAIN world'[u] => i \in DOMAIN world[u]
        BY <1>3, <2>2
      <4>2. teller'[i] = teller[i]
        BY <1>4, <2>2
      <4> QED BY ZenonT(60), <4>1, <4>2, <2>0 DEF EntityInv
    <3>2. i \in DOMAIN world[u] => world'[u][i] = world[u][i]
      BY <1>3, <2>2
    <3>3. i \in gone'[u] /\ Unique[u][i] = i => teller'[i] # u
      BY <1>1, <1>4, <2>2 DEF EntityInv
    <3> QED BY <1>2, <2>2, <3>1, <3>2, <3>3
  <2> QED BY <2>1, <2>2
<1>9. \A i \in Ids : i \in DOMAIN entities' <=> teller'[i] # 0
  BY <1>2, <1>4, <1>7 DEF EntityInv
<1> QED BY <1>5, <1>8, <1>9 DEF EntityInv

LEMMA RemoveKeeps ==
  ASSUME EntityOK, EntityInv, NEW s \in Servers, NEW r \in Ids, RemoveActor(s, r)
  PROVE  EntityOK' /\ EntityInv'
<1> DEFINE n == Unique[s][r]
<1>0. /\ entities \in [DOMAIN entities -> Places]
      /\ world[s] \in [DOMAIN world[s] -> Places]
      /\ \A u \in Servers : u # 0
  BY DEF EntityOK, Servers
<1>1. /\ entities' = Restrict(entities, DOMAIN entities \ {n})
      /\ teller' = [i \in Ids |-> IF i = n THEN 0 ELSE teller[i]]
      /\ world' = [world EXCEPT ![s] = Restrict(world[s], DOMAIN world[s] \ {r})]
      /\ gone' = [gone EXCEPT ![s] = gone[s] \cup {r}]
  BY DEF RemoveActor, KeepOthers
<1> HIDE DEF n
<1>2. /\ DOMAIN entities' = DOMAIN entities \ {n}
      /\ entities' \in [DOMAIN entities' -> Places]
      /\ \A i \in DOMAIN entities : i # n => entities'[i] = entities[i]
  <2> DEFINE left == DOMAIN entities \ {n}
             k == Restrict(entities, left)
  <2>1. /\ DOMAIN k = left /\ \A i \in left : k[i] = entities[i]
        /\ k \in [left -> Places]
    BY <1>0, RestrictAt, ZenonT(30)
  <2>2. entities' = k
    BY <1>1
  <2> HIDE DEF k
  <2> QED BY <2>1, <2>2
<1>3. /\ DOMAIN world' = Servers
      /\ \A u \in Servers \ {s} : world'[u] = world[u]
      /\ DOMAIN world'[s] = DOMAIN world[s] \ {r}
      /\ world'[s] \in [DOMAIN world'[s] -> Places]
      /\ \A i \in DOMAIN world[s] : i # r => world'[s][i] = world[s][i]
  <2> DEFINE left == DOMAIN world[s] \ {r}
             k == Restrict(world[s], left)
  <2>1. /\ DOMAIN k = left /\ \A i \in left : k[i] = world[s][i]
        /\ k \in [left -> Places]
    BY <1>0, RestrictAt, ZenonT(30)
  <2>2. world' = [world EXCEPT ![s] = k]
    BY <1>1
  <2> HIDE DEF k
  <2>3. /\ DOMAIN world' = Servers /\ world'[s] = k
        /\ \A u \in Servers \ {s} : world'[u] = world[u]
    BY <2>2 DEF EntityOK
  <2> QED BY <2>1, <2>3
<1>4. /\ teller' \in [Ids -> Servers \cup {0}]
      /\ \A i \in Ids : teller'[i] = IF i = n THEN 0 ELSE teller[i]
      /\ gone' \in [Servers -> SUBSET Ids] /\ gone'[s] = gone[s] \cup {r}
      /\ \A u \in Servers \ {s} : gone'[u] = gone[u]
  BY <1>1 DEF EntityOK
<1>5. EntityOK'
  <2>1. ASSUME NEW u \in Servers
        PROVE  /\ DOMAIN world'[u] \subseteq Ids
               /\ world'[u] \in [DOMAIN world'[u] -> Places]
    <3>1. DOMAIN world[u] \subseteq Ids /\ world[u] \in [DOMAIN world[u] -> Places]
      BY DEF EntityOK
    <3>2. CASE u = s
      BY <1>3, <3>1, <3>2
    <3>3. CASE u # s
      BY <1>3, <3>1, <3>3
    <3> QED BY <3>2, <3>3
  <2>2. DOMAIN entities' \subseteq Ids
    BY <1>2 DEF EntityOK
  <2> QED BY <1>2, <1>3, <1>4, <2>1, <2>2 DEF EntityOK
<1>8. ASSUME NEW u \in Servers, NEW i \in Ids
      PROVE  /\ i \in DOMAIN world'[u] /\ teller'[i] = u =>
                  entities'[i] = world'[u][i]
             /\ i \in gone'[u] /\ Unique[u][i] = i => teller'[i] # u
  <2>0. u # 0
    BY DEF Servers
  <2>1. CASE i = n
    BY <1>4, <2>0, <2>1
  <2>2. CASE i # n
    <3>1. i \in DOMAIN world'[u] /\ teller'[i] = u =>
            /\ i \in DOMAIN world[u] /\ i \in DOMAIN entities
            /\ entities[i] = world[u][i] /\ world'[u][i] = world[u][i]
      <4>1. i \in DOMAIN world'[u] =>
              i \in DOMAIN world[u] /\ world'[u][i] = world[u][i]
        BY <1>3, <2>2
      <4>2. teller'[i] = teller[i]
        BY <1>4, <2>2
      <4> QED BY ZenonT(60), <4>1, <4>2, <2>0 DEF EntityInv
    <3>3. i \in gone'[u] /\ Unique[u][i] = i => teller'[i] # u
      <4>1. i \in gone'[u] /\ Unique[u][i] = i => i \in gone[u]
        BY <1>4, <2>2 DEF n
      <4> QED BY ZenonT(60), <1>4, <2>2, <4>1 DEF EntityInv
    <3> QED BY <1>2, <2>2, <3>1, <3>3
  <2> QED BY <2>1, <2>2
<1>9. \A i \in Ids : i \in DOMAIN entities' <=> teller'[i] # 0
  BY <1>2, <1>4 DEF EntityInv
<1> QED BY <1>5, <1>8, <1>9 DEF EntityInv

-----------------------------------------------------------------------------
\* StateTracker.
LEMMA SpokenKeeps ==
  ASSUME StateOK, PlayerInv, NEW s \in Servers, NEW r \in Ids, NEW x \in Places,
         \/ MovePlayer(s, r, x)
         \/ \E pal \in Palettes : StartGame(s, r, x, pal)
  PROVE  StateOK' /\ PlayerInv'
<1>0. moving[s] = Unknown /\ x # Unknown /\ s # 0
  BY DEF MovePlayer, StartGame, Packet, Servers
<1>1. CASE MovePlayer(s, r, x)
  <2>1. /\ moving' = [moving EXCEPT ![s] = IF IsSelf(r) THEN x ELSE Unknown]
        /\ self' = [self EXCEPT ![s].at = IF r = self[s].id THEN x ELSE self[s].at]
        /\ UNCHANGED <<runtimeID, position, speaker, foreign>>
    BY <1>1 DEF MovePlayer
  <2>2. /\ moving'[s] = IF IsSelf(r) THEN x ELSE Unknown
        /\ \A u \in Servers \ {s} : moving'[u] = moving[u] /\ self'[u] = self[u]
        /\ self'[s].id = self[s].id
        /\ self'[s].at = IF r = self[s].id THEN x ELSE self[s].at
    BY <2>1 DEF StateOK
  <2>3. StateOK'
    <3>1. (IF r = self[s].id THEN x ELSE self[s].at) \in Places \cup {Unknown}
      BY DEF StateOK
    <3>2. moving' \in [Servers -> Places \cup {Unknown}]
      BY <2>1 DEF StateOK
    <3>3. self' \in [Servers -> [id : Ids \cup {0}, at : Places \cup {Unknown}]]
      BY ZenonT(60), <2>1, <3>1 DEF StateOK
    <3> QED BY <2>1, <3>2, <3>3 DEF StateOK
  <2>4. CASE speaker = s
    BY <1>0, <2>1, <2>2, <2>3, <2>4 DEF PlayerInv, IsSelf
  <2>5. CASE speaker # s /\ speaker # 0
    <3>1. speaker \in Servers \ {s}
      BY <2>5 DEF StateOK
    <3> QED BY <2>1, <2>2, <2>3, <3>1 DEF PlayerInv
  <2> QED BY <2>1, <2>3, <2>4, <2>5 DEF PlayerInv
<1>2. CASE \E pal \in Palettes : StartGame(s, r, x, pal)
  <2>1. /\ runtimeID' = r /\ position' = x
        /\ self' = [self EXCEPT ![s] = [id |-> r, at |-> x]]
        /\ speaker' = s /\ foreign' = FALSE /\ UNCHANGED moving
    BY <1>2 DEF StartGame
  <2>2. self'[s] = [id |-> r, at |-> x]
    BY <2>1 DEF StateOK
  <2>3. StateOK'
    BY <2>1 DEF StateOK
  <2> QED BY <1>0, <2>1, <2>2, <2>3 DEF PlayerInv
<1> QED BY <1>1, <1>2

LEMMA RespawnKeeps ==
  ASSUME StateOK, PlayerInv, NEW s \in Servers, NEW x \in Places, Respawn(s, x)
  PROVE  StateOK' /\ PlayerInv'
<1>0. moving[s] = Unknown /\ x # Unknown
  BY DEF Respawn, Packet
<1>1. /\ position' = x /\ self' = [self EXCEPT ![s].at = x]
      /\ foreign' = (s # speaker) /\ UNCHANGED <<runtimeID, moving, speaker>>
  BY DEF Respawn
<1>2. /\ self'[s].id = self[s].id /\ self'[s].at = x
      /\ \A u \in Servers \ {s} : self'[u] = self[u]
  BY <1>1 DEF StateOK
<1>3. StateOK'
  BY <1>1 DEF StateOK
<1>4. CASE speaker = s
  BY <1>0, <1>1, <1>2, <1>3, <1>4 DEF PlayerInv
<1>5. CASE speaker # s /\ speaker # 0
  <2>1. speaker \in Servers \ {s}
    BY <1>5 DEF StateOK
  <2> QED BY <1>1, <1>2, <1>3, <2>1 DEF PlayerInv
<1> QED BY <1>1, <1>3, <1>4, <1>5 DEF PlayerInv

LEMMA LandsKeeps ==
  ASSUME StateOK, PlayerInv, NEW s \in Servers, MoveLands(s)
  PROVE  StateOK' /\ PlayerInv'
<1>1. /\ position' = moving[s] /\ moving' = [moving EXCEPT ![s] = Unknown]
      /\ moving[s] # Unknown /\ foreign' = (s # speaker)
      /\ UNCHANGED <<runtimeID, self, speaker>>
  BY DEF MoveLands
<1>2. /\ moving'[s] = Unknown
      /\ \A u \in Servers \ {s} : moving'[u] = moving[u]
  BY <1>1 DEF StateOK
<1>3. StateOK'
  BY <1>1 DEF StateOK
<1>4. CASE speaker = s
  BY <1>1, <1>2, <1>3, <1>4 DEF PlayerInv
<1>5. CASE speaker # s /\ speaker # 0
  <2>1. speaker \in Servers \ {s}
    BY <1>5 DEF StateOK
  <2> QED BY <1>1, <1>2, <1>3, <2>1 DEF PlayerInv
<1> QED BY <1>1, <1>3, <1>4, <1>5 DEF PlayerInv

-----------------------------------------------------------------------------
\* BlockRegistry.
LEMMA BlocksKeep ==
  ASSUME BlockOK, NamesFollow, NEW s, NEW r, NEW x, NEW pal \in Palettes,
         StartGame(s, r, x, pal)
  PROVE  BlockOK' /\ NamesFollow'
<1>0. /\ nameToID' = TakenIn(nameToID, pal)
      /\ palette' = IF pal = << >> THEN palette ELSE pal
      /\ pal \in Seq(Names)
  BY DEF StartGame
<1>1. \A n \in Said(pal) : n \in DOMAIN nameToID' /\ nameToID'[n] = IdIn(pal, n)
  BY <1>0 DEF TakenIn
<1>2. DOMAIN nameToID' = DOMAIN nameToID \cup Said(pal)
  BY <1>0 DEF TakenIn
<1>3. \A n \in DOMAIN nameToID \ Said(pal) : nameToID'[n] = nameToID[n]
  BY <1>0 DEF TakenIn
<1>4. BlockOK'
  <2>1. \A n \in Said(pal) : nameToID'[n] \in Nat
    BY <1>0, <1>1, IdInIs
  <2>2. \A n \in DOMAIN nameToID : nameToID[n] \in Nat
    BY DEF BlockOK
  <2>3. nameToID' \in [DOMAIN nameToID' -> Nat]
    BY <1>0, <1>2, <1>3, <2>1, <2>2 DEF TakenIn
  <2>4. DOMAIN nameToID' \subseteq Names
    BY <1>0, <1>2, SaidIsNames DEF BlockOK
  <2>5. palette' \in Seq(Names)
    BY <1>0 DEF BlockOK
  <2> QED BY <2>3, <2>4, <2>5 DEF BlockOK
<1>5. CASE pal = << >>
  <2>1. Said(pal) = {}
    BY <1>5 DEF Said
  <2>2. /\ DOMAIN nameToID' = DOMAIN nameToID /\ palette' = palette
        /\ \A n \in DOMAIN nameToID : nameToID'[n] = nameToID[n]
    BY <1>0, <1>2, <1>3, <1>5, <2>1
  <2>3. \A n \in Said(palette) : RuntimeIDForBlock(n)' = RuntimeIDForBlock(n)
    BY <2>2 DEF RuntimeIDForBlock
  <2> QED BY <1>4, <2>2, <2>3 DEF NamesFollow
<1>6. CASE pal # << >>
  <2>1. \A n \in Said(pal) : RuntimeIDForBlock(n)' = IdIn(pal, n)
    BY <1>1 DEF RuntimeIDForBlock
  <2>2. palette' = pal
    BY <1>0, <1>6
  <2> QED BY <1>0, <1>4, <2>1, <2>2, IdInIs DEF NamesFollow
<1> QED BY <1>5, <1>6

-----------------------------------------------------------------------------
\* QueueWaiter.
LEMMA WaiterMoves ==
  ASSUME QueueOK, NEW s \in Servers, NEW w \in Waiters,
         waiter' = [waiter EXCEPT ![s] = w]
  PROVE  /\ waiter' \in [Servers -> Waiters] /\ waiter'[s] = w
         /\ \A u \in Servers \ {s} : waiter'[u] = waiter[u]
BY DEF QueueOK

LEMMA WaiterGoesTo ==
  ASSUME QueueOK, NEW s \in Servers, NEW pc \in {"idle", "test", "done"},
         WaiterGoes(s, pc)
  PROVE  /\ waiter' \in [Servers -> Waiters] /\ waiter'[s].pc = pc
         /\ waiter'[s].pos = waiter[s].pos /\ waiter'[s].old = waiter[s].old
         /\ \A u \in Servers \ {s} : waiter'[u] = waiter[u]
<1> DEFINE w == [waiter[s] EXCEPT !.pc = pc]
<1>1. waiter[s] \in Waiters /\ waiter' = [waiter EXCEPT ![s] = w]
  BY DEF QueueOK, WaiterGoes
<1>2. w \in Waiters /\ w.pc = pc /\ w.pos = waiter[s].pos /\ w.old = waiter[s].old
  BY <1>1 DEF Waiters
<1> HIDE DEF w
<1> QED BY <1>1, <1>2, WaiterMoves

LEMMA PositionsAre ==
  ASSUME QueueOK, NEW s \in Servers
  PROVE  /\ queuePos \in Nat /\ waiter[s].pos \in Nat /\ waiter[s].old \in Nat
         /\ NotifyAt \in Nat /\ NotifyAt > 0
         /\ waiter[s].pc \in {"idle", "write", "test", "done"}
BY DEF QueueOK, Waiters

LEMMA MessageKeeps ==
  ASSUME QueueOK, QueueInv, NEW s \in Servers, NEW p \in Queue, QueueMessage(s, p)
  PROVE  QueueOK' /\ QueueInv'
<1> DEFINE w == [pc |-> "write", pos |-> p, old |-> queuePos]
<1>1. /\ waiter' = [waiter EXCEPT ![s] = w] /\ queuePos' = queuePos
      /\ waiter[s].pc = "idle"
  BY DEF QueueMessage, Packet
<1>2. w \in Waiters
  BY DEF QueueOK, Waiters
<1>3. /\ waiter' \in [Servers -> Waiters] /\ waiter'[s] = w
      /\ \A u \in Servers \ {s} : waiter'[u] = waiter[u]
  BY <1>1, <1>2, WaiterMoves
<1>4. CASE \E u \in Servers \ {s} : waiter[u].pc # "idle"
  <2>1. owed' = Nothing
    BY <1>4 DEF QueueMessage
  <2> QED BY <1>1, <1>3, <2>1 DEF QueueOK, QueueInv, Nothing
<1>5. CASE \A u \in Servers \ {s} : waiter[u].pc = "idle"
  <2>1. owed' = owed
    BY <1>5 DEF QueueMessage
  <2>2. QueueOK'
    BY <1>1, <1>3, <2>1 DEF QueueOK
  <2>3. \A u \in Servers \ {s} : waiter'[u].pc = "idle" /\ waiter'[u].pos = waiter[u].pos
    BY <1>3, <1>5
  <2>4. ASSUME NEW u \in Servers, owed'[u]  PROVE queuePos > NotifyAt
    BY <1>1, <1>5, <2>1, <2>4 DEF QueueInv
  <2>5. ASSUME NEW u \in Servers, owed'[u], u # s
        PROVE  waiter'[u].pos > NotifyAt
    BY <1>5, <2>1, <2>3, <2>5 DEF QueueInv
  <2> QED BY <1>1, <1>3, <2>2, <2>3, <2>4, <2>5 DEF QueueInv
<1> QED BY <1>4, <1>5

LEMMA WriteKeeps ==
  ASSUME QueueOK, QueueInv, NEW s \in Servers, QueueWrite(s)
  PROVE  QueueOK' /\ QueueInv'
<1>1. /\ waiter[s].pc = "write" /\ queuePos' = waiter[s].pos
      /\ owed' = [owed EXCEPT ![s] = owed[s] \/
             /\ waiter[s].pos > NotifyAt
             /\ \A u \in Servers \ {s} : waiter[u].pc = "idle"]
  BY DEF QueueWrite, WaiterAt
<1>2. /\ waiter' \in [Servers -> Waiters] /\ waiter'[s].pc = "test"
      /\ waiter'[s].pos = waiter[s].pos /\ waiter'[s].old = waiter[s].old
      /\ \A u \in Servers \ {s} : waiter'[u] = waiter[u]
  BY WaiterGoesTo DEF QueueWrite
<1>3. QueueOK'
  BY <1>1, <1>2 DEF QueueOK, Waiters
<1>4. /\ queuePos \in Nat /\ waiter[s].pos \in Nat /\ waiter[s].old \in Nat
      /\ NotifyAt \in Nat
  BY PositionsAre
<1>5. ASSUME NEW v \in Servers, owed'[v]
      PROVE  /\ \A u \in Servers \ {s} : waiter[u].pc = "idle"
             /\ waiter[s].pos > NotifyAt \/ waiter[s].old > NotifyAt
             /\ v # s => waiter[v].pos > NotifyAt
  <2>1. owed[v] \/ (v = s /\ waiter[s].pos > NotifyAt
                    /\ \A u \in Servers \ {s} : waiter[u].pc = "idle")
    BY <1>1, <1>5 DEF QueueOK
  <2>2. ASSUME owed[v]
        PROVE  /\ \A u \in Servers \ {s} : waiter[u].pc = "idle"
               /\ waiter[s].old > NotifyAt
               /\ v # s => waiter[v].pos > NotifyAt
    <3>1. \A u \in Servers \ {s} : waiter[u].pc = "idle"
      BY <1>1, <2>2 DEF QueueInv
    <3>2. queuePos > NotifyAt
      BY <1>1, <2>2, <3>1 DEF QueueInv
    <3> QED BY <1>1, <2>2, <3>1, <3>2 DEF QueueInv
  <2> QED BY <2>1, <2>2
<1>6. ASSUME NEW v \in Servers, owed'[v]
      PROVE  /\ \A u \in Servers \ {s} : waiter'[u].pc = "idle"
             /\ waiter'[s].pos > NotifyAt \/ waiter'[s].old > NotifyAt
             /\ v # s => waiter'[v].pos > NotifyAt
  BY <1>2, <1>5, <1>6
<1> QED BY <1>1, <1>2, <1>3, <1>4, <1>6 DEF QueueInv

LEMMA TestKeeps ==
  ASSUME QueueOK, QueueInv, NEW s \in Servers, QueueTest(s)
  PROVE  QueueOK' /\ QueueInv'
<1>1. waiter[s].pc = "test" /\ queuePos' = queuePos
  BY DEF QueueTest, WaiterAt
<1>2. /\ waiter' \in [Servers -> Waiters] /\ waiter'[s].pc = "done"
      /\ waiter'[s].pos = waiter[s].pos /\ waiter'[s].old = waiter[s].old
      /\ \A u \in Servers \ {s} : waiter'[u] = waiter[u]
  BY WaiterGoesTo DEF QueueTest
<1>3. CASE Announces(waiter[s].old)
  <2>1. owed' = Nothing
    BY <1>3 DEF QueueTest
  <2> QED BY <1>1, <1>2, <2>1 DEF QueueOK, QueueInv, Nothing
<1>4. CASE ~Announces(waiter[s].old)
  <2>1. owed' = owed
    BY <1>4 DEF QueueTest
  <2>2. QueueOK'
    BY <1>1, <1>2, <2>1 DEF QueueOK
  <2>3. /\ queuePos \in Nat /\ waiter[s].pos \in Nat /\ waiter[s].old \in Nat
        /\ NotifyAt \in Nat
    BY PositionsAre
  <2>4. ASSUME NEW v \in Servers, owed'[v]
        PROVE  /\ \A u \in Servers \ {s} : waiter'[u].pc = "idle"
               /\ queuePos > NotifyAt /\ waiter'[s].pos = queuePos
               /\ v # s => waiter'[v].pos > NotifyAt
    <3>1. \A u \in Servers \ {s} : waiter[u].pc = "idle"
      BY <1>1, <2>1, <2>4 DEF QueueInv
    <3>2. /\ waiter[s].pos = queuePos
          /\ waiter[s].pos <= NotifyAt => waiter[s].old > NotifyAt
      BY <1>1, <2>1, <2>4 DEF QueueInv
    <3>3. queuePos > NotifyAt
      BY <1>4, <2>3, <3>2 DEF Announces
    <3>4. v # s => waiter[v].pos > NotifyAt
      BY <2>1, <2>4, <3>1 DEF QueueInv
    <3> QED BY <1>2, <3>1, <3>2, <3>3, <3>4
  <2> QED BY ZenonT(60), <1>1, <1>2, <2>2, <2>3, <2>4 DEF QueueInv
<1> QED BY <1>3, <1>4

LEMMA DoneKeeps ==
  ASSUME QueueOK, QueueInv, NEW s \in Servers, QueueDone(s)
  PROVE  QueueOK' /\ QueueInv'
<1>1. waiter[s].pc = "done"
  BY DEF QueueDone, WaiterAt
<1>2. /\ waiter' \in [Servers -> Waiters] /\ waiter'[s].pc = "idle"
      /\ waiter'[s].pos = waiter[s].pos
      /\ \A u \in Servers \ {s} : waiter'[u] = waiter[u]
  BY WaiterGoesTo DEF QueueDone
<1>3. CASE queuePos <= 1
  <2>1. owed' = Nothing /\ queuePos' = 0
    BY <1>3 DEF QueueDone
  <2> QED BY <1>2, <2>1 DEF QueueOK, QueueInv, Nothing
<1>4. CASE ~(queuePos <= 1)
  <2>1. owed' = owed /\ queuePos' = queuePos
    BY <1>4 DEF QueueDone
  <2>2. QueueOK'
    BY <1>2, <2>1 DEF QueueOK
  <2>3. ASSUME NEW v \in Servers, owed'[v]
        PROVE  /\ \A u \in Servers : waiter'[u].pc = "idle"
               /\ queuePos > NotifyAt /\ waiter'[v].pos > NotifyAt
    <3>1. \A u \in Servers \ {s} : waiter[u].pc = "idle"
      BY <1>1, <2>1, <2>3 DEF QueueInv
    <3>2. queuePos > NotifyAt
      BY <1>1, <2>1, <2>3, <3>1 DEF QueueInv
    <3>3. waiter[v].pos > NotifyAt
      BY <1>1, <2>1, <2>3, <3>1 DEF QueueInv
    <3> QED BY <1>2, <3>1, <3>2, <3>3
  <2> QED BY <1>2, <2>1, <2>2, <2>3 DEF QueueInv
<1> QED BY <1>3, <1>4

-----------------------------------------------------------------------------
\* AutoReconnect.
LEMMA AgainKeeps ==
  ASSUME AgainOK, OneWaits,
         (\E s \in Servers : Disconnect(s)) \/ Wakes \/ Sends
  PROVE  AgainOK' /\ OneWaits'
<1>1. /\ triggered => sleeping = 1
      /\ ~triggered => sleeping = 0
  BY DEF OneWaits
<1>2. CASE \E s \in Servers : Disconnect(s)
  BY <1>1, <1>2 DEF Disconnect, Remembers, AgainOK, OneWaits
<1>3. CASE Wakes
  <2>1. sleeping' = 0 /\ triggered' = FALSE /\ sending' = sending + 1
        /\ reconnectCh' = reconnectCh
    BY <1>1, <1>3 DEF Wakes, AgainOK
  <2>2. OneWaits'
    BY <2>1 DEF OneWaits
  <2>3. sleeping' \in Nat /\ sending' \in Nat /\ reconnectCh' \in 0..1
    BY <2>1 DEF AgainOK
  <2>4. AgainOK'
    BY <2>1, <2>3, ZenonT(30) DEF AgainOK
  <2> QED BY <2>2, <2>4
<1>4. CASE Sends
  BY <1>4 DEF Sends, HasRoom, AgainOK, OneWaits
<1> QED BY <1>2, <1>3, <1>4

-----------------------------------------------------------------------------
LEMMA EntityUnchanged ==
  EntityOK /\ EntityInv /\ UNCHANGED entityVars => EntityOK' /\ EntityInv'
BY DEF EntityOK, EntityInv, entityVars

LEMMA StateUnchanged ==
  StateOK /\ PlayerInv /\ UNCHANGED stateVars => StateOK' /\ PlayerInv'
BY DEF StateOK, PlayerInv, stateVars

LEMMA BlocksUnchanged ==
  BlockOK /\ NamesFollow /\ UNCHANGED blockVars => BlockOK' /\ NamesFollow'
BY DEF BlockOK, NamesFollow, RuntimeIDForBlock, blockVars

LEMMA QueueUnchanged ==
  QueueOK /\ QueueInv /\ UNCHANGED queueVars => QueueOK' /\ QueueInv'
BY DEF QueueOK, QueueInv, queueVars

LEMMA AgainUnchanged ==
  AgainOK /\ OneWaits /\ UNCHANGED againVars => AgainOK' /\ OneWaits'
BY DEF AgainOK, OneWaits, againVars

LEMMA FollowInit == Init => FollowInv
<1> SUFFICES ASSUME Init PROVE FollowInv
  OBVIOUS
<1>1. DOMAIN Empty = {} /\ Empty \in [{} -> Places]
  BY DEF Empty
<1>2. EntityOK
  BY <1>1 DEF Init, EntityOK
<1>3. EntityInv
  BY <1>1 DEF Init, EntityInv
<1>4. StateOK /\ PlayerInv
  <2>1. Nobody \in [id : Ids \cup {0}, at : Places \cup {Unknown}]
    BY DEF Nobody
  <2> QED BY <2>1 DEF Init, StateOK, PlayerInv
<1>5. BlockOK
  <2>1. PICK raw \in Static : nameToID \in Loaded(raw)
    BY DEF Init
  <2>2. /\ nameToID \in [UNION {Named(n) : n \in DOMAIN raw} -> Range(raw)]
        /\ DOMAIN raw \subseteq Names /\ Range(raw) \subseteq Nat
    BY <2>1 DEF Loaded, Range
  <2>3. palette \in Seq(Names)
    BY DEF Init
  <2> QED BY <2>2, <2>3 DEF Named, BlockOK
<1>6. NamesFollow
  BY DEF Init, NamesFollow, Said
<1>7. QueueOK
  BY DEF Init, QueueOK, Waiters
<1>8. QueueInv
  BY DEF Init, QueueInv
<1>9. AgainOK /\ CountOK
  <2>1. /\ sleeping \in Nat /\ sending \in Nat /\ reconnectCh \in 0..1
        /\ session \in Servers /\ npkts \in 0..MaxPkts
    BY DEF Init, Servers
  <2>2. triggered \in BOOLEAN
    BY DEF Init
  <2> QED BY <2>1, <2>2 DEF AgainOK, CountOK
<1>10. OneWaits
  BY DEF Init, OneWaits
<1> QED
  BY <1>2, <1>3, <1>4, <1>5, <1>6, <1>7, <1>8, <1>9, <1>10 DEF FollowInv

\* A packet is that of one tracker, or of two.
LEMMA PacketCounts ==
  ASSUME CountOK, NEW s \in Servers, Packet(s)
  PROVE  CountOK'
BY DEF CountOK, Packet

LEMMA ServerKeeps ==
  ASSUME FollowInv, NEW s \in Servers, ServerStep(s)
  PROVE  FollowInv'
<1> USE DEF FollowInv
<1> USE EntityUnchanged, StateUnchanged, BlocksUnchanged, QueueUnchanged,
        AgainUnchanged
<1>1. ASSUME NEW r \in Ids, NEW x \in Places, Add(s, r, x)  PROVE FollowInv'
  <2>1. /\ Packet(s) /\ UNCHANGED <<stateVars, blockVars, queueVars, againVars>>
    BY <1>1 DEF Add
  <2> QED BY <1>1, <2>1, AddKeeps, PacketCounts
<1>2. ASSUME NEW r \in Ids, NEW x \in Places, MoveActor(s, r, x)  PROVE FollowInv'
  <2>1. /\ Packet(s) /\ EntityMoves(s, r, x)
        /\ UNCHANGED <<stateVars, blockVars, queueVars, againVars>>
    BY <1>2 DEF MoveActor
  <2> QED BY <2>1, EntityMovesKeeps, PacketCounts
<1>3. ASSUME NEW r \in Ids, NEW x \in Places, MovePlayer(s, r, x)  PROVE FollowInv'
  <2>1. /\ Packet(s) /\ EntityMoves(s, r, x)
        /\ UNCHANGED <<blockVars, queueVars, againVars>>
    BY <1>3 DEF MovePlayer
  <2>2. EntityOK' /\ EntityInv'
    BY <2>1, EntityMovesKeeps
  <2>3. StateOK' /\ PlayerInv'
    BY <1>3, SpokenKeeps
  <2> QED BY <2>1, <2>2, <2>3, PacketCounts
<1>4. ASSUME NEW r \in Ids, RemoveActor(s, r)  PROVE FollowInv'
  <2>1. /\ Packet(s) /\ UNCHANGED <<stateVars, blockVars, queueVars, againVars>>
    BY <1>4 DEF RemoveActor
  <2> QED BY <1>4, <2>1, RemoveKeeps, PacketCounts
<1>5. ASSUME NEW r \in Ids, NEW x \in Places, NEW pal \in Palettes,
             StartGame(s, r, x, pal)
      PROVE  FollowInv'
  <2>1. Packet(s) /\ UNCHANGED <<entityVars, queueVars, againVars>>
    BY <1>5 DEF StartGame
  <2>2. StateOK' /\ PlayerInv'
    BY <1>5, SpokenKeeps
  <2>3. BlockOK' /\ NamesFollow'
    BY <1>5, BlocksKeep
  <2> QED BY <2>1, <2>2, <2>3, PacketCounts
<1>6. ASSUME NEW x \in Places, Respawn(s, x)  PROVE FollowInv'
  <2>1. /\ Packet(s) /\ UNCHANGED <<entityVars, blockVars, queueVars, againVars>>
        /\ self[s] # Nobody
    BY <1>6 DEF Respawn
  <2>2. StateOK' /\ PlayerInv'
    BY <1>6, RespawnKeeps
  <2> QED BY <2>1, <2>2, PacketCounts
<1>7. ASSUME MoveLands(s)  PROVE FollowInv'
  <2>1. UNCHANGED <<entityVars, blockVars, queueVars, againVars, session, npkts>>
    BY <1>7 DEF MoveLands
  <2> QED BY <1>7, <2>1, LandsKeeps DEF CountOK
<1>8. ASSUME NEW p \in Queue, QueueMessage(s, p)  PROVE FollowInv'
  <2>1. /\ Packet(s) /\ UNCHANGED <<entityVars, stateVars, blockVars, againVars>>
    BY <1>8 DEF QueueMessage
  <2> QED BY <1>8, <2>1, MessageKeeps, PacketCounts
<1>9. ASSUME QueueWrite(s) \/ QueueTest(s) \/ QueueDone(s)  PROVE FollowInv'
  <2>1. UNCHANGED <<entityVars, stateVars, blockVars, againVars, session, npkts>>
    BY <1>9 DEF QueueWrite, QueueTest, QueueDone, WaiterAt
  <2>2. QueueOK' /\ QueueInv'
    BY <1>9, WriteKeeps, TestKeeps, DoneKeeps
  <2> QED BY <2>1, <2>2 DEF CountOK
<1>10. ASSUME Disconnect(s)  PROVE FollowInv'
  <2>1. /\ Packet(s) /\ UNCHANGED <<entityVars, stateVars, blockVars, queueVars>>
    BY <1>10 DEF Disconnect
  <2>2. AgainOK' /\ OneWaits'
    BY <1>10, AgainKeeps
  <2> QED BY <2>1, <2>2, PacketCounts
<1> HIDE DEF FollowInv
<1> QED BY <1>1, <1>2, <1>3, <1>4, <1>5, <1>6, <1>7, <1>8, <1>9, <1>10 DEF ServerStep

LEMMA FollowStep == FollowInv /\ [Next]_vars => FollowInv'
<1> SUFFICES ASSUME FollowInv, [Next]_vars PROVE FollowInv'
  OBVIOUS
<1>1. CASE Wakes \/ Sends
  <2>1. UNCHANGED <<entityVars, stateVars, blockVars, queueVars, session, npkts>>
    BY <1>1 DEF Wakes, Sends
  <2>2. AgainOK' /\ OneWaits'
    BY <1>1, AgainKeeps DEF FollowInv
  <2> QED BY <2>1, <2>2, EntityUnchanged, StateUnchanged, BlocksUnchanged,
             QueueUnchanged DEF FollowInv, CountOK
<1>2. CASE NewSession \/ UNCHANGED vars
  <2>1. /\ UNCHANGED <<entityVars, stateVars, blockVars, queueVars, againVars, npkts>>
        /\ session' = session \/ (session < MaxSessions /\ session' = session + 1)
    BY <1>2 DEF NewSession, vars
  <2>2. CountOK'
    BY <2>1 DEF FollowInv, CountOK, Servers
  <2> QED BY <2>1, <2>2, EntityUnchanged, StateUnchanged, BlocksUnchanged,
             QueueUnchanged, AgainUnchanged DEF FollowInv
<1> QED BY <1>1, <1>2, ServerKeeps DEF Next

-----------------------------------------------------------------------------
THEOREM FollowInvariant == Spec => []FollowInv
BY FollowInit, FollowStep, PTL DEF Spec

\* Every variable keeps its type.
THEOREM TypeCorrect == Spec => []TypeOK
<1> FollowInv => TypeOK
  BY DEF FollowInv, EntityOK, StateOK, BlockOK, QueueOK, Waiters, AgainOK, CountOK,
         TypeOK
<1> QED BY FollowInvariant, PTL

\* What a server has is tracked where it put it, and what it removed by its
\* runtime id is not, whichever servers overlap and however they number their
\* entities, as long as the entry is that server's own.
THEOREM EntitiesAreFollowed == Spec => []EntitiesFollow
<1> FollowInv => EntitiesFollow
  <2> SUFFICES ASSUME FollowInv, NEW s \in Servers, NEW r \in Ids
        PROVE  /\ r \in DOMAIN world[s] /\ teller[r] = s =>
                    r \in DOMAIN entities /\ entities[r] = world[s][r]
               /\ r \in gone[s] /\ Unique[s][r] = r /\ teller[r] \in {0, s} =>
                    r \notin DOMAIN entities
    BY DEF EntitiesFollow
  <2>1. s # 0
    BY DEF Servers
  <2> QED BY <2>1 DEF FollowInv, EntityInv
<1> QED BY FollowInvariant, PTL

\* The player's id is that of the last server to say who the player is, and its
\* place the last one told by it, until another server places its own.
THEOREM PlayerIsFollowed == Spec => []PlayerFollows
<1> FollowInv => PlayerFollows
  BY DEF FollowInv, PlayerInv, PlayerFollows
<1> QED BY FollowInvariant, PTL

\* The names of the last list give ids of its blocks, whatever files and earlier
\* lists said of them.
THEOREM NamesAreFollowed == Spec => []NamesFollow
<1> FollowInv => NamesFollow
  BY DEF FollowInv
<1> QED BY FollowInvariant, PTL

\* A fall through the threshold is announced, however the messages of servers
\* that do not meet in the handler follow each other.
THEOREM FallsAreAnnounced == Spec => []FallsAnnounced
<1> FollowInv => FallsAnnounced
  BY DEF FollowInv, QueueInv, FallsAnnounced
<1> QED BY FollowInvariant, PTL

\* One goroutine at most waits to ask for a reconnect.
THEOREM OneReconnectWaits == Spec => []OneWaits
<1> FollowInv => OneWaits
  BY DEF FollowInv
<1> QED BY FollowInvariant, PTL
=============================================================================
