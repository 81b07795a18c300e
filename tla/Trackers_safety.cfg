\* Two entities or the player, two places, a queue around its threshold, and
\* two servers at once; a palette file of another version, and two lists of
\* blocks.
SPECIFICATION Spec
CONSTANTS
  Ids = {1, 2}
  Unique <- TwoNumberings
  here = here
  there = there
  Places = {here, there}
  Unknown = Unknown
  stone = stone
  dirt = dirt
  myStone = myStone
  itsStone = itsStone
  Names = {stone, dirt, myStone, itsStone}
  Clean <- NoNamespace
  Palettes <- Lists
  Static <- FileOrNone
  Queue = {1, 2, 4}
  NotifyAt = 2
  MaxPkts = 4
  MaxSessions = 2
SYMMETRY AlikePlaces
INVARIANTS TypeOK EntitiesFollow PlayerFollows NamesFollow FallsAnnounced 
\* The server may fall silent.
CHECK_DEADLOCK FALSE
