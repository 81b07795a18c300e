----------------------------- MODULE MCTrackers -----------------------------
EXTENDS Trackers, TLC
CONSTANTS here, there, stone, dirt, myStone, itsStone
\* The first server gives an entity one id; the second's entities have the
\* other's runtime id and one that is nobody's.
TwoNumberings == <<<<1, 2>>, <<2, 9>>>>
AlikePlaces == Permutations(Places)
\* Two blocks are called stone in a namespace of their own.
NoNamespace ==
  stone :> stone @@ dirt :> dirt @@ myStone :> stone @@ itsStone :> stone
\* No list, another's order, and a name that is also one without a namespace.
Lists == {<< >>, <<dirt, myStone>>, <<stone, itsStone>>}
NoFile == [n \in {} |-> 0]
OldFile == myStone :> 5 @@ itsStone :> 3
FileOrNone == {NoFile, OldFile}
=============================================================================
