----------------------------- MODULE MCSchematic ----------------------------
EXTENDS Schematic
CONSTANTS house, hut

\* Two blocks on the ground, and a shorter one on the layer above.
TwoFiles ==
  house :> <<[x |-> 0, y |-> 0], [x |-> 1, y |-> 0]>> @@
  hut   :> <<[x |-> 1, y |-> 1]>>
=============================================================================
