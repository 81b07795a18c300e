\* Words of eight bits, so that a palette of five already straddles them.
SPECIFICATION Spec
CONSTANTS
  Schematics <- MCSchematics
  W = 8
  Names <- MCNames
  Clean <- MCClean
  HasAir <- MCHasAir
  Blank = {"", "air"}
  Legacy <- MCLegacy
  Stone = "stone"
INVARIANTS TypeOK InFileOrder BlocksOfTheFile PanicsOnlyFor
\* A file is parsed once.
CHECK_DEADLOCK FALSE
