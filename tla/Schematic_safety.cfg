SPECIFICATION FairSpec
CONSTANTS
  house = house
  hut = hut
  Files = {house, hut}
  NoFile = NoFile
  Blocks <- TwoFiles
  Origins = {1}
  Layers = {0, 1}
  MaxCmds = 4
  MaxSessions = 2
INVARIANTS TypeOK MarkedIsShown StopsWithinOne
PROPERTIES  PrinterEnds
CHECK_DEADLOCK FALSE
