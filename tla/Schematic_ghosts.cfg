SPECIFICATION Spec
CONSTANTS
  house = house
  hut = hut
  Files = {house, hut}
  NoFile = NoFile
  Blocks <- TwoFiles
  Origins = {0, 1}
  Layers = {0, 1}
  MaxCmds = 4
  MaxSessions = 1
PROPERTY GhostsOff
CHECK_DEADLOCK FALSE
