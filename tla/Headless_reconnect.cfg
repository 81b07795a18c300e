SPECIFICATION FairSpec
CONSTANTS
  Conns = {c1, c2}
  NoConn = NoConn
  MaxBots = 1
  MaxPkts = 1
  StatePkts = {1}
PROPERTY Reconnects
CHECK_DEADLOCK FALSE
