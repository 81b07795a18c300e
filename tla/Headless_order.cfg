SPECIFICATION Spec
CONSTANTS
  Conns = {c1, c2}
  NoConn = NoConn
  MaxBots = 1
  MaxPkts = 2
  StatePkts = {1}
PROPERTY NormalPipeSession
CHECK_DEADLOCK FALSE
