SPECIFICATION Spec
CONSTANTS
  Conns = {c1, c2}
  NoConn = NoConn
  MaxBots = 1
  MaxPkts = 1
  StatePkts = {1}
INVARIANT AcceptSurvives
CHECK_DEADLOCK FALSE
