SPECIFICATION TSpec
CONSTANTS
  Reqs = {r1, r2, r3}
  NoReq = NoReq
  MaxLogs = 2
  MaxPrinted = 4
INVARIANT OfflineMeansNoBot
CHECK_DEADLOCK FALSE
