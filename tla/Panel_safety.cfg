\* Three requests of any kind, and a log that keeps two entries.
SPECIFICATION TFairSpec
CONSTANTS
  Reqs = {r1, r2, r3}
  NoReq = NoReq
  MaxLogs = 2
  MaxPrinted = 3
INVARIANTS TypeOK StartsNeedStops OneBotLoop OnlineHasBot LogIsWindow TokenKept
PROPERTY AllAnswered
\* The process may exit, and all requests may be answered.
CHECK_DEADLOCK FALSE
