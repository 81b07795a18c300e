\* One bot, two clients, two state packets; no symmetry, for the sake of the
\* temporal properties.
SPECIFICATION FairSpec
CONSTANTS
  Conns = {c1, c2}
  NoConn = NoConn
  MaxBots = 1
  MaxPkts = 2
  StatePkts = {1, 2}
INVARIANTS TypeOK ClientBeforeReady TakeoverServed NoStateLost
PROPERTIES ReplayCurrent ReconnectsAfterHandover GoroutinesEnd
\* The process ends when the accept loop panics, and a bot whose server drops
\* before a client comes waits for ever.
CHECK_DEADLOCK FALSE
