\* One session, every packet of it.
SPECIFICATION FairSpec
CONSTANTS
  s1 = s1
  Sessions = {s1}
  Stream <- OneStream
INVARIANTS TypeOK NothingLeftOpen
PROPERTIES InOrder HungUp GoroutinesEnd
\* The session may be over.
CHECK_DEADLOCK FALSE
