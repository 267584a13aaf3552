\* Three clients of one callback manager with one thread object, four proxies.
SPECIFICATION FairSpec
CONSTANTS
  Clients = {c1, c2, c3}
  Owners = {o1}
  Objects = {x1}
  None = None
  MaxUses = 4
  MaxMoves = 0
  MaxSpurious = 1
  AttachMayFail = TRUE
INVARIANTS
  TypeOK
  CallbackConsistent
  OneLateCallback
  NoSleepOnMessage
PROPERTIES
  MessagesHandled
  StopReachesThread
\* the object is used, everything has stopped
CHECK_DEADLOCK FALSE
