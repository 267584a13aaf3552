\* One client starts a thread and stops it.
SPECIFICATION FairSpec
CONSTANTS
  Clients = {c1}
  Owners = {o1}
  Objects = {x1}
  None = None
  MaxUses = 0
  MaxMoves = 0
  MaxSpurious = 0
  AttachMayFail = FALSE
PROPERTY
  StopEndsThread
CHECK_DEADLOCK FALSE
