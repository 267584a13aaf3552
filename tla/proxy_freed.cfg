\* One client, one thread that cannot attach to the Java VM.
SPECIFICATION Spec
CONSTANTS
  Clients = {c1}
  Owners = {o1}
  Objects = {x1}
  None = None
  MaxUses = 1
  MaxMoves = 0
  MaxSpurious = 0
  AttachMayFail = TRUE
INVARIANT
  ProxyLocksThread
CHECK_DEADLOCK FALSE
