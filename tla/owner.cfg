\* Two clients share two owners: start, stop, proxies and two move assignments.
SPECIFICATION Spec
CONSTANTS
  Clients = {c1, c2}
  Owners = {o1, o2}
  Objects = {x1, x2}
  None = None
  MaxUses = 2
  MaxMoves = 2
  MaxSpurious = 0
  AttachMayFail = FALSE
INVARIANTS
  NoOrphan
  OwnedOnce
PROPERTY
  FreeRespectsProxy
\* every object used, everything stopped
CHECK_DEADLOCK FALSE
