\* One call that names a server twice.
SPECIFICATION Spec
CONSTANTS
  s1 = s1
  s2 = s2
  Servers = {s1, s2}
  Lists <- RepeatedServer
  Timeouts = {FALSE}
  MaxCalls = 1
  MaxAttempts = 2
  MaxSpurious = 0
  None = None
INVARIANT
  NoDuplicateAttempt
CHECK_DEADLOCK FALSE
