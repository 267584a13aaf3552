\* One call for one server, without a timeout.
SPECIFICATION FairSpec
CONSTANTS
  s1 = s1
  s2 = s2
  Servers = {s1, s2}
  Lists <- OneServer
  Timeouts = {FALSE}
  MaxCalls = 1
  MaxAttempts = 1
  MaxSpurious = 0
  None = None
PROPERTY
  EveryCallReturns
\* the caller may wait for ever: that is what is shown
CHECK_DEADLOCK FALSE
