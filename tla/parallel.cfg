\* Two calls in a row, three servers at most in all, with and without timeout.
SPECIFICATION FairSpec
CONSTANTS
  s1 = s1
  s2 = s2
  Servers = {s1, s2}
  Lists <- VariedLists
  Timeouts = {TRUE, FALSE}
  MaxCalls = 2
  MaxAttempts = 3
  MaxSpurious = 1
  None = None
INVARIANTS
  TypeOK
  StreamOwnership
  NullMeansAllFailed
  ActiveEntriesLive
  SuccessIsAnnounced
PROPERTIES
  TimedCallReturns
  SuccessfulCallReturns
\* the bound on calls ends the run, and an untimed call may wait for ever
CHECK_DEADLOCK FALSE
