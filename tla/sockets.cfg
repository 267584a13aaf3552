\* One acceptor, one thread that connects, one stream at a time, two UDP
\* clients, and a table of three entries for all of them.
SPECIFICATION FairSpec
CONSTANTS
  MaxFd = 2
  Streams = {s1}
  Acceptors = {a1}
  MaxFailed = 1
  Connecting = {c1}
  Udps = {u1, u2}
INVARIANTS
  OneHolder
  NoLeak
  SocketsWork
PROPERTIES
  StdinKept
  ShutdownEndsAccept
\* the acceptor is gone and the bounds are reached
CHECK_DEADLOCK FALSE
