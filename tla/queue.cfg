\* Two producers of two items each, three consumers, one spurious wakeup.
SPECIFICATION FairSpec
CONSTANTS
  Producers = {p1, p2}
  Consumers = {c1, c2, c3}
  NoThread = NoThread
  MaxPush = 2
  MaxSpurious = 1
INVARIANTS
  TypeOK
  NoStrandedItem
  Delivery
PROPERTIES
  ImplementsFifo
  Drained
\* every item has been pushed and taken and both consumers wait
CHECK_DEADLOCK FALSE
