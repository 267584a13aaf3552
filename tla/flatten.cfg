\* The values of the run support, for the promise of unflatten alone.
SPECIFICATION Spec
CONSTANTS
  ReuseThreshold = 2
  MaxEmplaced = 5
  Keys = {k1, k2, k3}
  Values = {1, 2}
  Hashes = {0, 1, 3}
  Sizes = {4}
  DefaultSize = 2
  SetElements = {k1, k2, k3}
  SmallSize = 2
  ShortHaystack = 4
  MaxNeedle = 3
  BufSize = 3
  FileSize = 6
  MaxRead = 4
  BlockBytes = 4
  LengthBytes = 2
  MaxMessage = 9
  MaxText = 7
  MaxLine = 8
  MaxTokens = 10
  MaxNesting = 2
  MaxCoded = 5
  IntegerBits = 5
  DoubleBits = 3
INVARIANT FlattenRestores
\* a unit that codes a sample has no step, and the others come to their bounds
CHECK_DEADLOCK FALSE
