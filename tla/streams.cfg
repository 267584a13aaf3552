\* A buffer of two bytes, and writes and reads that are longer than it.
SPECIFICATION Spec
CONSTANTS
  BufSize = 2
  PipeSize = 3
  MaxBytes = 5
  MaxLen = 5
INVARIANT
  TypeOK
PROPERTY
  AsByteStream
\* all bytes are written and the connection is closed
CHECK_DEADLOCK FALSE
