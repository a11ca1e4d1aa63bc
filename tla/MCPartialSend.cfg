\* A send() that takes part of the buffer.
CONSTANTS
  BufSize = 2
  MaxBytes = 3
  PartialSends = TRUE
  MoveWhenEmpty = TRUE
SPECIFICATION Spec
PROPERTY
  OutputIsByteStream
CHECK_DEADLOCK FALSE
