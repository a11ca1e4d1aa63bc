\* Two buffers and a rest, sends that take all or nothing.
CONSTANTS
  BufSize = 2
  MaxBytes = 5
  PartialSends = FALSE
  MoveWhenEmpty = TRUE
SPECIFICATION Spec
INVARIANTS
  TypeOK
  FlushTrueMeansSent
  EndOfStreamIsLast
PROPERTIES
  OutputIsByteStream
  InputIsByteStream
CHECK_DEADLOCK FALSE
