\* open() and the receives end although nothing arrives and another thread closes
\* the object meanwhile.
CONSTANTS
  FDs = {f1}
  INVALID_SOCKET = INVALID_SOCKET
  Owner = owner
  Closers = {c1}
  Kinds <- NotRaw
  Timeouts = {1000}
  ConnectTimeout <- ThreeChunks
  Calls = {"recv", "recvfrom"}
  CloseBeforeReopen = TRUE
  SerialClose = TRUE
  CloseWindow <- Waiting
SPECIFICATION FairSpec
PROPERTIES
  OpenReturns
  ReceiveReturns
INVARIANTS
  CloseAbortsConnect
  CloseDetectedPromptly
