\* The owner makes every call, and closes after a failed open(); another thread
\* closes the socket while the owner is blocked in an I/O call.
CONSTANTS
  FDs = {f1, f2}
  INVALID_SOCKET = INVALID_SOCKET
  Owner = owner
  Closers = {c1, c2}
  Kinds <- EveryKind
  Timeouts = {1000, 2000}
  ConnectTimeout <- ThreeChunks
  Calls = {"recv", "recvfrom", "send", "sendto"}
  CloseBeforeReopen = TRUE
  SerialClose = TRUE
  CloseWindow <- Blocked
SPECIFICATION Spec
SYMMETRY Symmetry
INVARIANTS
  TypeOK
  OneDescriptor
  TouchesOnlyOwn
  OpenedIsArmed
