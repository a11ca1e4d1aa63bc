\* close() from another thread while open() is about to finish.
CONSTANTS
  FDs = {f1, f2}
  INVALID_SOCKET = INVALID_SOCKET
  Owner = owner
  Closers = {c1}
  Kinds <- StreamClient
  Timeouts = {1000}
  ConnectTimeout <- ThreeChunks
  Calls = {"recv"}
  CloseBeforeReopen = TRUE
  SerialClose = FALSE
  CloseWindow <- Anywhere
SPECIFICATION Spec
SYMMETRY Symmetry
INVARIANTS
  OpenedHasDescriptor
