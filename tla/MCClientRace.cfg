\* Two accepted clients are closed by two threads at once.
CONSTANTS
  Servers = {s1}
  Clients = {c1, c2}
  FDs = {f1, f2, f3}
  INVALID_SOCKET = INVALID_SOCKET
  NULL = NULL
  ServerOutlives = TRUE
  MoveWithClients = FALSE
  SerialClose = FALSE
SPECIFICATION Spec
INVARIANT
  AcceptedListIsExact
