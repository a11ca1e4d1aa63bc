\* stop() comes while the worker is inside open() of the listening socket.
CONSTANTS
  Servers = {s1}
  Clients = {c1}
  FDs = {f1, f2}
  INVALID_SOCKET = INVALID_SOCKET
  NULL = NULL
  server_socket = s1
  ServerOutlives = FALSE
  MoveWithClients = FALSE
  SerialClose = FALSE
SPECIFICATION HttpSpec
CHECK_DEADLOCK FALSE
INVARIANT
  NothingLost
