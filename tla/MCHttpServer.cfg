\* Two connections at a time; their tasks close with nothing to serialise them.
CONSTANTS
  Servers = {s1}
  Clients = {c1, c2}
  FDs = {f1, f2, f3}
  INVALID_SOCKET = INVALID_SOCKET
  NULL = NULL
  server_socket = s1
  ServerOutlives = FALSE
  MoveWithClients = FALSE
  SerialClose = FALSE
SPECIFICATION HttpSpec
CHECK_DEADLOCK FALSE
INVARIANT
  CleanAfterStop
PROPERTIES
  StopReturns
  EveryConnectionClosed
  AcceptReturns
