\* A server that is moved and destroyed only when its clients are closed; calls
\* that change the list of accepted connections are serialised.
CONSTANTS
  Servers = {s1, s2}
  Clients = {c1, c2}
  FDs = {f1, f2, f3}
  INVALID_SOCKET = INVALID_SOCKET
  NULL = NULL
  ServerOutlives = TRUE
  MoveWithClients = FALSE
  SerialClose = TRUE
SPECIFICATION Spec
SYMMETRY Symmetry
INVARIANTS
  TypeOK
  AcceptedListIsExact
  NoFault
  NoLeak
