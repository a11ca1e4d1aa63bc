------------------------------ MODULE TcpServer ------------------------------
(***************************************************************************)
(* A tcp_socket_t server and the client objects its accept() returns       *)
(* (include/tcp_socket.h): the server remembers the descriptor of every    *)
(* accepted connection in accept_clients, an accepted client remembers the *)
(* server in `parent' and takes its descriptor off that list when it       *)
(* closes, and the destructor of the server closes what is left.           *)
(*                                                                         *)
(* Server and client objects may be used by different threads: accept() by *)
(* one, close() of the server by another, and each client by one of its    *)
(* own.  The steps of client close() on the shared list are separate       *)
(* actions; what close() does to the object's own descriptor is one step   *)
(* here (SocketLifecycle takes it apart).                                  *)
(*                                                                         *)
(* holder[f] is the object a descriptor belongs to, so that a stale        *)
(* descriptor number that has been handed out again can be told from the   *)
(* connection it once named.                                               *)
(***************************************************************************)
EXTENDS Integers, Sequences, SequencesExt

CONSTANTS
  Servers, Clients,   \* places where objects can live
  FDs, INVALID_SOCKET,
  NULL,               \* parent of an object that was not accepted
  ServerOutlives,     \* a server object is destroyed after its clients are closed
  MoveWithClients,    \* a server object may be moved while clients it accepted are open
  SerialClose         \* callers serialise accept() and close() of its clients

ASSUME ObjectAssumption ==
  /\ NULL \notin Servers /\ INVALID_SOCKET \notin FDs
  /\ Servers \cap Clients = {}
  /\ {"free", "foreign"} \cap (Servers \cup Clients) = {}
ASSUME UsageAssumption == {ServerOutlives, MoveWithClients, SerialClose} \subseteq BOOLEAN

VARIABLES
  srv,        \* server objects: [live, state, sock, accept_clients]
  cli,        \* client objects: [live, state, sock, parent]
  holder,     \* the kernel's descriptors: the object they belong to
  apc,        \* where the thread inside accept() of a server is
  spc,        \* where the thread inside close() of a server is
  cpc, i,     \* where the thread inside close() of a client is; its loop index
  dying,      \* clients whose close() was called by their destructor
  out,        \* the out-parameters of accept(): [success, address_from]
  faults      \* what went wrong: "stray_close", "dangling", "bad_erase"

vars == <<srv, cli, holder, apc, spc, cpc, i, dying, out, faults>>

NewServer == [live |-> TRUE, state |-> "created", sock |-> INVALID_SOCKET,
              accept_clients |-> <<>>]
NewClient == [live |-> TRUE, state |-> "created", sock |-> INVALID_SOCKET,
              parent |-> NULL]
DeadServer == [NewServer EXCEPT !.live = FALSE]
DeadClient == [NewClient EXCEPT !.live = FALSE]

Init ==
  /\ \E s \in Servers :
       srv = [x \in Servers |-> IF x = s THEN NewServer ELSE DeadServer]
  /\ cli = [c \in Clients |-> DeadClient]
  /\ holder = [f \in FDs |-> "free"]
  /\ apc = [s \in Servers |-> "idle"]
  /\ spc = [s \in Servers |-> "idle"]
  /\ cpc = [c \in Clients |-> "idle"]
  /\ i = [c \in Clients |-> 0]
  /\ dying = {}
  /\ out = [success |-> "unset", address_from |-> "unset"]
  /\ faults = {}

-----------------------------------------------------------------------------
(* Helpers *)

Idle(s) == srv[s].live /\ apc[s] = "idle" /\ spc[s] = "idle"
NoClientCloses == \A c \in Clients : cpc[c] = "idle"

Free == {f \in FDs : holder[f] = "free"}

\* closesocket() of every descriptor in fs, each of which should be free
\* already or belong to one of the objects in rightful.
closesocket(fs, rightful) ==
  /\ holder' = [f \in FDs |-> IF f \in fs THEN "free" ELSE holder[f]]
  /\ faults' = IF \E f \in fs \cap FDs : holder[f] \notin rightful \cup {"free"}
                 THEN faults \cup {"stray_close"} ELSE faults

\* The clients that s accepted and that are still open.
AcceptedBy(s) ==
  {c \in Clients : cli[c].live /\ cli[c].state = "opened" /\ cli[c].parent = s}

-----------------------------------------------------------------------------
(* The server object *)

\* open() of a server: bound and listening, or as before.  SocketLifecycle has
\* its steps, HttpServer lets them overlap with a close().
ServerOpen(s) ==
  /\ Idle(s) /\ srv[s].state = "created"
  /\ \E f \in Free :
       /\ srv' = [srv EXCEPT ![s].state = "opened", ![s].sock = f]
       /\ holder' = [holder EXCEPT ![f] = s]
  /\ UNCHANGED <<cli, apc, spc, cpc, i, dying, out, faults>>

\* close() of a server, which any thread may call: it leaves accept_clients.
ServerClose(s) ==
  /\ srv[s].live /\ spc[s] = "idle" /\ srv[s].state # "created"
  /\ srv' = [srv EXCEPT ![s].state = "created"]
  /\ spc' = [spc EXCEPT ![s] = "close_fd"]
  /\ UNCHANGED <<cli, holder, apc, cpc, i, dying, out, faults>>

ServerCloseFd(s) ==
  /\ spc[s] = "close_fd"
  /\ closesocket({srv[s].sock}, {s})
  /\ spc' = [spc EXCEPT ![s] = "close_inval"]
  /\ UNCHANGED <<srv, cli, apc, cpc, i, dying, out>>

ServerCloseInval(s) ==
  /\ spc[s] = "close_inval"
  /\ srv' = [srv EXCEPT ![s].sock = INVALID_SOCKET]
  /\ spc' = [spc EXCEPT ![s] = "idle"]
  /\ UNCHANGED <<cli, holder, apc, cpc, i, dying, out, faults>>

\* Mutant: the destructor closes the accepted connections and not its own.
ServerDestroy_KeepsSock(s) ==
  /\ Idle(s)
  /\ \A c \in AcceptedBy(s) : cpc[c] = "idle"
  /\ ServerOutlives => AcceptedBy(s) = {}
  /\ closesocket(Range(srv[s].accept_clients), AcceptedBy(s))
  /\ srv' = [srv EXCEPT ![s] = DeadServer]
  /\ UNCHANGED <<cli, apc, spc, cpc, i, dying, out>>

\* The destructor: closesocket() of every accepted descriptor, then close().
ServerDestroy(s) ==
  /\ Idle(s)
  /\ \A c \in AcceptedBy(s) : cpc[c] = "idle"
  /\ ServerOutlives => AcceptedBy(s) = {}
  /\ closesocket(Range(srv[s].accept_clients)
                   \cup (IF srv[s].state = "created" THEN {} ELSE {srv[s].sock}),
                 AcceptedBy(s) \cup {s})
  /\ srv' = [srv EXCEPT ![s] = DeadServer]
  /\ UNCHANGED <<cli, apc, spc, cpc, i, dying, out>>

ServerConstruct(s) ==
  /\ ~ srv[s].live /\ AcceptedBy(s) = {}
  /\ srv' = [srv EXCEPT ![s] = NewServer]
  /\ UNCHANGED <<cli, holder, apc, spc, cpc, i, dying, out, faults>>

\* The move constructor of `to' from s; the clients keep pointing at s.
ServerMove(s, to) ==
  /\ MoveWithClients \/ AcceptedBy(s) = {}
  /\ Idle(s) /\ ~ srv[to].live /\ AcceptedBy(to) = {}
  /\ \A c \in AcceptedBy(s) : cpc[c] = "idle"
  /\ srv' = [srv EXCEPT ![to] = srv[s], ![s] = NewServer]
  /\ holder' = [f \in FDs |-> IF holder[f] = s THEN to ELSE holder[f]]
  /\ UNCHANGED <<cli, apc, spc, cpc, i, dying, out, faults>>

-----------------------------------------------------------------------------
(* accept() *)

\* Every call writes its result into fresh out-parameters of the caller; a
\* socket that is not opened returns before they are written.
Accept(s) ==
  /\ srv[s].live /\ apc[s] = "idle"
  /\ out' = [success |-> "unset", address_from |-> "unset"]
  /\ apc' = [apc EXCEPT ![s] = IF srv[s].state # "opened" THEN "returned" ELSE "poll"]
  /\ UNCHANGED <<srv, cli, holder, spc, cpc, i, dying, faults>>

\* poll() of whatever `sock' names now; a closed descriptor ends it at once.
AcceptPoll(s) ==
  /\ apc[s] = "poll"
  /\ apc' = [apc EXCEPT ![s] = "wait"]
  /\ UNCHANGED <<srv, cli, holder, spc, cpc, i, dying, out, faults>>

AcceptReady(s) ==
  /\ apc[s] = "wait"
  /\ apc' = [apc EXCEPT ![s] = "accept"]
  /\ UNCHANGED <<srv, cli, holder, spc, cpc, i, dying, out, faults>>

AcceptFailure == [success |-> "false", address_from |-> "empty"]
AcceptSuccess == [success |-> "true", address_from |-> "peer"]

\* Mutant: poll() without a timeout ends only when the server was closed.
AcceptTimeout_Infinite(s) ==
  /\ apc[s] = "wait" /\ srv[s].state = "created"
  /\ out' = AcceptFailure
  /\ apc' = [apc EXCEPT ![s] = "returned"]
  /\ UNCHANGED <<srv, cli, holder, spc, cpc, i, dying, faults>>

\* The poll timed out, failed or reported an invalid descriptor.
AcceptTimeout(s) ==
  /\ apc[s] = "wait"
  /\ out' = AcceptFailure
  /\ apc' = [apc EXCEPT ![s] = "returned"]
  /\ UNCHANGED <<srv, cli, holder, spc, cpc, i, dying, faults>>

\* ::accept() fails: no pending connection, no free descriptor, a closed one.
AcceptFails(s) ==
  /\ apc[s] = "accept"
  /\ out' = AcceptFailure
  /\ apc' = [apc EXCEPT ![s] = "returned"]
  /\ UNCHANGED <<srv, cli, holder, spc, cpc, i, dying, faults>>

\* Mutant: the returned client never becomes opened.
AcceptConnection_Prepared(s, c, f) ==
  /\ apc[s] = "accept" /\ srv[s].sock \in FDs /\ holder[srv[s].sock] = s
  /\ SerialClose => NoClientCloses
  /\ ~ cli[c].live /\ f \in Free
  /\ holder' = [holder EXCEPT ![f] = c]
  /\ cli' = [cli EXCEPT ![c] = [live |-> TRUE, state |-> "prepared", sock |-> f, parent |-> s]]
  /\ srv' = [srv EXCEPT ![s].accept_clients = Append(@, f)]
  /\ out' = AcceptSuccess
  /\ apc' = [apc EXCEPT ![s] = "returned"]
  /\ UNCHANGED <<spc, cpc, i, dying, faults>>

\* ::accept() succeeds: the connection becomes the returned client object and
\* an entry of accept_clients.
AcceptConnection(s, c, f) ==
  /\ apc[s] = "accept" /\ srv[s].sock \in FDs /\ holder[srv[s].sock] = s
  /\ SerialClose => NoClientCloses
  /\ ~ cli[c].live /\ f \in Free
  /\ holder' = [holder EXCEPT ![f] = c]
  /\ cli' = [cli EXCEPT ![c] = [live |-> TRUE, state |-> "opened", sock |-> f, parent |-> s]]
  /\ srv' = [srv EXCEPT ![s].accept_clients = Append(@, f)]
  /\ out' = AcceptSuccess
  /\ apc' = [apc EXCEPT ![s] = "returned"]
  /\ UNCHANGED <<spc, cpc, i, dying, faults>>

\* The caller looks at the out-parameters and goes on.
AcceptReturned(s) ==
  /\ apc[s] = "returned"
  /\ apc' = [apc EXCEPT ![s] = "idle"]
  /\ out' = [success |-> "unset", address_from |-> "unset"]
  /\ UNCHANGED <<srv, cli, holder, spc, cpc, i, dying, faults>>

-----------------------------------------------------------------------------
(* The client objects *)

\* close(), called directly (destructor = FALSE) or by the destructor: an
\* opened accepted client first walks the list of its parent.
ClientClose(c, destructor) ==
  /\ cli[c].live /\ cpc[c] = "idle"
  /\ SerialClose => NoClientCloses
  /\ dying' = IF destructor THEN dying \cup {c} ELSE dying
  /\ LET walks == cli[c].state = "opened" /\ cli[c].parent # NULL
         lost  == walks /\ ~ srv[cli[c].parent].live
     IN  /\ cpc' = [cpc EXCEPT ![c] = IF walks /\ ~ lost THEN "scan" ELSE "base_close"]
         /\ faults' = IF lost THEN faults \cup {"dangling"} ELSE faults
  /\ i' = [i EXCEPT ![c] = 1]
  /\ UNCHANGED <<srv, cli, holder, apc, spc, out>>

List(c) == srv[cli[c].parent].accept_clients

\* for (i = 0; i < size; i++) if (accept_clients[i] == sock)
ClientScan(c) ==
  /\ cpc[c] = "scan"
  /\ IF i[c] > Len(List(c))
       THEN cpc' = [cpc EXCEPT ![c] = "base_close"] /\ UNCHANGED i
       ELSE IF List(c)[i[c]] = cli[c].sock
              THEN cpc' = [cpc EXCEPT ![c] = "erase"] /\ UNCHANGED i
              ELSE i' = [i EXCEPT ![c] = @ + 1] /\ UNCHANGED cpc
  /\ UNCHANGED <<srv, cli, holder, apc, spc, dying, out, faults>>

\* Mutant: the closed descriptor stays on the list.
ClientErase_KeepsEntry(c) ==
  /\ cpc[c] = "erase"
  /\ i' = [i EXCEPT ![c] = @ + 1]
  /\ cpc' = [cpc EXCEPT ![c] = "scan"]
  /\ UNCHANGED <<srv, cli, holder, apc, spc, dying, out, faults>>

\* accept_clients.erase (begin () + i), and the loop goes on with i + 1.
ClientErase(c) ==
  /\ cpc[c] = "erase"
  /\ IF i[c] <= Len(List(c))
       THEN srv' = [srv EXCEPT ![cli[c].parent].accept_clients = RemoveAt(@, i[c])]
            /\ UNCHANGED faults
       ELSE faults' = faults \cup {"bad_erase"} /\ UNCHANGED srv
  /\ i' = [i EXCEPT ![c] = @ + 1]
  /\ cpc' = [cpc EXCEPT ![c] = "scan"]
  /\ UNCHANGED <<cli, holder, apc, spc, dying, out>>

\* base_socket_t::close (), and the end of the object in a destructor.
ClientBaseClose(c) ==
  /\ cpc[c] = "base_close"
  /\ IF cli[c].state = "created" THEN UNCHANGED <<holder, faults>>
                                 ELSE closesocket({cli[c].sock}, {c})
  /\ cli' = [cli EXCEPT ![c] = IF c \in dying THEN DeadClient
                 ELSE [@ EXCEPT !.state = "created", !.sock = INVALID_SOCKET]]
  /\ dying' = dying \ {c}
  /\ cpc' = [cpc EXCEPT ![c] = "idle"] /\ i' = [i EXCEPT ![c] = 0]
  /\ UNCHANGED <<srv, apc, spc, out>>

ClientConstruct(c) ==
  /\ ~ cli[c].live
  /\ cli' = [cli EXCEPT ![c] = NewClient]
  /\ UNCHANGED <<srv, holder, apc, spc, cpc, i, dying, out, faults>>

\* open() of a client: refused while it has a parent, opened or not.
ClientOpen(c) ==
  /\ cli[c].live /\ cpc[c] = "idle"
  /\ cli[c].parent = NULL /\ cli[c].state = "created"
  /\ \E f \in Free :
       /\ cli' = [cli EXCEPT ![c].state = "opened", ![c].sock = f]
       /\ holder' = [holder EXCEPT ![f] = c]
  /\ UNCHANGED <<srv, apc, spc, cpc, i, dying, out, faults>>

\* Mutant: the moved-from client keeps its state, descriptor and parent.
ClientMove_KeepsSource(c, to) ==
  /\ cli[c].live /\ cpc[c] = "idle" /\ ~ cli[to].live
  /\ cli' = [cli EXCEPT ![to] = cli[c]]
  /\ holder' = [f \in FDs |-> IF holder[f] = c THEN to ELSE holder[f]]
  /\ UNCHANGED <<srv, apc, spc, cpc, i, dying, out, faults>>

\* The move constructor of `to' from c: parent and descriptor change objects,
\* the entry in accept_clients stays.
ClientMove(c, to) ==
  /\ cli[c].live /\ cpc[c] = "idle" /\ ~ cli[to].live
  /\ cli' = [cli EXCEPT ![to] = cli[c], ![c] = NewClient]
  /\ holder' = [f \in FDs |-> IF holder[f] = c THEN to ELSE holder[f]]
  /\ UNCHANGED <<srv, apc, spc, cpc, i, dying, out, faults>>

-----------------------------------------------------------------------------
(* The rest of the process *)

ForeignOpen(f) ==
  /\ holder[f] = "free"
  /\ holder' = [holder EXCEPT ![f] = "foreign"]
  /\ UNCHANGED <<srv, cli, apc, spc, cpc, i, dying, out, faults>>

ForeignClose(f) ==
  /\ holder[f] = "foreign"
  /\ holder' = [holder EXCEPT ![f] = "free"]
  /\ UNCHANGED <<srv, cli, apc, spc, cpc, i, dying, out, faults>>

-----------------------------------------------------------------------------

AcceptStep(s) ==
  \/ AcceptPoll(s) \/ AcceptReady(s) \/ AcceptTimeout(s) \/ AcceptFails(s)
  \/ \E c \in Clients, f \in FDs : AcceptConnection(s, c, f)
  \/ AcceptReturned(s)

\* What accept() does although nobody connects.
AcceptProgress(s) == AcceptPoll(s) \/ AcceptTimeout(s) \/ AcceptFails(s)

ClientCloseStep(c) == ClientScan(c) \/ ClientErase(c) \/ ClientBaseClose(c)

Next ==
  \/ \E s \in Servers :
       \/ ServerOpen(s) \/ ServerClose(s) \/ ServerCloseFd(s) \/ ServerCloseInval(s)
       \/ ServerDestroy(s) \/ ServerConstruct(s)
       \/ \E to \in Servers \ {s} : ServerMove(s, to)
       \/ Accept(s) \/ AcceptStep(s)
  \/ \E c \in Clients :
       \/ \E destructor \in BOOLEAN : ClientClose(c, destructor)
       \/ ClientCloseStep(c) \/ ClientConstruct(c) \/ ClientOpen(c)
       \/ \E to \in Clients \ {c} : ClientMove(c, to)
  \/ \E f \in FDs : ForeignOpen(f) \/ ForeignClose(f)

Spec == Init /\ [][Next]_vars

-----------------------------------------------------------------------------
(* Properties *)

TypeOK ==
  /\ srv \in [Servers -> [live : BOOLEAN, state : {"created", "prepared", "opened"},
                          sock : FDs \cup {INVALID_SOCKET},
                          accept_clients : Seq(FDs)]]
  /\ cli \in [Clients -> [live : BOOLEAN, state : {"created", "opened"},
                          sock : FDs \cup {INVALID_SOCKET},
                          parent : Servers \cup {NULL}]]
  /\ holder \in [FDs -> {"free", "foreign"} \cup Servers \cup Clients]
  /\ apc \in [Servers -> {"idle", "poll", "wait", "accept", "returned"}]
  /\ spc \in [Servers -> {"idle", "close_fd", "close_inval"}]
  /\ cpc \in [Clients -> {"idle", "scan", "erase", "base_close"}]
  /\ i \in [Clients -> Nat] /\ dying \subseteq Clients
  /\ out \in [success : {"unset", "true", "false"},
              address_from : {"unset", "empty", "peer"}]
  /\ faults \subseteq {"stray_close", "dangling", "bad_erase"}

Connections(s) == {cli[c].sock : c \in AcceptedBy(s)}

\* accept_clients is exactly the list of the accepted connections that are
\* still open, each once (tcp_socket.h:27): what the destructor will close is
\* neither more nor less, whatever order clients are accepted, moved, closed
\* and destroyed in.
AcceptedListIsExact ==
  NoClientCloses =>
    \A s \in Servers : srv[s].live =>
      /\ Range(srv[s].accept_clients) = Connections(s)
      /\ \A j, k \in DOMAIN srv[s].accept_clients :
           srv[s].accept_clients[j] = srv[s].accept_clients[k] => j = k

\* No object closes a descriptor of another object or of the rest of the
\* process, reads a destroyed server, or erases outside the list.
NoFault == faults = {}

\* Every descriptor an object owns is the one in its `sock', and the object is
\* alive: a destroyed or moved-from object leaks nothing.
NoLeak ==
  \A f \in FDs :
    /\ holder[f] \in Clients => cli[holder[f]].live /\ cli[holder[f]].sock = f
    /\ holder[f] \in Servers => srv[holder[f]].live /\ srv[holder[f]].sock = f

\* Liveness: accept() returns although nobody connects, and also when the
\* server is closed under it (tcp_socket.h:153-157).
AcceptReturns == \A s \in Servers : apc[s] = "poll" ~> apc[s] = "idle"

=============================================================================
