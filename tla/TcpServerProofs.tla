-------------------------- MODULE TcpServerProofs --------------------------
(***************************************************************************)
(* Theorems about TcpServer, for every set of server places, client places *)
(* and descriptors.                                                        *)
(***************************************************************************)
EXTENDS TcpServer, SequenceTheorems, TLAPS

USE ObjectAssumption

-----------------------------------------------------------------------------
(* Lists of descriptors *)

\* accept_clients.erase() leaves a list of descriptors.
LEMMA RemoveAtType ==
  ASSUME NEW L \in Seq(FDs), NEW n \in Nat, n <= Len(L)
  PROVE  RemoveAt(L, n) \in Seq(FDs)
<1>1. Len(L) \in Nat /\ \A k \in 1 .. Len(L) : L[k] \in FDs
  OBVIOUS
<1>2. SubSeq(L, 1, n - 1) \in Seq(FDs)
  BY <1>1, SubSeqProperties
<1>3. SubSeq(L, n + 1, Len(L)) \in Seq(FDs)
  BY <1>1, SubSeqProperties
<1> QED BY <1>2, <1>3, ConcatProperties DEF RemoveAt

\* It moves the entries behind the erased one forward and keeps the others.
LEMMA RemoveAtEntries ==
  ASSUME NEW L \in Seq(FDs), NEW n \in 1 .. Len(L)
  PROVE  /\ DOMAIN RemoveAt(L, n) = 1 .. Len(L) - 1
         /\ \A k \in 1 .. Len(L) - 1 :
              RemoveAt(L, n)[k] = IF k < n THEN L[k] ELSE L[k + 1]
<1> DEFINE A == SubSeq(L, 1, n - 1)
           B == SubSeq(L, n + 1, Len(L))
<1>1. Len(L) \in Nat /\ n \in Nat /\ n >= 1 /\ n <= Len(L)
  OBVIOUS
<1>2. \A k \in 1 .. Len(L) : L[k] \in FDs
  OBVIOUS
<1>3. A \in Seq(FDs) /\ Len(A) = n - 1 /\ \A k \in 1 .. n - 1 : A[k] = L[k]
  BY <1>1, <1>2, SubSeqProperties
<1>4. /\ B \in Seq(FDs) /\ Len(B) = Len(L) - n
      /\ \A k \in 1 .. Len(L) - n : B[k] = L[n + k]
  BY <1>1, <1>2, SubSeqProperties
<1> HIDE DEF A, B
<1>5. /\ A \o B \in Seq(FDs) /\ Len(A \o B) = Len(L) - 1
      /\ \A k \in 1 .. Len(L) - 1 : (A \o B)[k] = IF k <= n - 1 THEN A[k] ELSE B[k - (n - 1)]
  <2>1. Len(A) + Len(B) = Len(L) - 1
    BY <1>1, <1>3, <1>4
  <2>2. /\ A \o B \in Seq(FDs) /\ Len(A \o B) = Len(A) + Len(B)
        /\ \A k \in 1 .. Len(A) + Len(B) :
             (A \o B)[k] = IF k <= Len(A) THEN A[k] ELSE B[k - Len(A)]
    <3>1. A \in Seq(FDs) /\ B \in Seq(FDs)
      BY <1>3, <1>4
    <3> QED BY <3>1, ConcatProperties
  <2> QED BY <1>3, <2>1, <2>2
<1>6. RemoveAt(L, n) = A \o B
  BY DEF RemoveAt, A, B
<1>7. \A k \in 1 .. Len(L) - 1 : (A \o B)[k] = IF k < n THEN L[k] ELSE L[k + 1]
  <2> TAKE k \in 1 .. Len(L) - 1
  <2>1. CASE k < n
    BY <1>1, <1>3, <1>5, <2>1
  <2>2. CASE ~ (k < n)
    <3>1. k - (n - 1) \in 1 .. Len(L) - n /\ n + (k - (n - 1)) = k + 1
      BY <1>1, <2>2
    <3> QED BY <1>1, <1>4, <1>5, <2>2, <3>1
  <2> QED BY <2>1, <2>2
<1> QED BY <1>1, <1>5, <1>6, <1>7, LenProperties

-----------------------------------------------------------------------------
(* Type correctness *)

\* The records of the objects, one by one.
ServerRecord == [live : BOOLEAN, state : {"created", "prepared", "opened"},
                 sock : FDs \cup {INVALID_SOCKET}, accept_clients : Seq(FDs)]
ClientRecord == [live : BOOLEAN, state : {"created", "opened"},
                 sock : FDs \cup {INVALID_SOCKET}, parent : Servers \cup {NULL}]

\* The objects a constructor, a destructor and a move leave are well typed.
LEMMA NewObjects ==
  /\ NewServer \in ServerRecord /\ DeadServer \in ServerRecord
  /\ NewClient \in ClientRecord /\ DeadClient \in ClientRecord
  /\ NewServer.live /\ ~ DeadServer.live /\ NewClient.live /\ ~ DeadClient.live
  /\ \A x \in {NewServer, DeadServer} :
       x.state = "created" /\ x.sock = INVALID_SOCKET /\ x.accept_clients = <<>>
  /\ \A x \in {NewClient, DeadClient} :
       x.state = "created" /\ x.sock = INVALID_SOCKET /\ x.parent = NULL
<1>1. <<>> \in Seq(FDs)
  OBVIOUS
<1>2. NewServer \in ServerRecord /\ NewClient \in ClientRecord
  BY <1>1 DEF NewServer, NewClient, ServerRecord, ClientRecord
<1>3. DeadServer \in ServerRecord /\ DeadClient \in ClientRecord
  BY <1>2 DEF DeadServer, DeadClient, ServerRecord, ClientRecord
<1>4. /\ NewServer.live /\ NewServer.state = "created" /\ NewServer.sock = INVALID_SOCKET
      /\ NewServer.accept_clients = <<>>
      /\ NewClient.live /\ NewClient.state = "created" /\ NewClient.sock = INVALID_SOCKET
      /\ NewClient.parent = NULL
  BY DEF NewServer, NewClient
<1>5. /\ ~ DeadServer.live /\ DeadServer.state = "created"
      /\ DeadServer.sock = INVALID_SOCKET /\ DeadServer.accept_clients = <<>>
  BY <1>2, <1>4 DEF DeadServer, ServerRecord
<1>6. /\ ~ DeadClient.live /\ DeadClient.state = "created"
      /\ DeadClient.sock = INVALID_SOCKET /\ DeadClient.parent = NULL
  BY <1>2, <1>4 DEF DeadClient, ClientRecord
<1> QED BY <1>2, <1>3, <1>4, <1>5, <1>6

\* The initial state has its types.
LEMMA TypeInit == Init => TypeOK
BY NewObjects DEF Init, TypeOK, ServerRecord, ClientRecord

\* Assignments to a field of an object keep its type.
LEMMA ServerFields ==
  \A r \in ServerRecord :
    /\ \A q \in {"created", "prepared", "opened"} : [r EXCEPT !.state = q] \in ServerRecord
    /\ \A d \in FDs \cup {INVALID_SOCKET} : [r EXCEPT !.sock = d] \in ServerRecord
    /\ \A L \in Seq(FDs) : [r EXCEPT !.accept_clients = L] \in ServerRecord
BY DEF ServerRecord

\* The same for a client.
LEMMA ClientFields ==
  \A r \in ClientRecord, q \in {"created", "opened"}, d \in FDs \cup {INVALID_SOCKET} :
    [r EXCEPT !.state = q, !.sock = d] \in ClientRecord
BY DEF ClientRecord

\* closesocket() leaves a table of descriptors and a set of faults.
LEMMA CloseType ==
  ASSUME TypeOK, NEW fs, NEW rightful, closesocket(fs, rightful)
  PROVE  /\ holder' \in [FDs -> {"free", "foreign"} \cup Servers \cup Clients]
         /\ faults' \subseteq {"stray_close", "dangling", "bad_erase"}
BY DEF TypeOK, closesocket

\* Every action keeps the types.
LEMMA TypeNext == TypeOK /\ [Next]_vars => TypeOK'
<1> SUFFICES ASSUME TypeOK, [Next]_vars PROVE TypeOK'
  OBVIOUS
<1>a. /\ srv \in [Servers -> ServerRecord] /\ cli \in [Clients -> ClientRecord]
      /\ cpc \in [Clients -> {"idle", "scan", "erase", "base_close"}] /\ i \in [Clients -> Nat]
      /\ <<>> \in Seq(FDs) /\ faults \subseteq {"stray_close", "dangling", "bad_erase"}
  BY DEF TypeOK, ServerRecord, ClientRecord
<1>b. \A r \in ServerRecord : r.accept_clients \in Seq(FDs)
  BY DEF ServerRecord
<1>c. \A r \in ClientRecord : r.parent \in Servers \cup {NULL}
  BY DEF ClientRecord
<1>1. ASSUME NEW s \in Servers, ServerOpen(s) PROVE TypeOK'
  <2>1. PICK f \in FDs : /\ srv' = [srv EXCEPT ![s].state = "opened", ![s].sock = f]
                         /\ holder' = [holder EXCEPT ![f] = s]
    BY <1>1 DEF ServerOpen, Free
  <2>2. srv' \in [Servers -> ServerRecord]
    BY <1>a, <2>1, ServerFields
  <2> QED BY <1>1, <2>1, <2>2 DEF ServerOpen, ServerRecord, TypeOK
<1>2. ASSUME NEW s \in Servers, ServerClose(s) PROVE TypeOK'
  <2>1. srv' \in [Servers -> ServerRecord]
    BY <1>2, <1>a, ServerFields DEF ServerClose
  <2> QED BY <1>2, <2>1 DEF ServerClose, ServerRecord, TypeOK
<1>3. ASSUME NEW s \in Servers, ServerCloseFd(s) PROVE TypeOK'
  BY <1>3, CloseType DEF ServerCloseFd, TypeOK
<1>4. ASSUME NEW s \in Servers, ServerCloseInval(s) PROVE TypeOK'
  <2>1. srv' \in [Servers -> ServerRecord]
    BY <1>4, <1>a, ServerFields DEF ServerCloseInval
  <2> QED BY <1>4, <2>1 DEF ServerCloseInval, ServerRecord, TypeOK
<1>5. ASSUME NEW s \in Servers, ServerDestroy(s) PROVE TypeOK'
  BY <1>5, CloseType, NewObjects DEF ServerDestroy, ServerRecord, TypeOK
<1>6. ASSUME NEW s \in Servers, ServerConstruct(s) PROVE TypeOK'
  BY <1>6, NewObjects DEF ServerConstruct, ServerRecord, TypeOK
<1>7. ASSUME NEW s \in Servers, NEW to \in Servers \ {s}, ServerMove(s, to) PROVE TypeOK'
  BY <1>7, NewObjects DEF ServerMove, ServerRecord, TypeOK
<1>8. ASSUME NEW s \in Servers, Accept(s) PROVE TypeOK'
  BY <1>8 DEF Accept, TypeOK
<1>9. ASSUME NEW s \in Servers, AcceptStep(s) PROVE TypeOK'
  <2>1. CASE AcceptPoll(s)
    BY <2>1 DEF AcceptPoll, TypeOK
  <2>2. CASE AcceptReady(s)
    BY <2>2 DEF AcceptReady, TypeOK
  <2>3. CASE AcceptTimeout(s)
    BY <2>3 DEF AcceptTimeout, AcceptFailure, TypeOK
  <2>4. CASE AcceptFails(s)
    BY <2>4 DEF AcceptFails, AcceptFailure, TypeOK
  <2>5. ASSUME NEW c \in Clients, NEW f \in FDs, AcceptConnection(s, c, f) PROVE TypeOK'
    <3>1. Append(srv[s].accept_clients, f) \in Seq(FDs)
      BY <1>a, <1>b
    <3>2. srv' = [srv EXCEPT ![s].accept_clients = Append(@, f)]
      BY <2>5 DEF AcceptConnection
    <3>3. srv' \in [Servers -> ServerRecord]
      BY <1>a, <3>1, <3>2, ServerFields
    <3>4. cli' \in [Clients -> ClientRecord]
      BY <2>5, <1>a DEF AcceptConnection, ClientRecord
    <3>5. /\ holder' \in [FDs -> {"free", "foreign"} \cup Servers \cup Clients]
          /\ apc' \in [Servers -> {"idle", "poll", "wait", "accept", "returned"}]
          /\ out' \in [success : {"unset", "true", "false"},
                       address_from : {"unset", "empty", "peer"}]
          /\ UNCHANGED <<spc, cpc, i, dying, faults>>
      BY <2>5 DEF AcceptConnection, AcceptSuccess, TypeOK
    <3> QED BY <3>3, <3>4, <3>5 DEF ServerRecord, ClientRecord, TypeOK
  <2>6. CASE AcceptReturned(s)
    BY <2>6 DEF AcceptReturned, TypeOK
  <2> QED BY <1>9, <2>1, <2>2, <2>3, <2>4, <2>5, <2>6 DEF AcceptStep
<1>10. ASSUME NEW c \in Clients, NEW destructor \in BOOLEAN, ClientClose(c, destructor)
       PROVE  TypeOK'
  BY <1>10 DEF ClientClose, TypeOK
<1>11. ASSUME NEW c \in Clients, ClientScan(c) PROVE TypeOK'
  <2>1. cpc' \in [Clients -> {"idle", "scan", "erase", "base_close"}] /\ i' \in [Clients -> Nat]
    BY <1>11, <1>a DEF ClientScan
  <2> QED BY <1>11, <2>1 DEF ClientScan, TypeOK
<1>12. ASSUME NEW c \in Clients, ClientErase(c) PROVE TypeOK'
  <2>1. srv' \in [Servers -> ServerRecord] /\ faults' \subseteq {"stray_close", "dangling", "bad_erase"}
    <3>1. CASE i[c] <= Len(List(c))
      <4>1. /\ srv' = [srv EXCEPT ![cli[c].parent].accept_clients = RemoveAt(@, i[c])]
            /\ faults' = faults
        BY <1>12, <3>1 DEF ClientErase
      <4>2. CASE cli[c].parent \notin Servers
        BY <1>a, <4>1, <4>2
      <4>3. CASE cli[c].parent \in Servers
        <5>1. RemoveAt(srv[cli[c].parent].accept_clients, i[c]) \in Seq(FDs)
          BY <1>a, <1>b, <3>1, <4>3, RemoveAtType DEF List
        <5> QED BY <1>a, <4>1, <4>3, <5>1, ServerFields
      <4> QED BY <4>2, <4>3
    <3>2. CASE ~ (i[c] <= Len(List(c)))
      BY <1>12, <1>a, <3>2 DEF ClientErase
    <3> QED BY <3>1, <3>2
  <2>2. cpc' \in [Clients -> {"idle", "scan", "erase", "base_close"}] /\ i' \in [Clients -> Nat]
    BY <1>12, <1>a DEF ClientErase
  <2> QED BY <1>12, <2>1, <2>2 DEF ClientErase, ServerRecord, TypeOK
<1>13. ASSUME NEW c \in Clients, ClientBaseClose(c) PROVE TypeOK'
  <2>1. cli' \in [Clients -> ClientRecord]
    BY <1>13, <1>a, NewObjects, ClientFields DEF ClientBaseClose
  <2>2. /\ holder' \in [FDs -> {"free", "foreign"} \cup Servers \cup Clients]
        /\ faults' \subseteq {"stray_close", "dangling", "bad_erase"}
    <3>1. CASE cli[c].state = "created"
      BY <1>13, <3>1 DEF ClientBaseClose, TypeOK
    <3>2. CASE cli[c].state # "created"
      BY <1>13, <3>2, CloseType DEF ClientBaseClose
    <3> QED BY <3>1, <3>2
  <2> QED BY <1>13, <2>1, <2>2 DEF ClientBaseClose, ClientRecord, TypeOK
<1>14. ASSUME NEW c \in Clients, ClientConstruct(c) PROVE TypeOK'
  BY <1>14, NewObjects DEF ClientConstruct, ClientRecord, TypeOK
<1>15. ASSUME NEW c \in Clients, ClientOpen(c) PROVE TypeOK'
  <2>1. PICK f \in FDs : /\ cli' = [cli EXCEPT ![c].state = "opened", ![c].sock = f]
                         /\ holder' = [holder EXCEPT ![f] = c]
    BY <1>15 DEF ClientOpen, Free
  <2>2. cli' \in [Clients -> ClientRecord]
    BY <1>a, <2>1, ClientFields
  <2> QED BY <1>15, <2>1, <2>2 DEF ClientOpen, ClientRecord, TypeOK
<1>16. ASSUME NEW c \in Clients, NEW to \in Clients \ {c}, ClientMove(c, to) PROVE TypeOK'
  BY <1>16, NewObjects DEF ClientMove, ClientRecord, TypeOK
<1>17. ASSUME NEW f \in FDs, ForeignOpen(f) \/ ForeignClose(f) PROVE TypeOK'
  <2>1. holder' \in [FDs -> {"free", "foreign"} \cup Servers \cup Clients]
    <3>1. holder \in [FDs -> {"free", "foreign"} \cup Servers \cup Clients]
      BY DEF TypeOK
    <3>2. CASE holder' = [holder EXCEPT ![f] = "foreign"]
      BY <3>1, <3>2
    <3>3. CASE holder' = [holder EXCEPT ![f] = "free"]
      BY <3>1, <3>3
    <3> QED BY <1>17, <3>2, <3>3 DEF ForeignOpen, ForeignClose
  <2>2. UNCHANGED <<srv, cli, apc, spc, cpc, i, dying, out, faults>>
    BY <1>17 DEF ForeignOpen, ForeignClose
  <2> QED BY <2>1, <2>2 DEF TypeOK
<1>18. CASE UNCHANGED vars
  BY <1>18 DEF vars, TypeOK
<1> QED
  BY <1>1, <1>2, <1>3, <1>4, <1>5, <1>6, <1>7, <1>8, <1>9, <1>10, <1>11, <1>12, <1>13,
     <1>14, <1>15, <1>16, <1>17, <1>18 DEF Next, ClientCloseStep

\* Every variable of the server, its clients and the kernel keeps its type.
THEOREM ServerTypeCorrect == Spec => []TypeOK
<1>1. TypeOK /\ [Next]_vars => TypeOK'
  BY TypeNext
<1> QED BY <1>1, TypeInit, PTL DEF Spec

-----------------------------------------------------------------------------
(* The inductive invariants *)

\* What the objects know of their descriptors, whatever the callers do: a
\* created object has none in `sock' (a server, once its close() is through),
\* only living objects are opened or inside close(), and a server whose
\* closesocket() is done owns nothing.
OwnInv ==
  /\ \A c \in Clients : cli[c].state = "created" => cli[c].sock = INVALID_SOCKET
  /\ \A c \in Clients : cli[c].state = "opened" => cli[c].live
  /\ \A c \in Clients : cpc[c] # "idle" => cli[c].live
  /\ \A s \in Servers : srv[s].state = "created" /\ spc[s] = "idle"
                          => srv[s].sock = INVALID_SOCKET
  /\ \A s \in Servers : srv[s].state # "created" => srv[s].live /\ spc[s] = "idle"
  /\ \A s \in Servers : spc[s] # "idle" => srv[s].live
  /\ \A s \in Servers, f \in FDs : spc[s] = "close_inval" => holder[f] # s

\* An object that has still to close its descriptor owns it.
ClientHeldInv ==
  \A c \in Clients : cli[c].state = "opened" =>
    cli[c].sock \in FDs /\ holder[cli[c].sock] = c
ServerHeldInv ==
  \A s \in Servers : srv[s].state # "created" \/ spc[s] = "close_fd" =>
    srv[s].sock \in FDs /\ holder[srv[s].sock] = s

\* The server of an opened accepted client is alive, and close() calls of
\* clients do not overlap.
ParentInv ==
  /\ \A c \in Clients : cli[c].state = "opened" /\ cli[c].parent # NULL
                          => srv[cli[c].parent].live
  /\ \A c \in Clients : cpc[c] \in {"scan", "erase"} =>
       cli[c].state = "opened" /\ cli[c].parent # NULL /\ i[c] >= 1
  /\ \A c, d \in Clients : cpc[c] # "idle" /\ cpc[d] # "idle" => c = d

\* The entries of accept_clients are connections of that server, each once.
EntriesInv ==
  \A s \in Servers :
    /\ \A j \in DOMAIN srv[s].accept_clients :
         LET owner == holder[srv[s].accept_clients[j]]
         IN  owner \in Clients /\ cli[owner].state = "opened" /\ cli[owner].parent = s
    /\ \A j, k \in DOMAIN srv[s].accept_clients :
         srv[s].accept_clients[j] = srv[s].accept_clients[k] => j = k

\* Where the connection of an opened accepted client is on the list: somewhere
\* while no close() runs, not before the loop index during the scan, at the
\* index when it is erased, nowhere when the descriptor is closed.
ListedInv ==
  \A c \in Clients : cli[c].state = "opened" /\ cli[c].parent # NULL =>
    /\ cpc[c] = "idle" => \E j \in DOMAIN List(c) : List(c)[j] = cli[c].sock
    /\ cpc[c] = "scan" =>
         \A j \in DOMAIN List(c) : List(c)[j] = cli[c].sock => j >= i[c]
    /\ cpc[c] = "erase" => i[c] \in DOMAIN List(c) /\ List(c)[i[c]] = cli[c].sock
    /\ cpc[c] = "base_close" => \A j \in DOMAIN List(c) : List(c)[j] # cli[c].sock

\* What holds besides OwnInv and NoLeak when callers close clients one at a
\* time and destroy or move a server only when its clients are closed.
SerialUse == ServerOutlives /\ ~ MoveWithClients /\ SerialClose
UseInv == /\ ClientHeldInv /\ ServerHeldInv /\ ParentInv
          /\ EntriesInv /\ ListedInv /\ NoFault

-----------------------------------------------------------------------------
(* What the actions that rewrite an object do to its fields *)

\* The other servers, and the fields of s that an action does not assign.
OtherServers(s) == srv' \in [Servers -> ServerRecord]
                   /\ \A x \in Servers \ {s} : srv'[x] = srv[x]
OtherClients(c) == cli' \in [Clients -> ClientRecord]
                   /\ \A x \in Clients \ {c} : cli'[x] = cli[x]

\* The objects are records with fields of these types.
LEMMA Records ==
  ASSUME TypeOK
  PROVE  /\ srv \in [Servers -> ServerRecord] /\ cli \in [Clients -> ClientRecord]
         /\ \A r \in ServerRecord : /\ r.live \in BOOLEAN
                                    /\ r.state \in {"created", "prepared", "opened"}
                                    /\ r.sock \in FDs \cup {INVALID_SOCKET}
                                    /\ r.accept_clients \in Seq(FDs)
         /\ \A r \in ClientRecord : /\ r.live \in BOOLEAN /\ r.state \in {"created", "opened"}
                                    /\ r.sock \in FDs \cup {INVALID_SOCKET}
                                    /\ r.parent \in Servers \cup {NULL}
BY DEF TypeOK, ServerRecord, ClientRecord

\* open() of s gives it a free descriptor and changes no other server.
LEMMA ServerOpenEffect ==
  ASSUME TypeOK, NEW s \in Servers, ServerOpen(s)
  PROVE  \E f \in FDs :
           /\ holder[f] = "free" /\ holder' = [holder EXCEPT ![f] = s]
           /\ srv'[s].live /\ srv'[s].state = "opened" /\ srv'[s].sock = f
           /\ srv'[s].accept_clients = srv[s].accept_clients
           /\ OtherServers(s)
<1>1. PICK f \in FDs : /\ holder[f] = "free" /\ holder' = [holder EXCEPT ![f] = s]
                       /\ srv' = [srv EXCEPT ![s].state = "opened", ![s].sock = f]
  BY DEF ServerOpen, Free
<1>2. srv[s].live /\ srv \in [Servers -> ServerRecord]
  BY Records DEF ServerOpen, Idle
<1>3. srv' \in [Servers -> ServerRecord]
  BY <1>1, <1>2, ServerFields
<1>4. /\ srv'[s].live /\ srv'[s].state = "opened" /\ srv'[s].sock = f
      /\ srv'[s].accept_clients = srv[s].accept_clients
  BY <1>1, <1>2 DEF ServerRecord
<1> QED BY <1>1, <1>2, <1>3, <1>4 DEF OtherServers

\* close() first marks s as created and keeps its descriptor and list.
LEMMA ServerCloseEffect ==
  ASSUME TypeOK, NEW s \in Servers, ServerClose(s)
  PROVE  /\ srv'[s].live /\ srv'[s].state = "created" /\ srv'[s].sock = srv[s].sock
         /\ srv'[s].accept_clients = srv[s].accept_clients
         /\ OtherServers(s)
<1>1. srv[s].live /\ srv \in [Servers -> ServerRecord]
      /\ srv' = [srv EXCEPT ![s].state = "created"]
  BY Records DEF ServerClose
<1>2. srv' \in [Servers -> ServerRecord]
  BY <1>1, ServerFields
<1>3. /\ srv'[s].live /\ srv'[s].state = "created" /\ srv'[s].sock = srv[s].sock
      /\ srv'[s].accept_clients = srv[s].accept_clients
  BY <1>1 DEF ServerRecord
<1> QED BY <1>1, <1>2, <1>3 DEF OtherServers

\* At its end close() forgets the descriptor.
LEMMA ServerCloseInvalEffect ==
  ASSUME TypeOK, NEW s \in Servers, ServerCloseInval(s)
  PROVE  /\ srv'[s].live = srv[s].live /\ srv'[s].state = srv[s].state
         /\ srv'[s].sock = INVALID_SOCKET
         /\ srv'[s].accept_clients = srv[s].accept_clients
         /\ OtherServers(s)
<1>1. srv \in [Servers -> ServerRecord] /\ srv' = [srv EXCEPT ![s].sock = INVALID_SOCKET]
  BY Records DEF ServerCloseInval
<1>2. srv' \in [Servers -> ServerRecord]
  BY <1>1, ServerFields
<1>3. /\ srv'[s].live = srv[s].live /\ srv'[s].state = srv[s].state
      /\ srv'[s].sock = INVALID_SOCKET
      /\ srv'[s].accept_clients = srv[s].accept_clients
  BY <1>1 DEF ServerRecord
<1> QED BY <1>1, <1>2, <1>3 DEF OtherServers

\* A connection adds one entry to the list of s and fills the place c.
LEMMA AcceptConnectionEffect ==
  ASSUME TypeOK, NEW s \in Servers, NEW c \in Clients, NEW f \in FDs,
         AcceptConnection(s, c, f)
  PROVE  /\ srv'[s].live = srv[s].live /\ srv'[s].state = srv[s].state
         /\ srv'[s].sock = srv[s].sock
         /\ srv'[s].accept_clients = Append(srv[s].accept_clients, f)
         /\ OtherServers(s)
         /\ cli'[c].live /\ cli'[c].state = "opened" /\ cli'[c].sock = f /\ cli'[c].parent = s
         /\ OtherClients(c)
<1>1. /\ srv \in [Servers -> ServerRecord] /\ cli \in [Clients -> ClientRecord]
      /\ srv' = [srv EXCEPT ![s].accept_clients = Append(@, f)]
      /\ cli' = [cli EXCEPT ![c] = [live |-> TRUE, state |-> "opened", sock |-> f, parent |-> s]]
  BY Records DEF AcceptConnection
<1>2. Append(srv[s].accept_clients, f) \in Seq(FDs)
  BY <1>1 DEF ServerRecord
<1>3. srv' \in [Servers -> ServerRecord]
  BY <1>1, <1>2, ServerFields
<1>4. /\ srv'[s].live = srv[s].live /\ srv'[s].state = srv[s].state
      /\ srv'[s].sock = srv[s].sock
      /\ srv'[s].accept_clients = Append(srv[s].accept_clients, f)
  BY <1>1 DEF ServerRecord
<1>5. cli' \in [Clients -> ClientRecord]
  BY <1>1 DEF ClientRecord
<1>6. cli'[c].live /\ cli'[c].state = "opened" /\ cli'[c].sock = f /\ cli'[c].parent = s
  BY <1>1
<1> QED BY <1>1, <1>3, <1>4, <1>5, <1>6 DEF OtherServers, OtherClients

\* erase() changes nothing of a server but the list of the parent.
LEMMA ClientEraseEffect ==
  ASSUME TypeOK, NEW c \in Clients, ClientErase(c)
  PROVE  /\ srv' \in [Servers -> ServerRecord]
         /\ \A x \in Servers : /\ srv'[x].live = srv[x].live /\ srv'[x].state = srv[x].state
                               /\ srv'[x].sock = srv[x].sock
                               /\ x # cli[c].parent => srv'[x] = srv[x]
<1>1. CASE i[c] <= Len(List(c))
  <2>1. /\ srv \in [Servers -> ServerRecord] /\ cli[c].parent \in Servers \cup {NULL}
        /\ i[c] \in Nat
    BY Records DEF TypeOK
  <2>2. srv' = [srv EXCEPT ![cli[c].parent].accept_clients = RemoveAt(@, i[c])]
    BY <1>1 DEF ClientErase
  <2>3. CASE cli[c].parent \notin Servers
    BY <2>1, <2>2, <2>3
  <2>4. CASE cli[c].parent \in Servers
    <3>1. RemoveAt(srv[cli[c].parent].accept_clients, i[c]) \in Seq(FDs)
      BY <1>1, <2>1, <2>4, Records, RemoveAtType DEF List
    <3>2. srv' \in [Servers -> ServerRecord]
      BY <2>1, <2>2, <2>4, <3>1, ServerFields
    <3>3. \A x \in Servers : /\ srv'[x].live = srv[x].live /\ srv'[x].state = srv[x].state
                             /\ srv'[x].sock = srv[x].sock
      BY <2>1, <2>2, <2>4 DEF ServerRecord
    <3> QED BY <2>1, <2>2, <3>2, <3>3
  <2> QED BY <2>3, <2>4
<1>2. CASE ~ (i[c] <= Len(List(c)))
  BY <1>2, Records DEF ClientErase
<1> QED BY <1>1, <1>2

\* The end of a client's close() leaves it without a descriptor.
LEMMA ClientBaseCloseEffect ==
  ASSUME TypeOK, NEW c \in Clients, ClientBaseClose(c)
  PROVE  /\ cli'[c].state = "created" /\ cli'[c].sock = INVALID_SOCKET
         /\ OtherClients(c)
<1>1. cli \in [Clients -> ClientRecord] /\ cli[c] \in ClientRecord
      /\ cli' = [cli EXCEPT ![c] = IF c \in dying THEN DeadClient
                   ELSE [@ EXCEPT !.state = "created", !.sock = INVALID_SOCKET]]
  BY Records DEF ClientBaseClose
<1>2. cli' \in [Clients -> ClientRecord]
  BY <1>1, NewObjects, ClientFields
<1>3. cli'[c].state = "created" /\ cli'[c].sock = INVALID_SOCKET
  <2>1. CASE c \in dying
    BY <1>1, <2>1, NewObjects
  <2>2. CASE c \notin dying
    <3>1. cli'[c] = [cli[c] EXCEPT !.state = "created", !.sock = INVALID_SOCKET]
      BY <1>1, <2>2
    <3> QED BY <1>1, <3>1 DEF ClientRecord
  <2> QED BY <2>1, <2>2
<1> QED BY <1>1, <1>2, <1>3 DEF OtherClients

\* open() of a client gives it a free descriptor.
LEMMA ClientOpenEffect ==
  ASSUME TypeOK, NEW c \in Clients, ClientOpen(c)
  PROVE  \E f \in FDs :
           /\ holder[f] = "free" /\ holder' = [holder EXCEPT ![f] = c]
           /\ cli'[c].live /\ cli'[c].state = "opened" /\ cli'[c].sock = f
           /\ cli'[c].parent = NULL /\ OtherClients(c)
<1>1. PICK f \in FDs : /\ holder[f] = "free" /\ holder' = [holder EXCEPT ![f] = c]
                       /\ cli' = [cli EXCEPT ![c].state = "opened", ![c].sock = f]
  BY DEF ClientOpen, Free
<1>2. cli[c].live /\ cli[c].parent = NULL /\ cli \in [Clients -> ClientRecord]
  BY Records DEF ClientOpen
<1>3. cli' \in [Clients -> ClientRecord]
  BY <1>1, <1>2, ClientFields
<1>4. cli'[c].live /\ cli'[c].state = "opened" /\ cli'[c].sock = f /\ cli'[c].parent = NULL
  BY <1>1, <1>2 DEF ClientRecord
<1> QED BY <1>1, <1>2, <1>3, <1>4 DEF OtherClients

-----------------------------------------------------------------------------
(* Nothing leaks, whatever the callers do *)

\* A process with one fresh server owns nothing.
LEMMA OwnInit == Init => OwnInv /\ NoLeak
<1> SUFFICES ASSUME Init PROVE OwnInv /\ NoLeak
  OBVIOUS
<1>1. /\ \A c \in Clients : cli[c].state = "created" /\ cli[c].sock = INVALID_SOCKET
                            /\ cpc[c] = "idle"
      /\ \A s \in Servers : srv[s].state = "created" /\ srv[s].sock = INVALID_SOCKET
                            /\ spc[s] = "idle"
      /\ \A f \in FDs : holder[f] = "free"
  BY NewObjects DEF Init
<1>2. "free" \notin Clients /\ "free" \notin Servers
  OBVIOUS
<1> QED BY <1>1, <1>2 DEF OwnInv, NoLeak

\* Every action keeps it: descriptors are given to an object together with its
\* `sock', and an object loses its `sock' only after closesocket().
LEMMA OwnNext == TypeOK /\ OwnInv /\ NoLeak /\ [Next]_vars => OwnInv' /\ NoLeak'
<1> SUFFICES ASSUME TypeOK, OwnInv, NoLeak, [Next]_vars PROVE OwnInv' /\ NoLeak'
  OBVIOUS
<1>a. /\ holder \in [FDs -> {"free", "foreign"} \cup Servers \cup Clients]
      /\ spc \in [Servers -> {"idle", "close_fd", "close_inval"}]
      /\ cpc \in [Clients -> {"idle", "scan", "erase", "base_close"}]
  BY DEF TypeOK
<1>b. /\ "free" \notin Clients /\ "free" \notin Servers
      /\ "foreign" \notin Clients /\ "foreign" \notin Servers
      /\ \A x : ~ (x \in Servers /\ x \in Clients)
      /\ INVALID_SOCKET \notin FDs
  OBVIOUS
<1> USE DEF OwnInv, NoLeak
<1>1. ASSUME NEW s \in Servers, ServerOpen(s) PROVE OwnInv' /\ NoLeak'
  <2>1. PICK f \in FDs :
           /\ holder[f] = "free" /\ holder' = [holder EXCEPT ![f] = s]
           /\ srv'[s].live /\ srv'[s].state = "opened" /\ srv'[s].sock = f
           /\ OtherServers(s)
    BY <1>1, ServerOpenEffect
  <2> QED BY <1>1, <1>a, <1>b, <2>1 DEF ServerOpen, Idle, OtherServers
<1>2. ASSUME NEW s \in Servers, ServerClose(s) PROVE OwnInv' /\ NoLeak'
  <2>1. /\ srv'[s].live /\ srv'[s].state = "created" /\ srv'[s].sock = srv[s].sock
        /\ OtherServers(s)
    BY <1>2, ServerCloseEffect
  <2>2. spc[s] = "idle" /\ spc' = [spc EXCEPT ![s] = "close_fd"] /\ UNCHANGED <<cli, holder, cpc>>
    BY <1>2 DEF ServerClose
  <2> QED BY <1>a, <2>1, <2>2 DEF OtherServers
<1>3. ASSUME NEW s \in Servers, ServerCloseFd(s) PROVE OwnInv' /\ NoLeak'
  BY <1>3, <1>a, <1>b DEF ServerCloseFd, closesocket
<1>4. ASSUME NEW s \in Servers, ServerCloseInval(s) PROVE OwnInv' /\ NoLeak'
  <2>1. /\ srv'[s].live = srv[s].live /\ srv'[s].state = srv[s].state
        /\ srv'[s].sock = INVALID_SOCKET /\ OtherServers(s)
    BY <1>4, ServerCloseInvalEffect
  <2>2. /\ spc[s] = "close_inval" /\ spc' = [spc EXCEPT ![s] = "idle"]
        /\ UNCHANGED <<cli, holder, cpc>>
    BY <1>4 DEF ServerCloseInval
  <2> QED BY <1>a, <2>1, <2>2 DEF OtherServers
<1>5. ASSUME NEW s \in Servers, ServerDestroy(s) PROVE OwnInv' /\ NoLeak'
  BY <1>5, <1>a, <1>b, NewObjects, Records DEF ServerDestroy, closesocket, Idle
<1>6. ASSUME NEW s \in Servers, ServerConstruct(s) PROVE OwnInv' /\ NoLeak'
  BY <1>6, <1>a, <1>b, NewObjects, Records DEF ServerConstruct
<1>7. ASSUME NEW s \in Servers, NEW to \in Servers \ {s}, ServerMove(s, to)
      PROVE  OwnInv' /\ NoLeak'
  <2>1. /\ srv'[to] = srv[s] /\ srv'[s] = NewServer
        /\ \A x \in Servers \ {s, to} : srv'[x] = srv[x]
        /\ holder' = [f \in FDs |-> IF holder[f] = s THEN to ELSE holder[f]]
        /\ srv[s].live /\ ~ srv[to].live /\ spc[s] = "idle"
        /\ UNCHANGED <<cli, spc, cpc>>
    BY <1>7, Records DEF ServerMove, Idle
  <2>2. NewServer.live /\ NewServer.state = "created" /\ NewServer.sock = INVALID_SOCKET
    BY NewObjects
  <2>3. OwnInv'
    BY <1>a, <1>b, <2>1, <2>2
  <2>4. NoLeak'
    BY <1>a, <1>b, <2>1, <2>2
  <2> QED BY <2>3, <2>4
<1>8. ASSUME NEW s \in Servers, Accept(s) PROVE OwnInv' /\ NoLeak'
  BY <1>8 DEF Accept
<1>9. ASSUME NEW s \in Servers, AcceptStep(s) PROVE OwnInv' /\ NoLeak'
  <2>1. CASE AcceptPoll(s)
    BY <2>1 DEF AcceptPoll
  <2>2. CASE AcceptReady(s)
    BY <2>2 DEF AcceptReady
  <2>3. CASE AcceptTimeout(s)
    BY <2>3 DEF AcceptTimeout
  <2>4. CASE AcceptFails(s)
    BY <2>4 DEF AcceptFails
  <2>5. ASSUME NEW c \in Clients, NEW f \in FDs, AcceptConnection(s, c, f)
        PROVE  OwnInv' /\ NoLeak'
    <3>1. /\ srv'[s].live = srv[s].live /\ srv'[s].state = srv[s].state
          /\ srv'[s].sock = srv[s].sock /\ OtherServers(s)
          /\ cli'[c].live /\ cli'[c].state = "opened" /\ cli'[c].sock = f /\ OtherClients(c)
      BY <2>5, AcceptConnectionEffect
    <3>2. /\ ~ cli[c].live /\ holder[f] = "free" /\ holder' = [holder EXCEPT ![f] = c]
          /\ UNCHANGED <<spc, cpc>>
      BY <2>5 DEF AcceptConnection, Free
    <3>3. OwnInv'
      BY <1>a, <1>b, <3>1, <3>2 DEF OtherServers, OtherClients
    <3>4. NoLeak'
      BY <1>a, <1>b, <3>1, <3>2 DEF OtherServers, OtherClients
    <3> QED BY <3>3, <3>4
  <2>6. CASE AcceptReturned(s)
    BY <2>6 DEF AcceptReturned
  <2> QED BY <1>9, <2>1, <2>2, <2>3, <2>4, <2>5, <2>6 DEF AcceptStep
<1>10. ASSUME NEW c \in Clients, NEW destructor \in BOOLEAN, ClientClose(c, destructor)
       PROVE  OwnInv' /\ NoLeak'
  BY <1>10, <1>a DEF ClientClose
<1>11. ASSUME NEW c \in Clients, ClientScan(c) PROVE OwnInv' /\ NoLeak'
  BY <1>11, <1>a DEF ClientScan
<1>12. ASSUME NEW c \in Clients, ClientErase(c) PROVE OwnInv' /\ NoLeak'
  <2>1. \A x \in Servers : /\ srv'[x].live = srv[x].live /\ srv'[x].state = srv[x].state
                           /\ srv'[x].sock = srv[x].sock
    BY <1>12, ClientEraseEffect
  <2>2. /\ cpc[c] = "erase" /\ cpc' = [cpc EXCEPT ![c] = "scan"]
        /\ UNCHANGED <<cli, holder, spc>>
    BY <1>12 DEF ClientErase
  <2> QED BY <1>a, <2>1, <2>2
<1>13. ASSUME NEW c \in Clients, ClientBaseClose(c) PROVE OwnInv' /\ NoLeak'
  <2>1. cli'[c].state = "created" /\ cli'[c].sock = INVALID_SOCKET /\ OtherClients(c)
    BY <1>13, ClientBaseCloseEffect
  <2>2. cpc' = [cpc EXCEPT ![c] = "idle"] /\ UNCHANGED <<srv, spc>>
    BY <1>13 DEF ClientBaseClose
  <2>3. \A f \in FDs : holder'[f] \in {holder[f], "free"} /\ holder'[f] # c
    BY <1>13, <1>a, <1>b DEF ClientBaseClose, closesocket
  <2>4. OwnInv'
    BY <1>a, <1>b, <2>1, <2>2, <2>3 DEF OtherClients
  <2>5. NoLeak'
    BY <1>a, <1>b, <2>1, <2>2, <2>3 DEF OtherClients
  <2> QED BY <2>4, <2>5
<1>14. ASSUME NEW c \in Clients, ClientConstruct(c) PROVE OwnInv' /\ NoLeak'
  BY <1>14, <1>a, <1>b, NewObjects, Records DEF ClientConstruct
<1>15. ASSUME NEW c \in Clients, ClientOpen(c) PROVE OwnInv' /\ NoLeak'
  <2>1. PICK f \in FDs :
           /\ holder[f] = "free" /\ holder' = [holder EXCEPT ![f] = c]
           /\ cli'[c].live /\ cli'[c].state = "opened" /\ cli'[c].sock = f
           /\ OtherClients(c)
    BY <1>15, ClientOpenEffect
  <2> QED BY <1>15, <1>a, <1>b, <2>1 DEF ClientOpen, OtherClients
<1>16. ASSUME NEW c \in Clients, NEW to \in Clients \ {c}, ClientMove(c, to)
       PROVE  OwnInv' /\ NoLeak'
  <2>1. /\ cli'[to] = cli[c] /\ cli'[c] = NewClient
        /\ \A x \in Clients \ {c, to} : cli'[x] = cli[x]
        /\ holder' = [f \in FDs |-> IF holder[f] = c THEN to ELSE holder[f]]
        /\ cli[c].live /\ ~ cli[to].live /\ cpc[c] = "idle"
        /\ UNCHANGED <<srv, spc, cpc>>
    BY <1>16, Records DEF ClientMove
  <2>2. NewClient.live /\ NewClient.state = "created" /\ NewClient.sock = INVALID_SOCKET
    BY NewObjects
  <2>3. OwnInv'
    BY <1>a, <1>b, <2>1, <2>2
  <2>4. NoLeak'
    BY <1>a, <1>b, <2>1, <2>2
  <2> QED BY <2>3, <2>4
<1>17. ASSUME NEW f \in FDs, ForeignOpen(f) \/ ForeignClose(f) PROVE OwnInv' /\ NoLeak'
  BY <1>17, <1>a, <1>b DEF ForeignOpen, ForeignClose
<1>18. CASE UNCHANGED vars
  BY <1>18 DEF vars
<1> QED
  BY <1>1, <1>2, <1>3, <1>4, <1>5, <1>6, <1>7, <1>8, <1>9, <1>10, <1>11, <1>12, <1>13,
     <1>14, <1>15, <1>16, <1>17, <1>18 DEF Next, ClientCloseStep

\* No descriptor is leaked, for any use of the objects: overlapping close()
\* calls, a server destroyed before its clients or moved with clients open
\* close descriptors they should not, but never lose one.
THEOREM NoLeakHolds == Spec => []NoLeak
<1>1. Init => TypeOK /\ OwnInv /\ NoLeak
  BY TypeInit, OwnInit
<1>2. (TypeOK /\ OwnInv /\ NoLeak) /\ [Next]_vars => (TypeOK /\ OwnInv /\ NoLeak)'
  BY TypeNext, OwnNext
<1> QED BY <1>1, <1>2, PTL DEF Spec

-----------------------------------------------------------------------------
(* The list of accepted connections, under serialised use *)

\* The facts about types and names that the steps below use.
LEMMA Names ==
  ASSUME TypeOK
  PROVE  /\ holder \in [FDs -> {"free", "foreign"} \cup Servers \cup Clients]
         /\ spc \in [Servers -> {"idle", "close_fd", "close_inval"}]
         /\ cpc \in [Clients -> {"idle", "scan", "erase", "base_close"}]
         /\ i \in [Clients -> Nat]
         /\ "free" \notin Clients /\ "free" \notin Servers
         /\ "foreign" \notin Clients /\ "foreign" \notin Servers
         /\ \A x : ~ (x \in Servers /\ x \in Clients)
         /\ INVALID_SOCKET \notin FDs /\ NULL \notin Servers
BY DEF TypeOK

\* The entries of every list are descriptors at positions 1 to its length.
LEMMA Lists ==
  ASSUME TypeOK, NEW s \in Servers
  PROVE  /\ srv[s].accept_clients \in Seq(FDs) /\ Len(srv[s].accept_clients) \in Nat
         /\ DOMAIN srv[s].accept_clients = 1 .. Len(srv[s].accept_clients)
         /\ \A j \in DOMAIN srv[s].accept_clients : srv[s].accept_clients[j] \in FDs
<1>1. srv[s].accept_clients \in Seq(FDs)
  BY Records
<1> QED BY <1>1

\* A server none of whose connections are open has an empty list.
LEMMA EmptyList ==
  ASSUME TypeOK, OwnInv, EntriesInv, NEW s \in Servers,
         \A c \in Clients : ~ (cli[c].state = "opened" /\ cli[c].parent = s)
  PROVE  srv[s].accept_clients = <<>>
<1>1. /\ srv[s].accept_clients \in Seq(FDs) /\ Len(srv[s].accept_clients) \in Nat
      /\ DOMAIN srv[s].accept_clients = 1 .. Len(srv[s].accept_clients)
  BY Lists
<1>2. DOMAIN srv[s].accept_clients = {}
  BY DEF EntriesInv
<1>3. 1 \notin DOMAIN srv[s].accept_clients
  BY <1>2
<1>4. Len(srv[s].accept_clients) = 0
  BY <1>1, <1>3
<1> QED BY <1>1, <1>4

\* A fresh server and no clients.
LEMMA UseInit == Init => UseInv
<1> SUFFICES ASSUME Init PROVE UseInv
  OBVIOUS
<1>1. /\ \A c \in Clients : cli[c].state = "created" /\ cpc[c] = "idle"
      /\ \A s \in Servers : /\ srv[s].state = "created" /\ srv[s].accept_clients = <<>>
                            /\ spc[s] = "idle"
      /\ faults = {}
  BY NewObjects DEF Init
<1> QED
  BY <1>1 DEF UseInv, ClientHeldInv, ServerHeldInv, ParentInv, EntriesInv, ListedInv, NoFault

\* A step of a server that changes no list, no client and no descriptor of a
\* client, and ends no server that has connections, keeps what the clients
\* rely on.
LEMMA ServerFrame ==
  ASSUME TypeOK, ClientHeldInv, ParentInv, EntriesInv, ListedInv,
         UNCHANGED <<cli, cpc, i>>,
         \A s \in Servers : srv'[s].accept_clients = srv[s].accept_clients,
         \A f \in FDs : holder[f] \in Clients => holder'[f] = holder[f],
         \A c \in Clients : cli[c].state = "opened" /\ cli[c].parent # NULL
                              => srv'[cli[c].parent].live
  PROVE  ClientHeldInv' /\ ParentInv' /\ EntriesInv' /\ ListedInv'
<1>1. ClientHeldInv'
  BY Names DEF ClientHeldInv
<1>2. ParentInv'
  BY DEF ParentInv
<1>3. EntriesInv'
  BY Lists DEF EntriesInv
<1>4. \A c \in Clients : cli[c].parent # NULL => List(c)' = List(c)
  BY Records DEF List
<1>5. ListedInv'
  BY <1>4 DEF ListedInv
<1> QED BY <1>1, <1>2, <1>3, <1>5

\* The steps of the server objects and of accept() keep the invariant.
LEMMA ServerKeeps ==
  ASSUME SerialUse, TypeOK, OwnInv, NoLeak, UseInv, NEW s \in Servers,
         \/ ServerOpen(s) \/ ServerClose(s) \/ ServerCloseFd(s) \/ ServerCloseInval(s)
         \/ ServerDestroy(s) \/ ServerConstruct(s)
         \/ \E to \in Servers \ {s} : ServerMove(s, to)
  PROVE  UseInv'
<1>a. ClientHeldInv /\ ServerHeldInv /\ ParentInv /\ EntriesInv /\ ListedInv /\ faults = {}
  BY DEF UseInv, NoFault
<1>b. \A x \in Servers : (~ srv[x].live \/ AcceptedBy(x) = {}) =>
         /\ srv[x].accept_clients = <<>>
         /\ \A c \in Clients : ~ (cli[c].state = "opened" /\ cli[c].parent = x)
  <2> SUFFICES ASSUME NEW x \in Servers, ~ srv[x].live \/ AcceptedBy(x) = {}
               PROVE  /\ srv[x].accept_clients = <<>>
                      /\ \A c \in Clients : ~ (cli[c].state = "opened" /\ cli[c].parent = x)
    OBVIOUS
  <2>1. x # NULL
    BY Names
  <2>2. \A c \in Clients : ~ (cli[c].state = "opened" /\ cli[c].parent = x)
    BY <1>a, <2>1 DEF AcceptedBy, OwnInv, ParentInv
  <2> QED BY <1>a, <2>2, EmptyList
<1>c. SUFFICES /\ UNCHANGED <<cli, cpc, i, faults>>
               /\ \A x \in Servers : srv'[x].accept_clients = srv[x].accept_clients
               /\ \A f \in FDs : holder[f] \in Clients => holder'[f] = holder[f]
               /\ \A c \in Clients : cli[c].state = "opened" /\ cli[c].parent # NULL
                                       => srv'[cli[c].parent].live
               /\ ServerHeldInv'
  BY <1>a, ServerFrame DEF UseInv, NoFault
<1>d. \A c \in Clients : cli[c].state = "opened" /\ cli[c].parent # NULL =>
        cli[c].parent \in Servers /\ srv[cli[c].parent].live
  BY <1>a, Records DEF ParentInv
<1>1. CASE ServerOpen(s)
  <2>1. PICK f \in FDs :
           /\ holder[f] = "free" /\ holder' = [holder EXCEPT ![f] = s]
           /\ srv'[s].live /\ srv'[s].state = "opened" /\ srv'[s].sock = f
           /\ srv'[s].accept_clients = srv[s].accept_clients
           /\ OtherServers(s)
    BY <1>1, ServerOpenEffect
  <2>2. UNCHANGED <<cli, cpc, i, faults, spc>>
    BY <1>1 DEF ServerOpen
  <2>3. ServerHeldInv'
    BY <1>a, <2>1, <2>2, Names DEF ServerHeldInv, OtherServers
  <2> QED BY <1>d, <2>1, <2>2, <2>3, Names DEF OtherServers
<1>2. CASE ServerClose(s)
  <2>1. /\ srv'[s].live /\ srv'[s].state = "created" /\ srv'[s].sock = srv[s].sock
        /\ srv'[s].accept_clients = srv[s].accept_clients
        /\ OtherServers(s)
    BY <1>2, ServerCloseEffect
  <2>2. /\ spc[s] = "idle" /\ srv[s].state # "created" /\ spc' = [spc EXCEPT ![s] = "close_fd"]
        /\ UNCHANGED <<cli, cpc, i, faults, holder>>
    BY <1>2 DEF ServerClose
  <2>4. ServerHeldInv'
    BY <1>a, <2>1, <2>2, Names DEF ServerHeldInv, OtherServers
  <2> QED BY <1>d, <2>1, <2>2, <2>4 DEF OtherServers
<1>3. CASE ServerCloseFd(s)
  <2>1. srv[s].sock \in FDs /\ holder[srv[s].sock] = s /\ srv[s].state = "created"
    BY <1>3, <1>a DEF ServerCloseFd, ServerHeldInv, OwnInv
  <2>2. /\ spc' = [spc EXCEPT ![s] = "close_inval"] /\ UNCHANGED <<srv, cli, cpc, i>>
        /\ holder' = [f \in FDs |-> IF f \in {srv[s].sock} THEN "free" ELSE holder[f]]
    BY <1>3 DEF ServerCloseFd, closesocket
  <2>3. faults' = faults
    BY <1>3, <2>1 DEF ServerCloseFd, closesocket
  <2>4. ServerHeldInv'
    BY <1>a, <2>1, <2>2, Names DEF ServerHeldInv
  <2> QED BY <1>d, <2>1, <2>2, <2>3, <2>4, Names
<1>4. CASE ServerCloseInval(s)
  <2>1. /\ srv'[s].live = srv[s].live /\ srv'[s].state = srv[s].state
        /\ srv'[s].sock = INVALID_SOCKET
        /\ srv'[s].accept_clients = srv[s].accept_clients
        /\ OtherServers(s)
    BY <1>4, ServerCloseInvalEffect
  <2>2. /\ spc[s] = "close_inval" /\ spc' = [spc EXCEPT ![s] = "idle"]
        /\ UNCHANGED <<cli, cpc, i, holder, faults>>
    BY <1>4 DEF ServerCloseInval
  <2>3. ServerHeldInv'
    BY <1>a, <2>1, <2>2, Names DEF ServerHeldInv, OtherServers, OwnInv
  <2> QED BY <1>d, <2>1, <2>2, <2>3 DEF OtherServers
<1>5. CASE ServerDestroy(s)
  <2>1. AcceptedBy(s) = {} /\ srv[s].live /\ spc[s] = "idle"
    BY <1>5 DEF ServerDestroy, SerialUse, Idle
  <2>2. srv[s].accept_clients = <<>>
        /\ \A c \in Clients : ~ (cli[c].state = "opened" /\ cli[c].parent = s)
    BY <1>b, <2>1
  <2>3. Range(srv[s].accept_clients) = {}
    BY <2>2 DEF Range
  <2> DEFINE own == IF srv[s].state = "created" THEN {} ELSE {srv[s].sock}
  <2>4. closesocket(own, {s})
    <3>1. Range(srv[s].accept_clients) \cup own = own
      BY <2>3
    <3>2. AcceptedBy(s) \cup {s} = {s}
      BY <2>1
    <3>3. closesocket(Range(srv[s].accept_clients) \cup own, AcceptedBy(s) \cup {s})
      BY <1>5 DEF ServerDestroy
    <3> QED BY <3>1, <3>2, <3>3
  <2>5. \A f \in own \cap FDs : holder[f] = s
    BY <1>a, <2>1, Records, Names DEF ServerHeldInv, OwnInv
  <2>6. faults' = faults
    BY <2>4, <2>5 DEF closesocket
  <2>7. /\ srv' = [srv EXCEPT ![s] = DeadServer] /\ UNCHANGED <<cli, cpc, i, spc>>
        /\ holder' = [f \in FDs |-> IF f \in own THEN "free" ELSE holder[f]]
    BY <1>5, <2>4 DEF ServerDestroy, closesocket
  <2> HIDE DEF own
  <2>8. /\ \A x \in Servers \ {s} : srv'[x] = srv[x]
        /\ srv'[s].accept_clients = <<>> /\ srv'[s].state = "created"
    BY <2>7, NewObjects, Records
  <2>9. ServerHeldInv'
    BY <1>a, <2>1, <2>5, <2>7, <2>8, Names DEF ServerHeldInv
  <2> QED BY <1>d, <2>2, <2>5, <2>6, <2>7, <2>8, <2>9, Names
<1>6. CASE ServerConstruct(s)
  <2>1. /\ ~ srv[s].live /\ UNCHANGED <<cli, cpc, i, holder, spc, faults>>
        /\ srv' = [srv EXCEPT ![s] = NewServer]
    BY <1>6 DEF ServerConstruct
  <2>2. srv[s].accept_clients = <<>> /\ spc[s] = "idle"
    BY <1>b, <2>1 DEF OwnInv
  <2>3. /\ \A x \in Servers \ {s} : srv'[x] = srv[x]
        /\ srv'[s].accept_clients = <<>> /\ srv'[s].state = "created" /\ srv'[s].live
    BY <2>1, NewObjects, Records
  <2>4. ServerHeldInv'
    BY <1>a, <2>1, <2>2, <2>3 DEF ServerHeldInv
  <2> QED BY <1>d, <2>1, <2>2, <2>3, <2>4
<1>7. ASSUME NEW to \in Servers \ {s}, ServerMove(s, to)
      PROVE  /\ UNCHANGED <<cli, cpc, i, faults>>
             /\ \A x \in Servers : srv'[x].accept_clients = srv[x].accept_clients
             /\ \A f \in FDs : holder[f] \in Clients => holder'[f] = holder[f]
             /\ \A c \in Clients : cli[c].state = "opened" /\ cli[c].parent # NULL
                                     => srv'[cli[c].parent].live
             /\ ServerHeldInv'
  <2>1. /\ srv[s].live /\ spc[s] = "idle" /\ ~ srv[to].live /\ AcceptedBy(s) = {}
        /\ srv' = [srv EXCEPT ![to] = srv[s], ![s] = NewServer]
        /\ holder' = [f \in FDs |-> IF holder[f] = s THEN to ELSE holder[f]]
        /\ UNCHANGED <<cli, cpc, i, spc, faults>>
    BY <1>7 DEF ServerMove, Idle, SerialUse
  <2>2. srv[s].accept_clients = <<>> /\ srv[to].accept_clients = <<>> /\ spc[to] = "idle"
    BY <1>b, <2>1 DEF OwnInv
  <2>3. /\ \A x \in Servers \ {s, to} : srv'[x] = srv[x]
        /\ srv'[to] = srv[s]
        /\ srv'[s].accept_clients = <<>> /\ srv'[s].state = "created" /\ srv'[s].live
    BY <2>1, NewObjects, Records
  <2>4. ASSUME NEW x \in Servers, srv'[x].state # "created" \/ spc'[x] = "close_fd"
        PROVE  srv'[x].sock \in FDs /\ holder'[srv'[x].sock] = x
    <3>1. CASE x = s
      BY <2>1, <2>3, <2>4, <3>1
    <3>2. CASE x = to
      <4>1. srv'[x] = srv[s] /\ srv[s].state # "created"
        BY <2>1, <2>2, <2>3, <2>4, <3>2
      <4>2. srv[s].sock \in FDs /\ holder[srv[s].sock] = s
        BY <1>a, <4>1 DEF ServerHeldInv
      <4> QED BY <2>1, <3>2, <4>1, <4>2
    <3>3. CASE x \in Servers \ {s, to}
      <4>1. srv[x].sock \in FDs /\ holder[srv[x].sock] = x /\ srv'[x] = srv[x]
        BY <1>a, <2>1, <2>3, <2>4, <3>3 DEF ServerHeldInv
      <4> QED BY <2>1, <3>3, <4>1
    <3> QED BY <3>1, <3>2, <3>3
  <2>5. ServerHeldInv'
    BY <2>4 DEF ServerHeldInv
  <2> QED BY <1>d, <2>1, <2>2, <2>3, <2>5, Names
<1> QED BY <1>1, <1>2, <1>3, <1>4, <1>5, <1>6, <1>7

\* A step that leaves the objects, the lists, the kernel's table and the
\* close() calls alone keeps the invariant: accept() until a connection comes.
LEMMA QuietStep ==
  ASSUME UseInv, UNCHANGED <<srv, cli, holder, spc, cpc, i, faults>>
  PROVE  UseInv'
BY DEF UseInv, ClientHeldInv, ServerHeldInv, ParentInv, EntriesInv, ListedInv, NoFault, List

\* A new connection: its descriptor was free and so on no list, and goes to the
\* end of the list of its server.
LEMMA AcceptKeeps ==
  ASSUME SerialUse, TypeOK, OwnInv, NoLeak, UseInv,
         NEW s \in Servers, NEW c \in Clients, NEW f \in FDs, AcceptConnection(s, c, f)
  PROVE  UseInv'
<1>a. ClientHeldInv /\ ServerHeldInv /\ ParentInv /\ EntriesInv /\ ListedInv /\ faults = {}
  BY DEF UseInv, NoFault
<1> DEFINE L == srv[s].accept_clients
<1>1. /\ srv[s].sock \in FDs /\ holder[srv[s].sock] = s
      /\ ~ cli[c].live /\ holder[f] = "free" /\ holder' = [holder EXCEPT ![f] = c]
      /\ UNCHANGED <<spc, cpc, i, faults>>
      /\ \A d \in Clients : cpc[d] = "idle"
  BY DEF AcceptConnection, Free, SerialUse, NoClientCloses
<1>2. /\ srv'[s].live = srv[s].live /\ srv'[s].state = srv[s].state
      /\ srv'[s].sock = srv[s].sock /\ srv'[s].accept_clients = Append(L, f)
      /\ OtherServers(s)
      /\ cli'[c].live /\ cli'[c].state = "opened" /\ cli'[c].sock = f /\ cli'[c].parent = s
      /\ OtherClients(c)
  BY AcceptConnectionEffect
<1>3. srv[s].live /\ cli[c].state # "opened"
  BY <1>1 DEF NoLeak, OwnInv
<1>4. /\ L \in Seq(FDs) /\ Len(L) \in Nat /\ DOMAIN L = 1 .. Len(L)
      /\ \A j \in DOMAIN L : L[j] \in FDs
  BY Lists
<1> HIDE DEF L
<1>5. /\ DOMAIN Append(L, f) = 1 .. Len(L) + 1
      /\ \A j \in DOMAIN L : Append(L, f)[j] = L[j]
      /\ Append(L, f)[Len(L) + 1] = f
  BY <1>4
<1>6. DOMAIN Append(L, f) = DOMAIN L \cup {Len(L) + 1} /\ Len(L) + 1 \notin DOMAIN L
  BY <1>4, <1>5
<1>7. ClientHeldInv'
  <2> SUFFICES ASSUME NEW d \in Clients, cli'[d].state = "opened"
               PROVE  cli'[d].sock \in FDs /\ holder'[cli'[d].sock] = d
    BY DEF ClientHeldInv
  <2>1. CASE d = c
    BY <1>1, <1>2, <2>1, Names
  <2>2. CASE d # c
    <3>1. cli'[d] = cli[d]
      BY <1>2, <2>2 DEF OtherClients
    <3>2. cli[d].sock \in FDs /\ holder[cli[d].sock] = d
      BY <1>a, <3>1 DEF ClientHeldInv
    <3> QED BY <1>1, <3>1, <3>2, Names
  <2> QED BY <2>1, <2>2
<1>8. ServerHeldInv'
  BY <1>a, <1>1, <1>2, Names DEF ServerHeldInv, OtherServers
<1>9. ParentInv'
  <2>1. \A x \in Servers : srv'[x].live = srv[x].live
    BY <1>2 DEF OtherServers
  <2>2. \A d \in Clients : cli'[d].state = "opened" /\ cli'[d].parent # NULL
                             => srv[cli'[d].parent].live /\ cli'[d].parent \in Servers
    BY <1>a, <1>2, <1>3, Records DEF ParentInv, OtherClients
  <2> QED BY <1>1, <2>1, <2>2 DEF ParentInv
<1>10. EntriesInv'
  <2>1. ASSUME NEW x \in Servers, NEW j \in DOMAIN srv[x].accept_clients
        PROVE  LET e == srv[x].accept_clients[j]
               IN  /\ e \in FDs /\ e # f /\ holder'[e] = holder[e]
                   /\ holder[e] \in Clients /\ cli'[holder[e]] = cli[holder[e]]
                   /\ cli[holder[e]].state = "opened" /\ cli[holder[e]].parent = x
    <3>1. /\ srv[x].accept_clients[j] \in FDs
          /\ holder[srv[x].accept_clients[j]] \in Clients
          /\ cli[holder[srv[x].accept_clients[j]]].state = "opened"
          /\ cli[holder[srv[x].accept_clients[j]]].parent = x
      BY <1>a, Lists DEF EntriesInv
    <3> QED BY <1>1, <1>2, <1>3, <3>1, Names DEF OtherClients
  <2>2. ASSUME NEW x \in Servers \ {s}
        PROVE  /\ \A j \in DOMAIN srv'[x].accept_clients :
                    LET owner == holder'[srv'[x].accept_clients[j]]
                    IN  owner \in Clients /\ cli'[owner].state = "opened" /\ cli'[owner].parent = x
               /\ \A j, k \in DOMAIN srv'[x].accept_clients :
                    srv'[x].accept_clients[j] = srv'[x].accept_clients[k] => j = k
    <3>1. srv'[x] = srv[x]
      BY <1>2 DEF OtherServers
    <3> QED BY <1>a, <2>1, <3>1 DEF EntriesInv
  <2>3. \A j \in DOMAIN Append(L, f) :
          LET owner == holder'[Append(L, f)[j]]
          IN  owner \in Clients /\ cli'[owner].state = "opened" /\ cli'[owner].parent = s
    <3>1. ASSUME NEW j \in DOMAIN L
          PROVE  /\ Append(L, f)[j] = L[j] /\ holder'[L[j]] \in Clients
                 /\ cli'[holder'[L[j]]].state = "opened" /\ cli'[holder'[L[j]]].parent = s
      <4>1. /\ holder'[L[j]] = holder[L[j]] /\ holder[L[j]] \in Clients
            /\ cli'[holder[L[j]]] = cli[holder[L[j]]]
            /\ cli[holder[L[j]]].state = "opened" /\ cli[holder[L[j]]].parent = s
        BY <2>1 DEF L
      <4> QED BY <1>5, <4>1
    <3>2. holder'[f] = c
      BY <1>1, Names
    <3> QED BY <1>2, <1>5, <1>6, <3>1, <3>2
  <2>4. \A j, k \in DOMAIN Append(L, f) : Append(L, f)[j] = Append(L, f)[k] => j = k
    <3>1. \A j \in DOMAIN L : L[j] # f
      BY <2>1 DEF L
    <3>2. \A j, k \in DOMAIN L : L[j] = L[k] => j = k
      BY <1>a DEF EntriesInv, L
    <3> QED BY <1>5, <1>6, <3>1, <3>2
  <2>5. ASSUME NEW x \in Servers
        PROVE  /\ \A j \in DOMAIN srv'[x].accept_clients :
                    LET owner == holder'[srv'[x].accept_clients[j]]
                    IN  owner \in Clients /\ cli'[owner].state = "opened" /\ cli'[owner].parent = x
               /\ \A j, k \in DOMAIN srv'[x].accept_clients :
                    srv'[x].accept_clients[j] = srv'[x].accept_clients[k] => j = k
    <3>1. CASE x = s
      <4>1. srv'[x].accept_clients = Append(L, f)
        BY <1>2, <3>1
      <4> QED BY <2>3, <2>4, <3>1, <4>1
    <3>2. CASE x # s
      BY <2>2, <3>2
    <3> QED BY <3>1, <3>2
  <2> QED BY <2>5 DEF EntriesInv
<1>11. ListedInv'
  <2> SUFFICES ASSUME NEW d \in Clients, cli'[d].state = "opened", cli'[d].parent # NULL
               PROVE  \E j \in DOMAIN srv'[cli'[d].parent].accept_clients :
                        srv'[cli'[d].parent].accept_clients[j] = cli'[d].sock
    BY <1>1 DEF ListedInv, List
  <2>1. CASE d = c
    BY <1>2, <1>5, <1>6, <2>1
  <2>2. CASE d # c
    <3>1. cli'[d] = cli[d] /\ cli[d].parent \in Servers
      BY <1>2, <2>2, Records DEF OtherClients
    <3>2. PICK j \in DOMAIN srv[cli[d].parent].accept_clients :
            srv[cli[d].parent].accept_clients[j] = cli[d].sock
      BY <1>a, <1>1, <3>1 DEF ListedInv, List
    <3>3. CASE cli[d].parent = s
      <4>1. j \in DOMAIN Append(L, f) /\ Append(L, f)[j] = cli[d].sock
        BY <1>5, <1>6, <3>2, <3>3 DEF L
      <4> QED BY <1>2, <3>1, <3>3, <4>1
    <3>4. CASE cli[d].parent # s
      BY <1>2, <3>1, <3>2, <3>4 DEF OtherServers
    <3> QED BY <3>3, <3>4
  <2> QED BY <2>1, <2>2
<1> QED BY <1>a, <1>1, <1>7, <1>8, <1>9, <1>10, <1>11 DEF UseInv, NoFault

\* close() of a client starts: its server is alive, so that the scan starts at
\* the first entry, or there is no list to scan.
LEMMA ClientCloseKeeps ==
  ASSUME SerialUse, TypeOK, OwnInv, UseInv,
         NEW c \in Clients, NEW destructor \in BOOLEAN, ClientClose(c, destructor)
  PROVE  UseInv'
<1>a. ClientHeldInv /\ ServerHeldInv /\ ParentInv /\ EntriesInv /\ ListedInv /\ faults = {}
  BY DEF UseInv, NoFault
<1>1. /\ \A d \in Clients : cpc[d] = "idle"
      /\ UNCHANGED <<srv, cli, holder, spc>>
      /\ i' = [i EXCEPT ![c] = 1]
  BY DEF ClientClose, SerialUse, NoClientCloses
<1>2. cli[c].state = "opened" /\ cli[c].parent # NULL => srv[cli[c].parent].live
  BY <1>a DEF ParentInv
<1>3. /\ faults' = {}
      /\ cpc' = [cpc EXCEPT ![c] = IF cli[c].state = "opened" /\ cli[c].parent # NULL
                                   THEN "scan" ELSE "base_close"]
  BY <1>a, <1>2 DEF ClientClose
<1>4. /\ i'[c] = 1 /\ cpc'[c] \in {"scan", "base_close"}
      /\ cpc'[c] = "scan" <=> cli[c].state = "opened" /\ cli[c].parent # NULL
      /\ \A d \in Clients \ {c} : cpc'[d] = "idle"
  BY <1>1, <1>3, Names
<1>5. ParentInv'
  BY <1>a, <1>1, <1>4 DEF ParentInv
<1>6. ListedInv'
  <2> SUFFICES ASSUME NEW d \in Clients, cli[d].state = "opened", cli[d].parent # NULL
               PROVE  /\ cpc'[d] = "idle" => \E j \in DOMAIN List(d) : List(d)[j] = cli[d].sock
                      /\ cpc'[d] = "scan" =>
                           \A j \in DOMAIN List(d) : List(d)[j] = cli[d].sock => j >= i'[d]
                      /\ cpc'[d] \notin {"erase", "base_close"}
    BY <1>1 DEF ListedInv, List
  <2>1. CASE d = c
    <3>1. cli[d].parent \in Servers
      BY Records
    <3>2. \A j \in DOMAIN List(d) : j >= 1
      BY <3>1, Lists DEF List
    <3> QED BY <1>4, <2>1, <3>2
  <2>2. CASE d # c
    BY <1>a, <1>1, <1>4, <2>2 DEF ListedInv
  <2> QED BY <2>1, <2>2
<1>7. ClientHeldInv' /\ ServerHeldInv' /\ EntriesInv'
  BY <1>a, <1>1 DEF ClientHeldInv, ServerHeldInv, EntriesInv
<1> QED BY <1>3, <1>5, <1>6, <1>7 DEF UseInv, NoFault

\* A step of the scan: past the end the entry is not there, at the entry it is
\* erased next, elsewhere it is further on.
LEMMA ClientScanKeeps ==
  ASSUME TypeOK, UseInv, NEW c \in Clients, ClientScan(c)
  PROVE  UseInv'
<1>a. ClientHeldInv /\ ServerHeldInv /\ ParentInv /\ EntriesInv /\ ListedInv /\ faults = {}
  BY DEF UseInv, NoFault
<1>1. /\ cpc[c] = "scan" /\ UNCHANGED <<srv, cli, holder, spc, faults>>
      /\ \/ /\ i[c] > Len(List(c))
            /\ cpc' = [cpc EXCEPT ![c] = "base_close"] /\ i' = i
         \/ /\ ~ (i[c] > Len(List(c))) /\ List(c)[i[c]] = cli[c].sock
            /\ cpc' = [cpc EXCEPT ![c] = "erase"] /\ i' = i
         \/ /\ ~ (i[c] > Len(List(c))) /\ List(c)[i[c]] # cli[c].sock
            /\ i' = [i EXCEPT ![c] = @ + 1] /\ cpc' = cpc
  BY DEF ClientScan
<1>2. /\ cli[c].state = "opened" /\ cli[c].parent \in Servers /\ cli[c].parent # NULL
      /\ i[c] >= 1 /\ i[c] \in Nat
  BY <1>a, <1>1, Records, Names DEF ParentInv
<1>3. DOMAIN List(c) = 1 .. Len(List(c)) /\ Len(List(c)) \in Nat
  BY <1>2, Lists DEF List
<1>4. \A j \in DOMAIN List(c) : List(c)[j] = cli[c].sock => j >= i[c]
  BY <1>a, <1>1, <1>2 DEF ListedInv
<1>5. \A d \in Clients \ {c} : cpc'[d] = cpc[d] /\ i'[d] = i[d]
  BY <1>1, Names
<1>6. /\ cpc'[c] \in {"scan", "erase", "base_close"} /\ i'[c] >= 1
      /\ cpc'[c] = "scan" =>
           \A j \in DOMAIN List(c) : List(c)[j] = cli[c].sock => j >= i'[c]
      /\ cpc'[c] = "erase" => i'[c] \in DOMAIN List(c) /\ List(c)[i'[c]] = cli[c].sock
      /\ cpc'[c] = "base_close" => \A j \in DOMAIN List(c) : List(c)[j] # cli[c].sock
  <2>1. CASE i[c] > Len(List(c))
    <3>1. cpc'[c] = "base_close" /\ i'[c] = i[c]
      BY <1>1, <2>1, Names
    <3> QED BY <1>2, <1>3, <1>4, <2>1, <3>1
  <2>2. CASE ~ (i[c] > Len(List(c))) /\ List(c)[i[c]] = cli[c].sock
    <3>1. cpc'[c] = "erase" /\ i'[c] = i[c]
      BY <1>1, <2>2, Names
    <3> QED BY <1>2, <1>3, <2>2, <3>1
  <2>3. CASE ~ (i[c] > Len(List(c))) /\ List(c)[i[c]] # cli[c].sock
    <3>1. cpc'[c] = "scan" /\ i'[c] = i[c] + 1
      BY <1>1, <2>3, Names
    <3>2. \A j \in DOMAIN List(c) : List(c)[j] = cli[c].sock => j >= i[c] + 1
      BY <1>2, <1>3, <1>4, <2>3
    <3> QED BY <1>2, <3>1, <3>2
  <2> QED BY <2>1, <2>2, <2>3
<1>7. ParentInv'
  <2>1. \A d \in Clients : cpc'[d] # "idle" <=> cpc[d] # "idle"
    BY <1>1, <1>5, <1>6
  <2>2. \A d \in Clients : cpc'[d] \in {"scan", "erase"} =>
          cli[d].state = "opened" /\ cli[d].parent # NULL /\ i'[d] >= 1
    BY <1>a, <1>2, <1>5, <1>6 DEF ParentInv
  <2> QED BY <1>a, <1>1, <2>1, <2>2 DEF ParentInv
<1>8. ListedInv'
  <2>1. \A d \in Clients : List(d)' = List(d) /\ cli'[d] = cli[d]
    BY <1>1 DEF List
  <2> QED BY <1>a, <1>5, <1>6, <2>1 DEF ListedInv
<1>9. ClientHeldInv' /\ ServerHeldInv' /\ EntriesInv'
  BY <1>a, <1>1 DEF ClientHeldInv, ServerHeldInv, EntriesInv
<1> QED BY <1>a, <1>1, <1>7, <1>8, <1>9 DEF UseInv, NoFault

\* erase() takes exactly the entry of this connection off the list; the other
\* connections of the server keep theirs, one place further forward perhaps.
LEMMA ClientEraseKeeps ==
  ASSUME TypeOK, UseInv, NEW c \in Clients, ClientErase(c)
  PROVE  UseInv'
<1>a. ClientHeldInv /\ ServerHeldInv /\ ParentInv /\ EntriesInv /\ ListedInv /\ faults = {}
  BY DEF UseInv, NoFault
<1> DEFINE p == cli[c].parent
           L == srv[p].accept_clients
           R == RemoveAt(L, i[c])
<1>1. /\ cpc[c] = "erase" /\ cli[c].state = "opened" /\ p \in Servers /\ p # NULL
      /\ i[c] \in DOMAIN L /\ L[i[c]] = cli[c].sock
  BY <1>a, Records, Names DEF ClientErase, ParentInv, ListedInv, List
<1>2. /\ L \in Seq(FDs) /\ Len(L) \in Nat /\ DOMAIN L = 1 .. Len(L) /\ i[c] \in Nat
  BY <1>1, Lists, Names
<1>3. List(c) = L /\ i[c] <= Len(L)
  BY <1>1, <1>2 DEF List
<1>4. /\ srv' = [srv EXCEPT ![p].accept_clients = RemoveAt(@, i[c])] /\ faults' = faults
      /\ i' = [i EXCEPT ![c] = @ + 1] /\ cpc' = [cpc EXCEPT ![c] = "scan"]
      /\ UNCHANGED <<cli, holder, spc>>
  BY <1>3 DEF ClientErase
<1>5. srv'[p].accept_clients = R
  BY <1>1, <1>4, Records DEF ServerRecord
<1>6. /\ \A x \in Servers : /\ srv'[x].live = srv[x].live /\ srv'[x].state = srv[x].state
                            /\ srv'[x].sock = srv[x].sock
                            /\ x # p => srv'[x] = srv[x]
  BY ClientEraseEffect
<1>7. /\ DOMAIN R = 1 .. Len(L) - 1
      /\ \A k \in DOMAIN R : R[k] = IF k < i[c] THEN L[k] ELSE L[k + 1]
  <2>1. i[c] \in 1 .. Len(L)
    BY <1>1, <1>2
  <2> QED BY <1>2, <2>1, RemoveAtEntries
<1> HIDE DEF p, L, R
<1>8. \A k \in DOMAIN R : \E j \in DOMAIN L : R[k] = L[j] /\ j # i[c]
  <2> TAKE k \in DOMAIN R
  <2>1. CASE k < i[c]
    BY <1>2, <1>7, <2>1
  <2>2. CASE ~ (k < i[c])
    <3>1. k + 1 \in DOMAIN L /\ k + 1 # i[c] /\ R[k] = L[k + 1]
      BY <1>2, <1>7, <2>2
    <3> QED BY <3>1
  <2> QED BY <2>1, <2>2
<1>9. \A j \in DOMAIN L : j # i[c] => \E k \in DOMAIN R : R[k] = L[j]
  <2> SUFFICES ASSUME NEW j \in DOMAIN L, j # i[c] PROVE \E k \in DOMAIN R : R[k] = L[j]
    OBVIOUS
  <2>0. i[c] >= 1 /\ i[c] <= Len(L)
    BY <1>1, <1>2
  <2>1. CASE j < i[c]
    <3>1. j \in DOMAIN R /\ R[j] = L[j]
      BY <1>2, <1>7, <2>0, <2>1
    <3> QED BY <3>1
  <2>2. CASE ~ (j < i[c])
    <3>1. j - 1 \in DOMAIN R /\ ~ (j - 1 < i[c]) /\ (j - 1) + 1 = j
      BY <1>2, <1>7, <2>0, <2>2
    <3>2. R[j - 1] = L[j]
      BY <1>7, <3>1
    <3> QED BY <3>1, <3>2
  <2> QED BY <2>1, <2>2
<1>10. \A j, k \in DOMAIN L : L[j] = L[k] => j = k
  BY <1>a, <1>1 DEF EntriesInv, L
<1>11. \A k \in DOMAIN R : R[k] # cli[c].sock
  BY <1>1, <1>8, <1>10
<1>12. EntriesInv'
  <2>1. \A j, k \in DOMAIN R : R[j] = R[k] => j = k
    <3> SUFFICES ASSUME NEW j \in DOMAIN R, NEW k \in DOMAIN R, R[j] = R[k] PROVE j = k
      OBVIOUS
    <3>1. j \in Int /\ k \in Int /\ j >= 1 /\ k >= 1 /\ j < Len(L) /\ k < Len(L)
      BY <1>2, <1>7
    <3>2. /\ j \in DOMAIN L /\ j + 1 \in DOMAIN L /\ k \in DOMAIN L /\ k + 1 \in DOMAIN L
      BY <1>2, <3>1
    <3>3. CASE j < i[c] /\ k < i[c]
      BY <1>7, <1>10, <3>2, <3>3
    <3>4. CASE j < i[c] /\ ~ (k < i[c])
      <4>1. j = k + 1
        BY <1>7, <1>10, <3>2, <3>4
      <4> QED BY <1>2, <3>1, <3>4, <4>1
    <3>5. CASE ~ (j < i[c]) /\ k < i[c]
      <4>1. j + 1 = k
        BY <1>7, <1>10, <3>2, <3>5
      <4> QED BY <1>2, <3>1, <3>5, <4>1
    <3>6. CASE ~ (j < i[c]) /\ ~ (k < i[c])
      <4>1. j + 1 = k + 1
        BY <1>7, <1>10, <3>2, <3>6
      <4> QED BY <3>1, <4>1
    <3> QED BY <3>3, <3>4, <3>5, <3>6
  <2>2. \A j \in DOMAIN L : /\ holder[L[j]] \in Clients
                            /\ cli[holder[L[j]]].state = "opened"
                            /\ cli[holder[L[j]]].parent = p
    BY <1>a, <1>1 DEF EntriesInv, L
  <2>3. \A j \in DOMAIN R : /\ holder[R[j]] \in Clients
                            /\ cli[holder[R[j]]].state = "opened"
                            /\ cli[holder[R[j]]].parent = p
    BY <1>8, <2>2
  <2>4. ASSUME NEW x \in Servers
        PROVE  /\ \A j \in DOMAIN srv'[x].accept_clients :
                    LET owner == holder[srv'[x].accept_clients[j]]
                    IN  owner \in Clients /\ cli[owner].state = "opened" /\ cli[owner].parent = x
               /\ \A j, k \in DOMAIN srv'[x].accept_clients :
                    srv'[x].accept_clients[j] = srv'[x].accept_clients[k] => j = k
    <3>1. CASE x = p
      BY <1>5, <2>1, <2>3, <3>1
    <3>2. CASE x # p
      BY <1>a, <1>6, <3>2 DEF EntriesInv
    <3> QED BY <3>1, <3>2
  <2> QED BY <1>4, <2>4 DEF EntriesInv
<1>13. \A d \in Clients \ {c} : cpc'[d] = cpc[d] /\ cpc[d] = "idle"
  BY <1>a, <1>1, <1>4, Names DEF ParentInv
<1>14. cpc'[c] = "scan" /\ i'[c] = i[c] + 1
  BY <1>4, Names
<1>15. ListedInv'
  <2> SUFFICES ASSUME NEW d \in Clients, cli[d].state = "opened", cli[d].parent # NULL
               PROVE  LET M == srv'[cli[d].parent].accept_clients
                      IN  /\ d # c => \E j \in DOMAIN M : M[j] = cli[d].sock
                          /\ d = c => \A j \in DOMAIN M : M[j] # cli[d].sock
    BY <1>4, <1>13, <1>14 DEF ListedInv, List
  <2>1. CASE d = c
    BY <1>5, <1>11, <2>1 DEF p
  <2>2. CASE d # c
    <3>1. cli[d].parent \in Servers
      BY Records
    <3>2. PICK j \in DOMAIN srv[cli[d].parent].accept_clients :
            srv[cli[d].parent].accept_clients[j] = cli[d].sock
      BY <1>a, <1>13, <2>2 DEF ListedInv, List
    <3>3. CASE cli[d].parent = p
      <4>1. cli[d].sock # cli[c].sock
        BY <1>a, <1>1, <2>2 DEF ClientHeldInv
      <4>2. j \in DOMAIN L /\ L[j] = cli[d].sock /\ j # i[c]
        BY <1>1, <3>2, <3>3, <4>1 DEF L
      <4>3. PICK k \in DOMAIN R : R[k] = cli[d].sock
        BY <1>9, <4>2
      <4> QED BY <1>5, <2>2, <3>3, <4>3
    <3>4. CASE cli[d].parent # p
      BY <1>6, <2>2, <3>1, <3>2, <3>4
    <3> QED BY <3>3, <3>4
  <2> QED BY <2>1, <2>2
<1>16. ParentInv'
  <2>1. i'[c] >= 1
    BY <1>2, <1>14
  <2>2. \A d \in Clients : cli[d].state = "opened" /\ cli[d].parent # NULL
                             => srv'[cli[d].parent].live
    BY <1>a, <1>6, Records DEF ParentInv
  <2> QED BY <1>1, <1>4, <1>13, <1>14, <2>1, <2>2 DEF ParentInv, p
<1>17. ClientHeldInv' /\ ServerHeldInv'
  BY <1>a, <1>4, <1>6 DEF ClientHeldInv, ServerHeldInv
<1> QED BY <1>a, <1>4, <1>12, <1>15, <1>16, <1>17 DEF UseInv, NoFault

\* The end of close(): the descriptor is this client's own and on no list.
LEMMA ClientBaseCloseKeeps ==
  ASSUME TypeOK, NoLeak, UseInv, NEW c \in Clients, ClientBaseClose(c)
  PROVE  UseInv'
<1>a. ClientHeldInv /\ ServerHeldInv /\ ParentInv /\ EntriesInv /\ ListedInv /\ faults = {}
  BY DEF UseInv, NoFault
<1>1. cli'[c].state = "created" /\ OtherClients(c)
  BY ClientBaseCloseEffect
<1>2. /\ cpc[c] = "base_close" /\ UNCHANGED <<srv, spc>>
      /\ cpc' = [cpc EXCEPT ![c] = "idle"] /\ i' = [i EXCEPT ![c] = 0]
  BY DEF ClientBaseClose
<1>3. \A d \in Clients \ {c} : /\ cli'[d] = cli[d] /\ cpc'[d] = cpc[d] /\ i'[d] = i[d]
                               /\ cpc[d] = "idle"
  BY <1>a, <1>1, <1>2, Names DEF OtherClients, ParentInv
<1>4. faults' = {} /\ \A f \in FDs : holder[f] # c => holder'[f] = holder[f]
  <2>1. CASE cli[c].state = "created"
    BY <1>a, <2>1 DEF ClientBaseClose
  <2>2. CASE cli[c].state # "created"
    <3>1. cli[c].sock \in FDs /\ holder[cli[c].sock] = c
      BY <1>a, <2>2, Records DEF ClientHeldInv
    <3>2. closesocket({cli[c].sock}, {c})
      BY <2>2 DEF ClientBaseClose
    <3> QED BY <1>a, <3>1, <3>2 DEF closesocket
  <2> QED BY <2>1, <2>2
<1>5. ClientHeldInv'
  BY <1>a, <1>1, <1>3, <1>4 DEF ClientHeldInv
<1>6. ServerHeldInv'
  BY <1>a, <1>2, <1>4, Names DEF ServerHeldInv
<1>7. ParentInv'
  BY <1>a, <1>1, <1>2, <1>3, Names DEF ParentInv
<1>8. \A s \in Servers : \A j \in DOMAIN srv[s].accept_clients :
        holder[srv[s].accept_clients[j]] # c
  <2> SUFFICES ASSUME NEW s \in Servers, NEW j \in DOMAIN srv[s].accept_clients,
                      holder[srv[s].accept_clients[j]] = c
               PROVE  FALSE
    OBVIOUS
  <2>1. srv[s].accept_clients[j] \in FDs /\ cli[c].state = "opened" /\ cli[c].parent = s
    BY <1>a, Lists DEF EntriesInv
  <2>2. cli[c].sock = srv[s].accept_clients[j] /\ s # NULL
    BY <2>1, Names DEF NoLeak
  <2> QED BY <1>a, <1>2, <2>1, <2>2 DEF ListedInv, List
<1>9. EntriesInv'
  <2>1. ASSUME NEW s \in Servers, NEW j \in DOMAIN srv[s].accept_clients
        PROVE  LET e == srv[s].accept_clients[j]
               IN  /\ holder'[e] = holder[e] /\ holder[e] \in Clients
                   /\ cli'[holder[e]] = cli[holder[e]]
    <3>1. srv[s].accept_clients[j] \in FDs /\ holder[srv[s].accept_clients[j]] \in Clients
      BY <1>a, Lists DEF EntriesInv
    <3> QED BY <1>3, <1>4, <1>8, <3>1
  <2> QED BY <1>a, <1>2, <2>1 DEF EntriesInv
<1>10. ListedInv'
  <2> SUFFICES ASSUME NEW d \in Clients, cli'[d].state = "opened", cli'[d].parent # NULL
               PROVE  /\ cpc'[d] = "idle"
                      /\ \E j \in DOMAIN List(d)' : List(d)'[j] = cli'[d].sock
    BY DEF ListedInv
  <2>1. d # c
    BY <1>1
  <2>2. /\ cli'[d] = cli[d] /\ cpc'[d] = "idle" /\ cpc[d] = "idle" /\ List(d)' = List(d)
    BY <1>2, <1>3, <2>1 DEF List
  <2> QED BY <1>a, <2>2 DEF ListedInv
<1> QED BY <1>4, <1>5, <1>6, <1>7, <1>9, <1>10 DEF UseInv, NoFault

\* A client that is constructed or opened has no list to be on.
LEMMA ClientStartKeeps ==
  ASSUME TypeOK, OwnInv, UseInv, NEW c \in Clients, ClientConstruct(c) \/ ClientOpen(c)
  PROVE  UseInv'
<1>a. ClientHeldInv /\ ServerHeldInv /\ ParentInv /\ EntriesInv /\ ListedInv /\ faults = {}
  BY DEF UseInv, NoFault
<1>1. /\ UNCHANGED <<srv, spc, cpc, i, faults>> /\ cpc[c] = "idle" /\ cli[c].state # "opened"
  BY Names, Records DEF ClientConstruct, ClientOpen, OwnInv
<1>2. /\ \A d \in Clients \ {c} : cli'[d] = cli[d]
      /\ cli'[c].parent = NULL
      /\ cli'[c].state = "opened" => cli'[c].sock \in FDs /\ holder'[cli'[c].sock] = c
      /\ \A f \in FDs : holder[f] # "free" => holder'[f] = holder[f]
  <2>1. CASE ClientConstruct(c)
    BY <2>1, NewObjects, Records DEF ClientConstruct
  <2>2. CASE ClientOpen(c)
    <3>1. PICK f \in FDs :
             /\ holder[f] = "free" /\ holder' = [holder EXCEPT ![f] = c]
             /\ cli'[c].sock = f /\ cli'[c].parent = NULL /\ OtherClients(c)
      BY <2>2, ClientOpenEffect
    <3> QED BY <3>1, Names DEF OtherClients
  <2> QED BY <2>1, <2>2
<1>3. ClientHeldInv'
  BY <1>a, <1>2, Names DEF ClientHeldInv
<1>4. ServerHeldInv'
  BY <1>a, <1>1, <1>2, Names DEF ServerHeldInv
<1>5. ParentInv'
  BY <1>a, <1>1, <1>2 DEF ParentInv
<1>6. EntriesInv'
  <2>1. ASSUME NEW s \in Servers, NEW j \in DOMAIN srv[s].accept_clients
        PROVE  LET e == srv[s].accept_clients[j]
               IN  /\ holder'[e] = holder[e] /\ holder[e] \in Clients
                   /\ cli'[holder[e]] = cli[holder[e]]
    <3>1. /\ srv[s].accept_clients[j] \in FDs /\ holder[srv[s].accept_clients[j]] \in Clients
          /\ holder[srv[s].accept_clients[j]] # c
      BY <1>a, <1>1, Lists DEF EntriesInv
    <3> QED BY <1>2, <3>1, Names
  <2> QED BY <1>a, <1>1, <2>1 DEF EntriesInv
<1>7. ListedInv'
  <2> SUFFICES ASSUME NEW d \in Clients, cli'[d].parent # NULL
               PROVE  cli'[d] = cli[d] /\ List(d)' = List(d)
    BY <1>a, <1>1 DEF ListedInv
  <2> QED BY <1>1, <1>2 DEF List
<1> QED BY <1>a, <1>1, <1>3, <1>4, <1>5, <1>6, <1>7 DEF UseInv, NoFault

\* A moved client takes its connection, its parent and its entry along.
LEMMA ClientMoveKeeps ==
  ASSUME TypeOK, OwnInv, UseInv,
         NEW c \in Clients, NEW to \in Clients \ {c}, ClientMove(c, to)
  PROVE  UseInv'
<1>a. ClientHeldInv /\ ServerHeldInv /\ ParentInv /\ EntriesInv /\ ListedInv /\ faults = {}
  BY DEF UseInv, NoFault
<1>1. /\ cli'[to] = cli[c] /\ cli'[c] = NewClient
      /\ \A x \in Clients \ {c, to} : cli'[x] = cli[x]
      /\ holder' = [f \in FDs |-> IF holder[f] = c THEN to ELSE holder[f]]
      /\ cpc[c] = "idle" /\ ~ cli[to].live
      /\ UNCHANGED <<srv, spc, cpc, i, faults>>
  BY Records DEF ClientMove
<1>2. NewClient.state = "created" /\ NewClient.parent = NULL
  BY NewObjects
<1>3. cpc[to] = "idle" /\ cli[to].state # "opened"
  BY <1>1 DEF OwnInv
<1>4. ASSUME NEW d \in Clients, cli'[d].state = "opened"
      PROVE  \/ d = to /\ cli'[d] = cli[c]
             \/ d \in Clients \ {c, to} /\ cli'[d] = cli[d]
  BY <1>1, <1>2, <1>4
<1>5. ClientHeldInv'
  BY <1>a, <1>1, <1>4 DEF ClientHeldInv
<1>6. ServerHeldInv'
  BY <1>a, <1>1, Names DEF ServerHeldInv
<1>7. ParentInv'
  <2>1. \A d \in Clients : cli'[d].state = "opened" /\ cli'[d].parent # NULL
                             => srv[cli'[d].parent].live
    BY <1>a, <1>4 DEF ParentInv
  <2>2. \A d \in Clients : cpc[d] \in {"scan", "erase"} => cli'[d] = cli[d]
    BY <1>1, <1>3
  <2> QED BY <1>a, <1>1, <2>1, <2>2 DEF ParentInv
<1>8. EntriesInv'
  <2>1. ASSUME NEW s \in Servers, NEW j \in DOMAIN srv[s].accept_clients
        PROVE  LET owner == holder'[srv[s].accept_clients[j]]
               IN  owner \in Clients /\ cli'[owner].state = "opened" /\ cli'[owner].parent = s
    <3> DEFINE e == srv[s].accept_clients[j]
    <3>1. /\ e \in FDs /\ holder[e] \in Clients /\ cli[holder[e]].state = "opened"
          /\ cli[holder[e]].parent = s
      BY <1>a, Lists DEF EntriesInv
    <3>2. holder'[e] = IF holder[e] = c THEN to ELSE holder[e]
      BY <1>1, <3>1
    <3>3. holder[e] # to
      BY <1>3, <3>1
    <3> HIDE DEF e
    <3>4. holder'[e] \in Clients /\ cli'[holder'[e]] = cli[holder[e]]
      BY <1>1, <3>1, <3>2, <3>3
    <3>5. holder'[e] \in Clients /\ cli'[holder'[e]].state = "opened"
          /\ cli'[holder'[e]].parent = s
      BY <3>1, <3>4
    <3> QED BY <3>5 DEF e
  <2>2. \A s \in Servers : \A j, k \in DOMAIN srv[s].accept_clients :
          srv[s].accept_clients[j] = srv[s].accept_clients[k] => j = k
    BY <1>a DEF EntriesInv
  <2>3. srv' = srv
    BY <1>1
  <2> QED BY <2>1, <2>2, <2>3 DEF EntriesInv
<1>9. ListedInv'
  <2> SUFFICES ASSUME NEW d \in Clients, cli'[d].state = "opened", cli'[d].parent # NULL
               PROVE  \E x \in Clients : /\ cli'[d] = cli[x] /\ cpc'[d] = cpc[x]
                                         /\ cpc[x] # "idle" => i'[d] = i[x]
    BY <1>a, <1>1 DEF ListedInv, List
  <2> QED BY <1>1, <1>3, <1>4
<1> QED BY <1>a, <1>1, <1>5, <1>6, <1>7, <1>8, <1>9 DEF UseInv, NoFault

\* Descriptors of the rest of the process are nobody's here.
LEMMA ForeignKeeps ==
  ASSUME TypeOK, UseInv, NEW f \in FDs, ForeignOpen(f) \/ ForeignClose(f)
  PROVE  UseInv'
<1>a. ClientHeldInv /\ ServerHeldInv /\ ParentInv /\ EntriesInv /\ ListedInv /\ faults = {}
  BY DEF UseInv, NoFault
<1>1. /\ UNCHANGED <<srv, cli, spc, cpc, i, faults>>
      /\ \A e \in FDs : holder[e] \in Servers \cup Clients => holder'[e] = holder[e]
  BY Names DEF ForeignOpen, ForeignClose
<1>2. ServerHeldInv'
  BY <1>a, <1>1 DEF ServerHeldInv
<1>3. \A c \in Clients : cli[c].state = "opened" /\ cli[c].parent # NULL
                           => srv'[cli[c].parent].live
  BY <1>a, <1>1 DEF ParentInv
<1>4. ClientHeldInv' /\ ParentInv' /\ EntriesInv' /\ ListedInv'
  BY <1>a, <1>1, <1>3, ServerFrame
<1> QED BY <1>a, <1>1, <1>2, <1>4 DEF UseInv, NoFault

\* Every action keeps the invariant of serialised use.
LEMMA UseNext ==
  ASSUME SerialUse
  PROVE  TypeOK /\ OwnInv /\ NoLeak /\ UseInv /\ [Next]_vars => UseInv'
<1> SUFFICES ASSUME TypeOK, OwnInv, NoLeak, UseInv, [Next]_vars PROVE UseInv'
  OBVIOUS
<1>1. ASSUME NEW s \in Servers,
             \/ ServerOpen(s) \/ ServerClose(s) \/ ServerCloseFd(s) \/ ServerCloseInval(s)
             \/ ServerDestroy(s) \/ ServerConstruct(s)
             \/ \E to \in Servers \ {s} : ServerMove(s, to)
      PROVE  UseInv'
  BY <1>1, ServerKeeps
<1>2. ASSUME NEW s \in Servers, Accept(s) PROVE UseInv'
  BY <1>2, QuietStep DEF Accept
<1>3. ASSUME NEW s \in Servers, AcceptStep(s) PROVE UseInv'
  <2>1. CASE AcceptPoll(s) \/ AcceptReady(s) \/ AcceptTimeout(s) \/ AcceptFails(s)
             \/ AcceptReturned(s)
    BY <2>1, QuietStep DEF AcceptPoll, AcceptReady, AcceptTimeout, AcceptFails, AcceptReturned
  <2>2. ASSUME NEW c \in Clients, NEW f \in FDs, AcceptConnection(s, c, f) PROVE UseInv'
    BY <2>2, AcceptKeeps
  <2> QED BY <1>3, <2>1, <2>2 DEF AcceptStep
<1>4. ASSUME NEW c \in Clients, NEW destructor \in BOOLEAN, ClientClose(c, destructor)
      PROVE  UseInv'
  BY <1>4, ClientCloseKeeps
<1>5. ASSUME NEW c \in Clients, ClientCloseStep(c) PROVE UseInv'
  BY <1>5, ClientScanKeeps, ClientEraseKeeps, ClientBaseCloseKeeps DEF ClientCloseStep
<1>6. ASSUME NEW c \in Clients, ClientConstruct(c) \/ ClientOpen(c) PROVE UseInv'
  BY <1>6, ClientStartKeeps
<1>7. ASSUME NEW c \in Clients, NEW to \in Clients \ {c}, ClientMove(c, to) PROVE UseInv'
  BY <1>7, ClientMoveKeeps
<1>8. ASSUME NEW f \in FDs, ForeignOpen(f) \/ ForeignClose(f) PROVE UseInv'
  BY <1>8, ForeignKeeps
<1>9. CASE UNCHANGED vars
  BY <1>9, QuietStep DEF vars
<1> QED BY <1>1, <1>2, <1>3, <1>4, <1>5, <1>6, <1>7, <1>8, <1>9 DEF Next

\* Objects, lists and the kernel's table agree throughout a serialised use.
LEMMA UseInvariance ==
  ASSUME SerialUse
  PROVE  Spec => [](TypeOK /\ OwnInv /\ NoLeak /\ UseInv)
<1>1. Init => TypeOK /\ OwnInv /\ NoLeak /\ UseInv
  BY TypeInit, OwnInit, UseInit
<1>2. (TypeOK /\ OwnInv /\ NoLeak /\ UseInv) /\ [Next]_vars
        => (TypeOK /\ OwnInv /\ NoLeak /\ UseInv)'
  BY TypeNext, OwnNext, UseNext
<1> QED BY <1>1, <1>2, PTL DEF Spec

\* Callers that close clients one at a time and destroy or move a server only
\* when its clients are closed never make the library close a descriptor that
\* is not theirs, read a destroyed server or erase outside the list.
THEOREM NoFaultHolds ==
  ASSUME SerialUse
  PROVE  Spec => []NoFault
<1>1. TypeOK /\ OwnInv /\ NoLeak /\ UseInv => NoFault
  BY DEF UseInv
<1> QED BY <1>1, UseInvariance, PTL

\* Under the same use, whenever no client is inside close(), accept_clients of
\* every server is exactly the list of its open connections, each once.
THEOREM AcceptedListExact ==
  ASSUME SerialUse
  PROVE  Spec => []AcceptedListIsExact
<1>1. TypeOK /\ OwnInv /\ NoLeak /\ UseInv => AcceptedListIsExact
  <2> SUFFICES ASSUME TypeOK, OwnInv, NoLeak, UseInv, NoClientCloses, NEW s \in Servers
               PROVE  /\ Range(srv[s].accept_clients) = Connections(s)
                      /\ \A j, k \in DOMAIN srv[s].accept_clients :
                           srv[s].accept_clients[j] = srv[s].accept_clients[k] => j = k
    BY DEF AcceptedListIsExact
  <2>a. EntriesInv /\ ListedInv /\ s # NULL
    BY Names DEF UseInv
  <2>1. ASSUME NEW j \in DOMAIN srv[s].accept_clients
        PROVE  srv[s].accept_clients[j] \in Connections(s)
    <3>1. /\ srv[s].accept_clients[j] \in FDs /\ holder[srv[s].accept_clients[j]] \in Clients
          /\ holder[srv[s].accept_clients[j]] \in AcceptedBy(s)
      BY <2>a, Lists DEF EntriesInv, AcceptedBy, OwnInv
    <3>2. cli[holder[srv[s].accept_clients[j]]].sock = srv[s].accept_clients[j]
      BY <3>1 DEF NoLeak
    <3> QED BY <3>1, <3>2 DEF Connections
  <2>2. ASSUME NEW c \in AcceptedBy(s)
        PROVE  \E j \in DOMAIN srv[s].accept_clients : srv[s].accept_clients[j] = cli[c].sock
    BY <2>a DEF ListedInv, List, AcceptedBy, NoClientCloses
  <2>3. Range(srv[s].accept_clients) \subseteq Connections(s)
    BY <2>1 DEF Range
  <2>4. Connections(s) \subseteq Range(srv[s].accept_clients)
    BY <2>2 DEF Range, Connections
  <2> QED BY <2>a, <2>3, <2>4 DEF EntriesInv
<1> QED BY <1>1, UseInvariance, PTL

=============================================================================
