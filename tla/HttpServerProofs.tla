-------------------------- MODULE HttpServerProofs --------------------------
(***************************************************************************)
(* A theorem about HttpServer, for every number of connections, tasks and  *)
(* descriptors.  What the steps of TcpServer do to the fields of objects   *)
(* is taken from TcpServerProofs; nothing is assumed of how its objects    *)
(* are used.                                                               *)
(***************************************************************************)
EXTENDS HttpServer, TcpServerProofs

USE ServerAssumption

-----------------------------------------------------------------------------
(* The inductive invariant *)

Threads == {"worker", "stopper"}

\* Where the threads are.
ThreadsOK ==
  /\ worker \in {"loop", "open", "accept_loop", "accept", "wait", "done"} \cup InOpen
  /\ stopper \in {"idle", "close", "join", "gone"}
  /\ tasks \subseteq Clients
  /\ task \in [Clients -> {"none", "recv", "respond", "close", "closing",
                           "destroy", "destroying", "done"}]
  /\ closing \in [Threads -> {"no", "test", "mark", "fd", "inval"}]
  /\ fd \in FDs \cup {INVALID_SOCKET} /\ overlapped \in BOOLEAN /\ must_die \in BOOLEAN

\* The worker knows every task that is not erased, and leaves its inner loop
\* only when it has waited for them.
KnownInv ==
  /\ \A c \in Clients : task[c] # "none" => c \in tasks
  /\ worker \in {"loop", "open", "done"} \cup InOpen => tasks = {}

\* A client object that lives belongs to a task which has still to close it, or
\* accept() has just returned it to the worker.
JustAccepted(c) ==
  task[c] = "none" /\ worker = "accept" /\ apc[server_socket] = "returned"
  /\ c \in AcceptedBy(server_socket)
OwnedInv ==
  \A c \in Clients : cli[c].live => task[c] \notin {"none", "done"} \/ JustAccepted(c)

\* The last close() of a task is the one of the destructor.
DyingInv == \A c \in Clients : task[c] = "destroying" => c \in dying

\* A descriptor of a connection is the one of an opened client object.
ConnectionInv ==
  \A f \in FDs, c \in Clients :
    holder[f] = c => cli[c].live /\ cli[c].state = "opened" /\ cli[c].sock = f

TasksInv == KnownInv /\ OwnedInv /\ DyingInv /\ ConnectionInv

\* server_socket is the only server, and it is gone with the object; nothing
\* else in the process opens descriptors.
State == srv[server_socket].state
AloneInv ==
  /\ \A s \in Servers \ {server_socket} : ~ srv[s].live
  /\ \A f \in FDs : holder[f] \in {"free", server_socket} \cup Clients
  /\ stopper = "gone" => worker = "done" /\ State = "created"

\* Who is in close(), and that the worker leaves its inner loop, and closes an
\* opened socket, only when it has to stop.
StopInv ==
  /\ stopper # "close" => closing["stopper"] = "no"
  /\ stopper # "idle" \/ overlapped \/ worker = "wait" => must_die
  /\ worker # "cleanup" => closing["worker"] = "no"
  /\ worker \in {"listen", "accept_loop", "accept"} /\ ~ must_die => State = "opened"

\* A descriptor the socket has and ought to close.
Kept(f) == holder[f] = server_socket /\ f \notin abandoned

\* While open() and the close() of stop() have not overlapped, such a descriptor
\* is in `sock', and the state, or the thread that has changed it, will lead to
\* its closesocket().
WillClose(f) ==
  worker = "store" \/ (Sock = f /\ (State # "created" \/ \E t \in Threads : closing[t] = "fd"))
OverlapInv ==
  ~ overlapped =>
    /\ worker \in InOpen => closing["stopper"] \in {"no", "test"}
    /\ worker \in InOpen \ {"cleanup"} => State # "created"
    /\ \A t \in Threads : closing[t] \in {"fd", "inval"} => State = "created"
    /\ \A f \in FDs : Kept(f) => WillClose(f) /\ \A t \in Threads : closing[t] # "inval"

\* There is at most one, of the last socket(), and none before the next.
KeptInv ==
  /\ \A f \in FDs : Kept(f) => f = fd
  /\ worker \in {"open", "socket"} \/ (worker = "loop" /\ ~ must_die)
       => \A f \in FDs : ~ Kept(f)

SocketInv == StopInv /\ OverlapInv /\ KeptInv

HttpInv == ThreadsOK /\ TasksInv /\ AloneInv /\ SocketInv

-----------------------------------------------------------------------------
(* open() and close() of server_socket *)

\* An assignment to one field of server_socket.
Assigned(state, sock) ==
  /\ OtherServers(server_socket)
  /\ srv'[server_socket].live = srv[server_socket].live
  /\ srv'[server_socket].state = state /\ srv'[server_socket].sock = sock

\* state = ...
LEMMA AssignState ==
  ASSUME TypeOK, NEW q \in {"created", "prepared", "opened"},
         srv' = [srv EXCEPT ![server_socket].state = q]
  PROVE  Assigned(q, Sock)
<1>1. srv \in [Servers -> ServerRecord]
  BY Records
<1>2. srv' \in [Servers -> ServerRecord]
  BY <1>1, ServerFields
<1> QED BY <1>1, <1>2 DEF Assigned, OtherServers, ServerRecord, Sock

\* sock = ...
LEMMA AssignSock ==
  ASSUME TypeOK, NEW d \in FDs \cup {INVALID_SOCKET},
         srv' = [srv EXCEPT ![server_socket].sock = d]
  PROVE  Assigned(State, d)
<1>1. srv \in [Servers -> ServerRecord]
  BY Records
<1>2. srv' \in [Servers -> ServerRecord]
  BY <1>1, ServerFields
<1> QED BY <1>1, <1>2 DEF Assigned, OtherServers, ServerRecord, State

\* No field is assigned.
LEMMA AssignNone ==
  ASSUME TypeOK, UNCHANGED srv
  PROVE  Assigned(State, Sock)
BY Records DEF Assigned, OtherServers, State, Sock

\* What a step inside open() or close() does to the fields, to the descriptors
\* and to the other objects.
LibraryFrame ==
  /\ \E q \in {"created", "prepared", "opened"}, d \in FDs \cup {INVALID_SOCKET} : Assigned(q, d)
  /\ \A f \in FDs : holder'[f] \in {"free", server_socket, holder[f]}
  /\ holder' \in [FDs -> {"free", "foreign"} \cup Servers \cup Clients]
  /\ faults' \subseteq {"stray_close", "dangling", "bad_erase"}
  /\ UNCHANGED <<cli, apc, spc, cpc, i, dying, out>>

\* The steps of close().
LEMMA CloseEffect ==
  ASSUME TypeOK, ThreadsOK, NEW t \in Threads, CloseStep(t)
  PROVE  /\ LibraryFrame
         /\ UNCHANGED <<must_die, tasks, task, fd, abandoned>>
         /\ \/ /\ CloseTest(t) /\ Assigned(State, Sock) /\ UNCHANGED holder
            \/ /\ CloseMark(t) /\ Assigned("created", Sock) /\ UNCHANGED holder
            \/ /\ CloseFd(t) /\ Assigned(State, Sock)
               /\ holder' = [f \in FDs |-> IF f = Sock THEN "free" ELSE holder[f]]
            \/ /\ CloseInval(t) /\ Assigned(State, INVALID_SOCKET) /\ UNCHANGED holder
<1>1. State \in {"created", "prepared", "opened"} /\ Sock \in FDs \cup {INVALID_SOCKET}
  BY Records DEF State, Sock
<1>2. /\ holder \in [FDs -> {"free", "foreign"} \cup Servers \cup Clients]
      /\ faults \subseteq {"stray_close", "dangling", "bad_erase"}
  BY DEF TypeOK
<1>3. UNCHANGED <<must_die, tasks, task, fd, abandoned>>
  BY DEF CloseStep
<1>4. CASE CloseTest(t)
  <2>1. UNCHANGED vars
    BY <1>4 DEF CloseTest
  <2>2. Assigned(State, Sock)
    BY <2>1, AssignNone DEF vars
  <2> QED BY <1>1, <1>2, <1>3, <1>4, <2>1, <2>2 DEF LibraryFrame, vars
<1>5. CASE CloseMark(t)
  <2>1. Assigned("created", Sock)
    BY <1>5, AssignState DEF CloseMark
  <2>2. UNCHANGED <<cli, holder, apc, spc, cpc, i, dying, out, faults>>
    BY <1>5 DEF CloseMark
  <2> QED BY <1>1, <1>2, <1>3, <1>5, <2>1, <2>2 DEF LibraryFrame
<1>6. CASE CloseFd(t)
  <2>1. UNCHANGED <<srv, cli, apc, spc, cpc, i, dying, out>> /\ closesocket({Sock}, {server_socket})
    BY <1>6 DEF CloseFd
  <2>2. Assigned(State, Sock)
    BY <2>1, AssignNone
  <2>3. holder' = [f \in FDs |-> IF f = Sock THEN "free" ELSE holder[f]]
    BY <2>1 DEF closesocket
  <2>4. /\ holder' \in [FDs -> {"free", "foreign"} \cup Servers \cup Clients]
        /\ faults' \subseteq {"stray_close", "dangling", "bad_erase"}
    BY <2>1, CloseType
  <2>5. \A f \in FDs : holder'[f] \in {"free", server_socket, holder[f]}
    BY <2>3
  <2> QED BY <1>1, <1>3, <1>6, <2>1, <2>2, <2>3, <2>4, <2>5 DEF LibraryFrame
<1>7. CASE CloseInval(t)
  <2>1. Assigned(State, INVALID_SOCKET)
    BY <1>7, AssignSock DEF CloseInval
  <2>2. UNCHANGED <<cli, holder, apc, spc, cpc, i, dying, out, faults>>
    BY <1>7 DEF CloseInval
  <2> QED BY <1>1, <1>2, <1>3, <1>7, <2>1, <2>2 DEF LibraryFrame
<1> QED BY <1>4, <1>5, <1>6, <1>7 DEF CloseStep

\* The steps of open().
LEMMA OpenEffect ==
  ASSUME TypeOK, ThreadsOK, WorkerInOpen
  PROVE  LibraryFrame /\ UNCHANGED <<must_die, tasks, task, stopper>>
<1>1. State \in {"created", "prepared", "opened"} /\ Sock \in FDs \cup {INVALID_SOCKET}
  BY Records DEF State, Sock
<1>2. /\ holder \in [FDs -> {"free", "foreign"} \cup Servers \cup Clients]
      /\ faults \subseteq {"stray_close", "dangling", "bad_erase"}
      /\ fd \in FDs \cup {INVALID_SOCKET}
  BY DEF TypeOK, ThreadsOK
<1>3. CASE WorkerOpens
  <2>1. UNCHANGED <<cli, holder, apc, spc, cpc, i, dying, out, faults, must_die, tasks, task, stopper>>
    BY <1>3 DEF WorkerOpens
  <2>2. Assigned("prepared", Sock) \/ Assigned(State, Sock)
    BY <1>3, AssignState, AssignNone DEF WorkerOpens
  <2> QED BY <1>1, <1>2, <2>1, <2>2 DEF LibraryFrame
<1>4. CASE WorkerSocket
  <2>1. UNCHANGED <<srv, cli, apc, spc, cpc, i, dying, out, faults, must_die, tasks, task, stopper>>
    BY <1>4 DEF WorkerSocket
  <2>2. /\ holder' \in [FDs -> {"free", "foreign"} \cup Servers \cup Clients]
        /\ \A f \in FDs : holder'[f] \in {"free", server_socket, holder[f]}
    BY <1>2, <1>4 DEF WorkerSocket, Free
  <2>3. Assigned(State, Sock)
    BY <2>1, AssignNone
  <2> QED BY <1>1, <1>2, <2>1, <2>2, <2>3 DEF LibraryFrame
<1>5. CASE WorkerStores
  <2>1. /\ UNCHANGED <<cli, holder, apc, spc, cpc, i, dying, out, faults, must_die, tasks, task, stopper>>
        /\ srv' = [srv EXCEPT ![server_socket].sock = fd]
    BY <1>5 DEF WorkerStores
  <2>2. Assigned(State, fd)
    BY <1>2, <2>1, AssignSock
  <2> QED BY <1>1, <1>2, <2>1, <2>2 DEF LibraryFrame
<1>6. CASE WorkerChecks
  <2>1. UNCHANGED <<cli, holder, apc, spc, cpc, i, dying, out, faults, must_die, tasks, task, stopper>>
    BY <1>6 DEF WorkerChecks
  <2>2. Assigned("created", Sock) \/ Assigned(State, Sock)
    BY <1>6, AssignState, AssignNone DEF WorkerChecks
  <2> QED BY <1>1, <1>2, <2>1, <2>2 DEF LibraryFrame
<1>7. CASE WorkerOptions \/ WorkerBinds \/ WorkerListens
  <2>1. UNCHANGED <<vars, must_die, tasks, task, stopper>>
    BY <1>7 DEF WorkerOptions, WorkerBinds, WorkerListens
  <2>2. Assigned(State, Sock)
    BY <2>1, AssignNone DEF vars
  <2> QED BY <1>1, <1>2, <2>1, <2>2 DEF LibraryFrame, vars
<1>8. CASE WorkerOpened
  <2>1. UNCHANGED <<cli, holder, apc, spc, cpc, i, dying, out, faults, must_die, tasks, task, stopper>>
    BY <1>8 DEF WorkerOpened
  <2>2. Assigned("opened", Sock)
    BY <1>8, AssignState DEF WorkerOpened
  <2> QED BY <1>1, <1>2, <2>1, <2>2 DEF LibraryFrame
<1>9. CASE WorkerCleansUp
  BY <1>9, CloseEffect DEF WorkerCleansUp, Threads
<1> QED BY <1>3, <1>4, <1>5, <1>6, <1>7, <1>8, <1>9 DEF WorkerInOpen

-----------------------------------------------------------------------------
(* The steps of the library *)

\* Everything the threads do to sockets is a step of TcpServer, or of open() or
\* close() of server_socket.
LEMMA LibraryStep ==
  ASSUME TypeOK, ThreadsOK, [HttpNext]_allVars
  PROVE  [Next]_vars \/ LibraryFrame
<1>1. CASE UNCHANGED allVars
  BY <1>1 DEF allVars
<1>2. CASE WorkerProgress \/ WorkerAccepts
  <2>1. CASE WorkerLoop \/ WorkerLeaves \/ WorkerWaits
    BY <2>1 DEF WorkerLoop, WorkerLeaves, WorkerWaits
  <2>2. CASE WorkerAccept \/ WorkerSpawns \/ WorkerAccepts
             \/ InAccept(AcceptProgress(server_socket))
    <3>1. Accept(server_socket) \/ AcceptStep(server_socket)
      BY <2>2 DEF WorkerAccept, WorkerSpawns, WorkerAccepts, InAccept,
                  AcceptProgress, AcceptStep
    <3> QED BY <3>1 DEF Next
  <2>3. CASE WorkerInOpen
    BY <2>3, OpenEffect
  <2> QED BY <1>2, <2>1, <2>2, <2>3 DEF WorkerProgress
<1>3. ASSUME NEW c \in Clients, TaskReceives(c) \/ TaskProgress(c)
      PROVE  [Next]_vars
  <2>1. CASE TaskReceives(c) \/ TaskReceiveFails(c) \/ TaskResponds(c)
    BY <2>1 DEF TaskReceives, TaskReceiveFails, TaskResponds
  <2>2. CASE TaskCloses(c)
    <3>1. PICK destructor \in BOOLEAN : ClientClose(c, destructor)
      BY <2>2 DEF TaskCloses
    <3> QED BY <3>1 DEF Next
  <2>3. CASE TaskInClose(c)
    <3>1. ClientCloseStep(c)
      BY <2>3 DEF TaskInClose
    <3> QED BY <3>1 DEF Next
  <2> QED BY <1>3, <2>1, <2>2, <2>3 DEF TaskProgress
<1>4. CASE Stop \/ StopStep
  <2>1. CASE Stop
    BY <2>1 DEF Stop
  <2>2. CASE StopCloses
    BY <2>2, CloseEffect DEF StopCloses, Threads
  <2>3. CASE StopJoins
    <3>1. ServerDestroy(server_socket)
      BY <2>3 DEF StopJoins
    <3> QED BY <3>1 DEF Next
  <2> QED BY <1>4, <2>1, <2>2, <2>3 DEF StopStep
<1> QED BY <1>1, <1>2, <1>3, <1>4 DEF HttpNext

\* So the objects keep their types.
LEMMA LibraryNext ==
  ASSUME TypeOK, ThreadsOK, [HttpNext]_allVars
  PROVE  TypeOK'
<1>1. CASE [Next]_vars
  BY <1>1, TypeNext
<1>2. CASE LibraryFrame
  <2>1. srv' \in [Servers -> ServerRecord]
    BY <1>2 DEF LibraryFrame, Assigned, OtherServers
  <2> QED BY <1>2, <2>1 DEF LibraryFrame, TypeOK, ServerRecord
<1> QED BY <1>1, <1>2, LibraryStep

-----------------------------------------------------------------------------
(* What is known of server_socket and its descriptors *)

\* A step outside open() and close() of server_socket.
LEMMA SocketFrame ==
  ASSUME SocketInv, UNCHANGED <<State, Sock, stopper, must_die, local>>,
         \A f \in FDs : holder'[f] = server_socket => holder[f] = server_socket,
         \/ UNCHANGED worker
         \/ worker = "loop" /\ worker' = IF must_die THEN "done" ELSE "open"
         \/ worker \in {"accept_loop", "accept"} /\ worker' \in {"accept_loop", "accept"}
         \/ worker = "accept_loop" /\ worker' = "wait" /\ (must_die \/ State # "opened")
         \/ worker = "wait" /\ worker' = "loop"
  PROVE  SocketInv'
<1>1. StopInv /\ OverlapInv /\ KeptInv
  BY DEF SocketInv
<1>2. \A f \in FDs : Kept(f)' => Kept(f)
  BY DEF Kept, local
<1>3. StopInv'
  BY <1>1 DEF StopInv, local
<1>4. worker' \in InOpen => worker' = worker
  BY DEF InOpen
<1>5. OverlapInv'
  BY <1>1, <1>2, <1>4 DEF OverlapInv, WillClose, local, InOpen
<1>6. KeptInv'
  BY <1>1, <1>2 DEF KeptInv, StopInv, local
<1> QED BY <1>3, <1>5, <1>6 DEF SocketInv

\* close(), called by stop() or by the worker.
CallsClose(t) ==
  \/ /\ t = "worker" /\ worker = "cleanup" /\ UNCHANGED stopper
     /\ worker' = IF closing'["worker"] = "no" THEN "loop" ELSE "cleanup"
  \/ /\ t = "stopper" /\ stopper = "close" /\ UNCHANGED worker
     /\ stopper' = IF closing'["stopper"] = "no" THEN "join" ELSE "close"

\* The two threads are never both past the test unless the calls overlap, and
\* then closesocket() frees what is in `sock'.
LEMMA CloseKeepsSocket ==
  ASSUME TypeOK, ThreadsOK, SocketInv, NEW t \in Threads, CloseStep(t), CallsClose(t)
  PROVE  SocketInv'
<1>a. StopInv /\ OverlapInv /\ KeptInv
  BY DEF SocketInv
<1>b. /\ closing \in [Threads -> {"no", "test", "mark", "fd", "inval"}]
      /\ overlapped \in BOOLEAN /\ must_die \in BOOLEAN
      /\ holder \in [FDs -> {"free", "foreign"} \cup Servers \cup Clients]
      /\ "free" \notin Servers /\ INVALID_SOCKET \notin FDs
  <2>1. "free" \notin Servers /\ INVALID_SOCKET \notin FDs
    BY ObjectAssumption
  <2> QED BY <2>1 DEF ThreadsOK, TypeOK
<1>c. UNCHANGED <<must_die, fd, abandoned>>
  BY CloseEffect
<1>d. t = "stopper" => must_die
  BY <1>a DEF CallsClose, StopInv
<1>e. \A u \in Threads : u = "worker" \/ u = "stopper"
  BY DEF Threads
<1>f. ~ overlapped /\ closing[t] # "test" =>
        /\ \A u \in Threads \ {t} : closing[u] \in {"no", "test"}
        /\ t = "stopper" => worker \notin InOpen
  BY <1>a, <1>e DEF OverlapInv, StopInv, CallsClose, InOpen, Threads, CloseStep, CloseTest,
                    CloseMark, CloseFd, CloseInval
<1>1. CASE CloseTest(t) /\ Assigned(State, Sock) /\ UNCHANGED holder
  <2>1. /\ closing[t] = "test" /\ UNCHANGED <<State, Sock>>
        /\ closing' = [closing EXCEPT ![t] = IF State = "created" THEN "no" ELSE "mark"]
        /\ overlapped' = (overlapped \/ (t = "stopper" /\ worker \in InOpen))
    BY <1>1 DEF CloseTest, Assigned, State, Sock
  <2>2. \A f \in FDs : Kept(f)' <=> Kept(f)
    BY <1>1, <1>c DEF Kept
  <2>3. closing'[t] \in {"no", "mark"} /\ \A u \in Threads \ {t} : closing'[u] = closing[u]
    BY <1>b, <2>1
  <2>4. StopInv'
    BY <1>a, <1>b, <1>c, <1>d, <2>1, <2>3 DEF StopInv, CallsClose, Threads, InOpen
  <2>5. ~ overlapped' => ~ overlapped /\ (t = "stopper" => worker \notin InOpen)
    BY <1>b, <2>1
  <2>6. \A f \in FDs : WillClose(f) => WillClose(f)'
    BY <2>1, <2>3 DEF WillClose, CallsClose
  <2>7. OverlapInv'
    BY <1>a, <1>b, <2>1, <2>2, <2>3, <2>5, <2>6 DEF OverlapInv, CallsClose, Threads, InOpen
  <2>8. ASSUME worker' = "loop", ~ must_die, NEW f \in FDs, Kept(f) PROVE FALSE
    <3>1. t = "worker" \/ worker = "loop"
      BY <2>8 DEF CallsClose
    <3>2. CASE t = "worker"
      <4>1. ~ overlapped /\ worker = "cleanup" /\ State = "created"
        BY <1>a, <1>b, <2>1, <2>8, <3>2 DEF StopInv, CallsClose
      <4>2. WillClose(f) /\ closing["stopper"] \in {"no", "test"}
        BY <1>a, <2>8, <4>1 DEF OverlapInv, InOpen
      <4> QED BY <1>e, <2>1, <3>2, <4>1, <4>2 DEF WillClose
    <3>3. CASE worker = "loop"
      BY <1>a, <2>8, <3>3 DEF KeptInv
    <3> QED BY <3>1, <3>2, <3>3
  <2>9. KeptInv'
    BY <1>a, <1>c, <2>2, <2>8 DEF KeptInv, CallsClose
  <2> QED BY <2>4, <2>7, <2>9 DEF SocketInv
<1>2. CASE CloseMark(t) /\ Assigned("created", Sock) /\ UNCHANGED holder
  <2>1. /\ closing[t] = "mark" /\ State' = "created" /\ UNCHANGED <<Sock, overlapped>>
        /\ closing' = [closing EXCEPT ![t] = "fd"]
    BY <1>2 DEF CloseMark, Assigned, State, Sock
  <2>2. \A f \in FDs : Kept(f)' <=> Kept(f)
    BY <1>2, <1>c DEF Kept
  <2>3. closing'[t] = "fd" /\ \A u \in Threads \ {t} : closing'[u] = closing[u]
    BY <1>b, <2>1
  <2>4. UNCHANGED <<worker, stopper>>
    BY <2>3 DEF CallsClose
  <2>5. StopInv'
    BY <1>a, <1>b, <1>c, <1>d, <2>1, <2>3, <2>4 DEF StopInv, CallsClose, Threads
  <2>6. \A f \in FDs : WillClose(f) => WillClose(f)'
    BY <2>1, <2>3, <2>4 DEF WillClose
  <2>7. OverlapInv'
    BY <1>a, <1>b, <1>f, <2>1, <2>2, <2>3, <2>4, <2>6 DEF OverlapInv, CallsClose, Threads, InOpen
  <2>8. KeptInv'
    BY <1>a, <1>c, <2>2, <2>4 DEF KeptInv
  <2> QED BY <2>5, <2>7, <2>8 DEF SocketInv
<1>3. CASE /\ CloseFd(t) /\ Assigned(State, Sock)
           /\ holder' = [f \in FDs |-> IF f = Sock THEN "free" ELSE holder[f]]
  <2>1. /\ closing[t] = "fd" /\ UNCHANGED <<State, Sock, overlapped>>
        /\ closing' = [closing EXCEPT ![t] = "inval"]
    BY <1>3 DEF CloseFd, Assigned, State, Sock
  <2>2. \A f \in FDs : Kept(f)' => Kept(f) /\ f # Sock
    BY <1>3, <1>b, <1>c DEF Kept
  <2>3. closing'[t] = "inval" /\ \A u \in Threads \ {t} : closing'[u] = closing[u]
    BY <1>b, <2>1
  <2>4. UNCHANGED <<worker, stopper>>
    BY <2>3 DEF CallsClose
  <2>5. StopInv'
    BY <1>a, <1>b, <1>c, <1>d, <2>1, <2>3, <2>4 DEF StopInv, CallsClose, Threads
  <2>6. ASSUME ~ overlapped, NEW f \in FDs, Kept(f)' PROVE FALSE
    <3>1. WillClose(f) /\ f # Sock
      BY <1>a, <2>2, <2>6 DEF OverlapInv
    <3>2. worker # "store"
      BY <1>f, <2>1, <2>6 DEF CallsClose, InOpen
    <3> QED BY <3>1, <3>2 DEF WillClose
  <2>7. OverlapInv'
    BY <1>a, <1>b, <1>f, <2>1, <2>3, <2>4, <2>6 DEF OverlapInv, CallsClose, Threads, InOpen
  <2>8. KeptInv'
    BY <1>a, <1>c, <2>2, <2>4 DEF KeptInv
  <2> QED BY <2>5, <2>7, <2>8 DEF SocketInv
<1>4. CASE CloseInval(t) /\ Assigned(State, INVALID_SOCKET) /\ UNCHANGED holder
  <2>1. /\ closing[t] = "inval" /\ UNCHANGED <<State, overlapped>>
        /\ closing' = [closing EXCEPT ![t] = "no"]
    BY <1>4 DEF CloseInval, Assigned, State
  <2>2. \A f \in FDs : Kept(f)' <=> Kept(f)
    BY <1>4, <1>c DEF Kept
  <2>3. closing'[t] = "no" /\ \A u \in Threads \ {t} : closing'[u] = closing[u]
    BY <1>b, <2>1
  <2>4. StopInv'
    BY <1>a, <1>b, <1>c, <1>d, <2>1, <2>3 DEF StopInv, CallsClose, Threads
  <2>5. ASSUME ~ overlapped, NEW f \in FDs, Kept(f) PROVE FALSE
    BY <1>a, <2>1, <2>5 DEF OverlapInv
  <2>6. OverlapInv'
    BY <1>a, <1>b, <1>f, <2>1, <2>2, <2>3, <2>5 DEF OverlapInv, CallsClose, Threads, InOpen
  <2>7. ~ must_die => ~ overlapped
    BY <1>a DEF StopInv
  <2>8. KeptInv'
    BY <1>a, <1>c, <2>2, <2>5, <2>7 DEF KeptInv, CallsClose
  <2> QED BY <2>4, <2>6, <2>8 DEF SocketInv
<1> QED BY <1>1, <1>2, <1>3, <1>4, CloseEffect

\* open(): socket() makes the one descriptor there is to close, it gets into
\* `sock', and every way out of open() closes or abandons it, unless a close()
\* has come between.
LEMMA OpenKeepsSocket ==
  ASSUME TypeOK, ThreadsOK, SocketInv, WorkerInOpen
  PROVE  SocketInv'
<1>a. StopInv /\ OverlapInv /\ KeptInv
  BY DEF SocketInv
<1>b. /\ closing \in [Threads -> {"no", "test", "mark", "fd", "inval"}]
      /\ overlapped \in BOOLEAN /\ must_die \in BOOLEAN
      /\ holder \in [FDs -> {"free", "foreign"} \cup Servers \cup Clients]
      /\ fd \in FDs \cup {INVALID_SOCKET}
      /\ Sock \in FDs \cup {INVALID_SOCKET}
  BY Records DEF ThreadsOK, TypeOK, Sock
<1>c. INVALID_SOCKET \notin FDs /\ \A u \in Threads : u = "worker" \/ u = "stopper"
  <2>1. INVALID_SOCKET \notin FDs
    BY ObjectAssumption
  <2> QED BY <2>1 DEF Threads
<1>d. worker # "cleanup" => closing["worker"] = "no"
  BY <1>a DEF StopInv
<1>1. CASE WorkerOpens
  <2>1. /\ worker = "open" /\ UNCHANGED <<must_die, stopper, fd, closing, abandoned, holder>>
        /\ overlapped' = (overlapped \/ closing["stopper"] \notin {"no", "test"})
        /\ \/ State = "opened" /\ UNCHANGED srv /\ worker' = "loop"
           \/ srv' = [srv EXCEPT ![server_socket].state = "prepared"] /\ worker' = "socket"
    BY <1>1 DEF WorkerOpens, State
  <2>2. \A f \in FDs : ~ Kept(f) /\ ~ Kept(f)'
    BY <1>a, <2>1 DEF KeptInv, Kept
  <2>3. worker' = "socket" => State' = "prepared"
    BY <2>1, AssignState DEF Assigned, State
  <2>4. State' = "created" => State = "created"
    BY <2>1, <2>3 DEF State
  <2>5. StopInv'
    BY <1>a, <2>1 DEF StopInv
  <2>6. OverlapInv'
    BY <1>a, <1>b, <1>c, <1>d, <2>1, <2>2, <2>3, <2>4 DEF OverlapInv, InOpen, State
  <2>7. KeptInv'
    BY <2>2 DEF KeptInv
  <2> QED BY <2>5, <2>6, <2>7 DEF SocketInv
<1>2. CASE WorkerSocket
  <2>1. /\ worker = "socket" /\ worker' = "store"
        /\ UNCHANGED <<srv, must_die, stopper, closing, overlapped>>
    BY <1>2 DEF WorkerSocket
  <2>2. \A f \in FDs : Kept(f)' => f = fd'
    <3>1. \A f \in FDs : ~ Kept(f)
      BY <1>a, <2>1 DEF KeptInv
    <3> QED BY <1>2, <1>b, <3>1 DEF WorkerSocket, Kept, Free
  <2>3. StopInv'
    BY <1>a, <2>1 DEF StopInv, State
  <2>4. ~ overlapped => \A u \in Threads : closing[u] # "inval"
    BY <1>a, <1>c, <1>d, <2>1 DEF OverlapInv, InOpen
  <2>5. OverlapInv'
    BY <1>a, <2>1, <2>4 DEF OverlapInv, InOpen, State, WillClose
  <2>6. KeptInv'
    BY <2>1, <2>2 DEF KeptInv
  <2> QED BY <2>3, <2>5, <2>6 DEF SocketInv
<1>3. CASE WorkerStores
  <2>1. /\ worker = "store" /\ worker' = "check" /\ UNCHANGED <<must_die, stopper, local, holder>>
        /\ srv' = [srv EXCEPT ![server_socket].sock = fd]
    BY <1>3 DEF WorkerStores
  <2>2. UNCHANGED State /\ Sock' = fd
    BY <1>b, <2>1, AssignSock DEF Assigned, State, Sock
  <2>3. \A f \in FDs : Kept(f)' => Kept(f) /\ f = fd
    BY <1>a, <2>1 DEF KeptInv, Kept, local
  <2>4. StopInv'
    BY <1>a, <2>1, <2>2 DEF StopInv, local
  <2>5. OverlapInv'
    BY <1>a, <2>1, <2>2, <2>3 DEF OverlapInv, InOpen, WillClose, local
  <2>6. KeptInv'
    BY <2>1, <2>3 DEF KeptInv, local
  <2> QED BY <2>4, <2>5, <2>6 DEF SocketInv
<1>4. CASE WorkerChecks
  <2>1. /\ worker = "check" /\ UNCHANGED <<must_die, stopper, local, holder>>
        /\ \/ /\ fd = INVALID_SOCKET \/ Sock = INVALID_SOCKET
              /\ srv' = [srv EXCEPT ![server_socket].state = "created"] /\ worker' = "loop"
           \/ UNCHANGED srv /\ worker' = "options"
    BY <1>4 DEF WorkerChecks
  <2>2. UNCHANGED Sock /\ (worker' = "loop" => State' = "created") /\ (worker' # "loop" => UNCHANGED State)
    BY <2>1, AssignState DEF Assigned, State, Sock
  <2>3. \A f \in FDs : Kept(f)' => Kept(f) /\ f = fd
    BY <1>a, <2>1 DEF KeptInv, Kept, local
  <2>4. ASSUME ~ overlapped, NEW f \in FDs, Kept(f) PROVE worker' = "options"
    <3>1. Sock = f /\ fd = f
      BY <1>a, <2>1, <2>4 DEF OverlapInv, WillClose, KeptInv
    <3> QED BY <1>c, <2>1, <3>1
  <2>5. StopInv'
    BY <1>a, <2>1, <2>2 DEF StopInv, local
  <2>6. ~ overlapped => \A u \in Threads : closing[u] \notin {"fd", "inval"}
    BY <1>a, <1>c, <1>d, <2>1 DEF OverlapInv, InOpen
  <2>7. OverlapInv'
    BY <1>a, <2>1, <2>2, <2>3, <2>4, <2>6 DEF OverlapInv, InOpen, WillClose, local
  <2>8. ~ must_die => ~ overlapped
    BY <1>a DEF StopInv
  <2>9. KeptInv'
    BY <2>1, <2>3, <2>4, <2>8 DEF KeptInv, local
  <2> QED BY <2>5, <2>7, <2>9 DEF SocketInv
<1>5. CASE WorkerOptions
  <2>1. /\ worker = "options" /\ worker' \in {"bind", "loop"}
        /\ UNCHANGED <<srv, holder, must_die, stopper, fd, closing, overlapped>>
        /\ abandoned \subseteq abandoned'
        /\ worker' = "loop" /\ Usable => Sock \in abandoned'
    BY <1>5 DEF WorkerOptions, vars
  <2>2. \A f \in FDs : Kept(f)' => Kept(f) /\ f = fd
    BY <1>a, <2>1 DEF KeptInv, Kept
  <2>3. ASSUME ~ overlapped, NEW f \in FDs, Kept(f)' PROVE worker' = "bind"
    <3>1. Sock = f /\ Usable
      BY <1>a, <2>1, <2>2, <2>3 DEF OverlapInv, WillClose, Usable, Kept
    <3> QED BY <2>1, <2>3, <3>1 DEF Kept
  <2>4. StopInv'
    BY <1>a, <2>1 DEF StopInv
  <2>5. OverlapInv'
    BY <1>a, <2>1, <2>2 DEF OverlapInv, InOpen, WillClose, State, Sock
  <2>6. ~ must_die => ~ overlapped
    BY <1>a DEF StopInv
  <2>7. KeptInv'
    BY <2>1, <2>2, <2>3, <2>6 DEF KeptInv
  <2> QED BY <2>4, <2>5, <2>7 DEF SocketInv
<1>6. CASE WorkerBinds \/ WorkerListens
  <2>1. /\ UNCHANGED <<srv, holder, must_die, stopper, fd, abandoned, overlapped>>
        /\ \/ worker = "bind" /\ worker' = "opened" /\ UNCHANGED closing
           \/ worker = "listen" /\ worker' = "accept_loop" /\ UNCHANGED closing
           \/ /\ worker \in {"bind", "listen"} /\ worker' = "cleanup"
              /\ closing' = [closing EXCEPT !["worker"] = "test"]
    BY <1>6 DEF WorkerBinds, WorkerListens, Succeeds, Fails, vars
  <2>2. /\ \A f \in FDs : Kept(f)' <=> Kept(f)
        /\ closing["worker"] = "no" /\ closing'["stopper"] = closing["stopper"]
        /\ closing'["worker"] = IF worker' = "cleanup" THEN "test" ELSE "no"
    BY <1>b, <1>d, <2>1 DEF Kept, Threads
  <2>3. StopInv'
    BY <1>a, <2>1, <2>2 DEF StopInv, State
  <2>4. \A f \in FDs : Kept(f) => (WillClose(f) => WillClose(f)')
    BY <1>c, <2>1, <2>2 DEF WillClose, State, Sock
  <2>5. OverlapInv'
    BY <1>a, <1>c, <2>1, <2>2, <2>4 DEF OverlapInv, InOpen, State
  <2>6. KeptInv'
    BY <1>a, <2>1, <2>2 DEF KeptInv
  <2> QED BY <2>3, <2>5, <2>6 DEF SocketInv
<1>7. CASE WorkerOpened
  <2>1. /\ worker = "opened" /\ worker' = "listen" /\ UNCHANGED <<must_die, stopper, local, holder>>
        /\ srv' = [srv EXCEPT ![server_socket].state = "opened"]
    BY <1>7 DEF WorkerOpened
  <2>2. UNCHANGED Sock /\ State' = "opened"
    BY <2>1, AssignState DEF Assigned, State, Sock
  <2>3. \A f \in FDs : Kept(f)' => Kept(f) /\ f = fd
    BY <1>a, <2>1 DEF KeptInv, Kept, local
  <2>4. StopInv'
    BY <1>a, <2>1, <2>2 DEF StopInv, local
  <2>5. ~ overlapped => \A u \in Threads : closing[u] \notin {"fd", "inval"}
    BY <1>a, <1>c, <1>d, <2>1 DEF OverlapInv, InOpen
  <2>6. OverlapInv'
    BY <1>a, <2>1, <2>2, <2>3, <2>5 DEF OverlapInv, InOpen, WillClose, local
  <2>7. KeptInv'
    BY <2>1, <2>3 DEF KeptInv, local
  <2> QED BY <2>4, <2>6, <2>7 DEF SocketInv
<1>8. CASE WorkerCleansUp
  BY <1>8, CloseKeepsSocket DEF WorkerCleansUp, CallsClose, Threads
<1> QED BY <1>1, <1>2, <1>3, <1>4, <1>5, <1>6, <1>7, <1>8 DEF WorkerInOpen

-----------------------------------------------------------------------------
(* The threads *)

\* Before the threads start.
LEMMA HttpInitInv == HttpInit => TypeOK /\ HttpInv
<1> SUFFICES ASSUME HttpInit PROVE TypeOK /\ HttpInv
  OBVIOUS
<1>1. Init /\ srv[server_socket].live
  BY DEF HttpInit
<1>2. PICK s \in Servers :
        srv = [x \in Servers |-> IF x = s THEN NewServer ELSE DeadServer]
  BY <1>1 DEF Init
<1>3. \A x \in Servers \ {server_socket} : ~ srv[x].live
  BY <1>1, <1>2, NewObjects
<1>4. \A c \in Clients : ~ cli[c].live
  BY <1>1, NewObjects DEF Init
<1>5. \A f \in FDs : holder[f] = "free" /\ "free" \notin Clients /\ "free" # server_socket
  BY <1>1, ObjectAssumption DEF Init
<1>6. ThreadsOK /\ KnownInv /\ DyingInv
  BY DEF HttpInit, ThreadsOK, KnownInv, DyingInv, Threads
<1>7. OwnedInv /\ ConnectionInv
  BY <1>4, <1>5 DEF OwnedInv, ConnectionInv
<1>8. AloneInv
  BY <1>3, <1>5 DEF HttpInit, AloneInv
<1>9. SocketInv
  BY <1>5 DEF HttpInit, SocketInv, StopInv, OverlapInv, KeptInv, Kept, InOpen, Threads
<1> QED BY <1>1, <1>6, <1>7, <1>8, <1>9, TypeInit DEF HttpInv, TasksInv

\* A step that leaves the client objects and the tasks alone, and the worker
\* outside accept(), keeps what is said about them.
LEMMA TasksFrame ==
  ASSUME TasksInv, UNCHANGED <<cli, tasks, task, dying>>,
         worker' \in {"loop", "open", "done"} \cup InOpen => tasks = {},
         \A c \in Clients : JustAccepted(c) => JustAccepted(c)',
         \A f \in FDs, c \in Clients : holder'[f] = c => holder[f] = c
  PROVE  TasksInv'
BY DEF TasksInv, KnownInv, OwnedInv, DyingInv, ConnectionInv

\* The names of the kernel are not names of objects.
LEMMA FreeIsNobody ==
  "free" \notin Clients /\ "free" # server_socket /\ server_socket \notin Clients
BY ObjectAssumption

\* A step of open() or close() of server_socket touches no task and no client.
LEMMA LibraryFrameKeeps ==
  ASSUME TypeOK, HttpInv, LibraryFrame, UNCHANGED <<tasks, task>>,
         worker' \in {"loop", "open", "done"} \cup InOpen => tasks = {},
         worker = "accept" => worker' = "accept",
         stopper' # "gone"
  PROVE  TasksInv' /\ AloneInv'
<1>1. TasksInv /\ AloneInv
  BY DEF HttpInv
<1>2. \A f \in FDs, c \in Clients : holder'[f] = c => holder[f] = c
  BY FreeIsNobody DEF LibraryFrame
<1>3. \A c \in Clients : JustAccepted(c) => JustAccepted(c)'
  BY DEF JustAccepted, AcceptedBy, LibraryFrame
<1>4. TasksInv'
  BY <1>1, <1>2, <1>3, TasksFrame DEF LibraryFrame
<1>5. AloneInv'
  BY <1>1 DEF AloneInv, LibraryFrame, Assigned, OtherServers
<1> QED BY <1>4, <1>5

\* open() keeps the invariant.
LEMMA OpenKeeps ==
  ASSUME TypeOK, HttpInv, WorkerInOpen
  PROVE  HttpInv'
<1>a. ThreadsOK /\ TasksInv /\ AloneInv /\ SocketInv
  BY DEF HttpInv
<1>b. LibraryFrame /\ UNCHANGED <<must_die, tasks, task, stopper>>
  BY <1>a, OpenEffect
<1>c. /\ worker \in {"open"} \cup InOpen
      /\ worker' \in {"loop", "accept_loop"} \cup InOpen
  BY DEF WorkerInOpen, WorkerOpens, WorkerSocket, WorkerStores, WorkerChecks, WorkerOptions,
         WorkerBinds, WorkerOpened, WorkerListens, WorkerCleansUp, Succeeds, Fails, InOpen
<1>d. /\ closing' \in [Threads -> {"no", "test", "mark", "fd", "inval"}]
      /\ fd' \in FDs \cup {INVALID_SOCKET} /\ overlapped' \in BOOLEAN
  <2>1. /\ closing \in [Threads -> {"no", "test", "mark", "fd", "inval"}]
        /\ fd \in FDs \cup {INVALID_SOCKET} /\ overlapped \in BOOLEAN
    BY <1>a DEF ThreadsOK
  <2>2. CASE WorkerCleansUp
    BY <2>1, <2>2 DEF WorkerCleansUp, CloseStep, CloseTest, CloseMark, CloseFd, CloseInval
  <2>3. CASE WorkerOpens \/ WorkerSocket
    BY <2>1, <2>3 DEF WorkerOpens, WorkerSocket, Free
  <2>4. CASE WorkerStores \/ WorkerChecks \/ WorkerOpened
    BY <2>1, <2>4 DEF WorkerStores, WorkerChecks, WorkerOpened, local
  <2>5. CASE WorkerOptions \/ WorkerBinds \/ WorkerListens
    BY <2>1, <2>5 DEF WorkerOptions, WorkerBinds, WorkerListens, Succeeds, Fails
  <2> QED BY <2>2, <2>3, <2>4, <2>5 DEF WorkerInOpen
<1>1. ThreadsOK'
  BY <1>a, <1>b, <1>c, <1>d DEF ThreadsOK
<1>2. stopper # "gone"
  BY <1>a, <1>c DEF AloneInv, InOpen
<1>3. tasks = {}
  BY <1>a, <1>c DEF TasksInv, KnownInv
<1>4. TasksInv' /\ AloneInv'
  BY <1>b, <1>c, <1>2, <1>3, LibraryFrameKeeps DEF InOpen
<1>5. SocketInv'
  BY <1>a, OpenKeepsSocket
<1> QED BY <1>1, <1>4, <1>5 DEF HttpInv

\* The worker keeps the invariant.
LEMMA WorkerKeeps ==
  ASSUME TypeOK, HttpInv, WorkerProgress \/ WorkerAccepts
  PROVE  HttpInv'
<1>a. ThreadsOK /\ TasksInv /\ AloneInv /\ SocketInv
  BY DEF HttpInv
<1>b. KnownInv /\ OwnedInv /\ DyingInv /\ ConnectionInv
  BY <1>a DEF TasksInv
<1>c. holder \in [FDs -> {"free", "foreign"} \cup Servers \cup Clients]
  BY DEF TypeOK
<1>1. CASE WorkerLoop \/ WorkerLeaves
  <2>1. /\ UNCHANGED <<srv, cli, holder, apc, dying, tasks, task, must_die, stopper, local>>
        /\ \/ worker = "loop" /\ worker' = IF must_die THEN "done" ELSE "open"
           \/ /\ worker = "accept_loop" /\ worker' = "wait"
              /\ must_die \/ State # "opened"
    BY <1>1 DEF WorkerLoop, WorkerLeaves, vars, State
  <2>2. TasksInv'
    <3>1. worker' \in {"loop", "open", "done"} \cup InOpen => tasks = {}
      BY <1>b, <2>1 DEF KnownInv, InOpen
    <3> QED BY <1>a, <2>1, <3>1, TasksFrame DEF JustAccepted
  <2>3. ThreadsOK' /\ AloneInv'
    BY <1>a, <2>1 DEF ThreadsOK, AloneInv, local, State
  <2>4. SocketInv'
    BY <1>a, <2>1, SocketFrame DEF State, Sock
  <2> QED BY <2>2, <2>3, <2>4 DEF HttpInv
<1>2. CASE WorkerInOpen
  BY <1>2, OpenKeeps
<1>3. CASE WorkerAccept
  <2>1. /\ UNCHANGED <<srv, cli, holder, dying, tasks, task, must_die, stopper, local>>
        /\ worker = "accept_loop" /\ worker' = "accept"
    BY <1>3 DEF WorkerAccept, Accept
  <2>2. TasksInv'
    BY <1>a, <2>1, TasksFrame DEF JustAccepted, InOpen
  <2>3. ThreadsOK' /\ AloneInv'
    BY <1>a, <2>1 DEF ThreadsOK, AloneInv, local, State
  <2>4. SocketInv'
    BY <1>a, <2>1, SocketFrame DEF State, Sock
  <2> QED BY <2>2, <2>3, <2>4 DEF HttpInv
<1>4. CASE WorkerAccepts \/ InAccept(AcceptProgress(server_socket))
  <2>1. /\ worker = "accept" /\ apc[server_socket] # "returned" /\ AcceptStep(server_socket)
        /\ \A c \in Clients : task[c] = "done" => ~ cli'[c].live
        /\ UNCHANGED <<must_die, worker, tasks, task, stopper, local>>
    BY <1>4 DEF WorkerAccepts, InAccept, AcceptProgress, AcceptStep, http
  <2>2. CASE UNCHANGED <<srv, cli, holder, dying>>
    <3>1. TasksInv'
      BY <1>a, <2>1, <2>2, TasksFrame DEF JustAccepted, InOpen
    <3>2. ThreadsOK' /\ AloneInv'
      BY <1>a, <2>1, <2>2 DEF ThreadsOK, AloneInv, local, State
    <3>3. SocketInv'
      BY <1>a, <2>1, <2>2, SocketFrame DEF State, Sock
    <3> QED BY <3>1, <3>2, <3>3 DEF HttpInv
  <2>3. ASSUME NEW c \in Clients, NEW f \in FDs, AcceptConnection(server_socket, c, f)
        PROVE  HttpInv'
    <3>1. /\ OtherServers(server_socket) /\ OtherClients(c)
          /\ srv'[server_socket].state = State /\ srv'[server_socket].sock = Sock
          /\ cli'[c].live /\ cli'[c].state = "opened" /\ cli'[c].parent = server_socket
          /\ cli'[c].sock = f
      BY <2>3, AcceptConnectionEffect DEF State, Sock
    <3>2. /\ holder' = [holder EXCEPT ![f] = c] /\ UNCHANGED dying
          /\ apc'[server_socket] = "returned" /\ ~ cli[c].live
      BY <2>3 DEF AcceptConnection, TypeOK
    <3>3. task[c] # "done" /\ (task[c] = "none" => JustAccepted(c)')
      BY <2>1, <3>1, <3>2 DEF JustAccepted, AcceptedBy
    <3>4. ASSUME NEW d \in Clients, cli'[d].live
          PROVE  task'[d] \notin {"none", "done"} \/ JustAccepted(d)'
      <4>1. CASE d = c
        BY <2>1, <3>3, <4>1
      <4>2. CASE d # c
        BY <1>b, <2>1, <3>1, <3>4, <4>2 DEF OwnedInv, OtherClients, JustAccepted
      <4> QED BY <4>1, <4>2
    <3>5. \A d \in FDs : holder'[d] \in {"free", server_socket} \cup Clients
      BY <1>a, <1>c, <3>2 DEF AloneInv
    <3>6. ConnectionInv'
      BY <1>b, <1>c, <3>1, <3>2 DEF ConnectionInv, OtherClients
    <3>7. TasksInv'
      BY <1>b, <2>1, <3>2, <3>4, <3>6 DEF TasksInv, OwnedInv, KnownInv, DyingInv, InOpen
    <3>8. ThreadsOK' /\ AloneInv'
      BY <1>a, <2>1, <3>1, <3>5 DEF ThreadsOK, AloneInv, OtherServers, local
    <3>9. SocketInv'
      <4>1. \A d \in FDs : holder'[d] = server_socket => holder[d] = server_socket
        BY <1>c, <3>2, FreeIsNobody
      <4>2. UNCHANGED <<State, Sock>>
        BY <3>1 DEF State, Sock
      <4> QED BY <1>a, <2>1, <4>1, <4>2, SocketFrame
    <3> QED BY <3>7, <3>8, <3>9 DEF HttpInv
  <2>4. CASE AcceptPoll(server_socket) \/ AcceptReady(server_socket)
             \/ AcceptTimeout(server_socket) \/ AcceptFails(server_socket)
             \/ AcceptReturned(server_socket)
    BY <2>2, <2>4 DEF AcceptPoll, AcceptReady, AcceptTimeout, AcceptFails, AcceptReturned
  <2> QED BY <2>1, <2>3, <2>4 DEF AcceptStep
<1>5. CASE WorkerSpawns
  <2> DEFINE reaped == IF Fresh = {} THEN {} ELSE {c \in tasks : task[c] = "done"}
  <2>1. /\ tasks' = (tasks \cup Fresh) \ reaped
        /\ task' = [c \in Clients |-> IF c \in Fresh THEN "recv"
                                      ELSE IF c \in reaped THEN "none" ELSE task[c]]
        /\ worker = "accept" /\ worker' = "accept_loop"
        /\ UNCHANGED <<srv, cli, holder, dying, must_die, stopper, local>>
    BY <1>5 DEF WorkerSpawns, AcceptReturned
  <2>2. /\ \A c \in reaped : task[c] = "done"
        /\ \A c \in Fresh : c \in Clients /\ task[c] = "none"
        /\ \A c \in Clients : JustAccepted(c) => c \in Fresh
    BY DEF Fresh, AcceptedBy, JustAccepted
  <2> HIDE DEF reaped
  <2>3. ThreadsOK' /\ AloneInv'
    BY <1>a, <2>1, <2>2 DEF ThreadsOK, AloneInv, local, State
  <2>4. KnownInv'
    BY <1>b, <2>1, <2>2 DEF KnownInv, InOpen
  <2>5. OwnedInv'
    BY <1>b, <2>1, <2>2 DEF OwnedInv
  <2>6. DyingInv' /\ ConnectionInv'
    BY <1>b, <2>1, <2>2 DEF DyingInv, ConnectionInv
  <2>7. SocketInv'
    BY <1>a, <2>1, SocketFrame DEF State, Sock
  <2> QED BY <2>3, <2>4, <2>5, <2>6, <2>7 DEF HttpInv, TasksInv
<1>6. CASE WorkerWaits
  <2>1. /\ \A c \in tasks : task[c] = "done"
        /\ tasks' = {} /\ task' = [c \in Clients |-> IF c \in tasks THEN "none" ELSE task[c]]
        /\ worker = "wait" /\ worker' = "loop"
        /\ UNCHANGED <<srv, cli, holder, dying, must_die, stopper, local>>
    BY <1>6 DEF WorkerWaits, vars
  <2>2. \A c \in Clients : task'[c] = "none" /\ ~ cli[c].live
    BY <1>b, <2>1 DEF KnownInv, OwnedInv, JustAccepted
  <2>3. ThreadsOK' /\ AloneInv'
    BY <1>a, <2>1, <2>2 DEF ThreadsOK, AloneInv, local, State
  <2>4. KnownInv' /\ OwnedInv' /\ DyingInv' /\ ConnectionInv'
    BY <1>b, <2>1, <2>2 DEF KnownInv, OwnedInv, DyingInv, ConnectionInv
  <2>5. SocketInv'
    BY <1>a, <2>1, SocketFrame DEF State, Sock
  <2> QED BY <2>3, <2>4, <2>5 DEF HttpInv, TasksInv
<1> QED BY <1>1, <1>2, <1>3, <1>4, <1>5, <1>6 DEF WorkerProgress

\* A task keeps the invariant: it moves on alone, and is done when the
\* destructor has ended its client object.
LEMMA TaskKeeps ==
  ASSUME TypeOK, HttpInv, NEW c \in Clients, TaskReceives(c) \/ TaskProgress(c)
  PROVE  HttpInv'
<1>a. /\ ThreadsOK /\ TasksInv /\ AloneInv /\ SocketInv
      /\ KnownInv /\ OwnedInv /\ DyingInv /\ ConnectionInv
  BY DEF HttpInv, TasksInv
<1>b. task \in [Clients -> {"none", "recv", "respond", "close", "closing",
                            "destroy", "destroying", "done"}]
      /\ task[c] \notin {"none", "done"}
  BY <1>a DEF ThreadsOK, TaskReceives, TaskProgress, TaskReceiveFails, TaskResponds,
              TaskCloses, TaskInClose
<1>1. UNCHANGED <<worker, tasks, stopper, apc, must_die, local>>
  BY DEF TaskReceives, TaskProgress, TaskReceiveFails, TaskResponds, TaskCloses,
         TaskInClose, ClientClose, ClientCloseStep, ClientScan, ClientErase,
         ClientBaseClose, vars
<1>2. ASSUME NEW t \in {"recv", "respond", "close", "closing", "destroy", "destroying", "done"},
             task' = [task EXCEPT ![c] = t], OtherClients(c),
             t = "done" => ~ cli'[c].live,
             t = "destroying" => c \in dying',
             \A d \in Clients \ {c} : d \in dying => d \in dying',
             \A s \in Servers : /\ srv'[s].live = srv[s].live
                                /\ srv'[s].state = srv[s].state /\ srv'[s].sock = srv[s].sock,
             \A f \in FDs : holder'[f] \in {"free", holder[f]},
             \A f \in FDs : holder'[f] = c =>
               cli'[c].live /\ cli'[c].state = "opened" /\ cli'[c].sock = f
      PROVE  HttpInv'
  <2>1. ThreadsOK' /\ KnownInv'
    BY <1>a, <1>b, <1>1, <1>2 DEF ThreadsOK, KnownInv, local
  <2>2. ASSUME NEW d \in Clients, cli'[d].live
        PROVE  task'[d] \notin {"none", "done"} \/ JustAccepted(d)'
    <3>1. CASE d = c
      BY <1>b, <1>2, <2>2, <3>1
    <3>2. CASE d # c
      <4>1. cli'[d] = cli[d] /\ task'[d] = task[d]
        BY <1>b, <1>2, <3>2 DEF OtherClients
      <4>2. JustAccepted(d) => JustAccepted(d)'
        BY <1>1, <4>1 DEF JustAccepted, AcceptedBy
      <4> QED BY <1>a, <2>2, <4>1, <4>2 DEF OwnedInv
    <3> QED BY <3>1, <3>2
  <2>3. ASSUME NEW d \in Clients, task'[d] = "destroying" PROVE d \in dying'
    <3>1. CASE d = c
      BY <1>b, <1>2, <2>3, <3>1
    <3>2. CASE d # c
      BY <1>a, <1>b, <1>2, <2>3, <3>2 DEF DyingInv
    <3> QED BY <3>1, <3>2
  <2>4. AloneInv'
    BY <1>a, <1>1, <1>2 DEF AloneInv, State
  <2>5. OwnedInv'
    BY <2>2 DEF OwnedInv
  <2>6. DyingInv'
    BY <2>3 DEF DyingInv
  <2>7. ConnectionInv'
    BY <1>a, <1>2, FreeIsNobody DEF ConnectionInv, OtherClients
  <2>8. SocketInv'
    <3>1. \A f \in FDs : holder'[f] = server_socket => holder[f] = server_socket
      BY <1>2, FreeIsNobody
    <3>2. UNCHANGED <<State, Sock>>
      BY <1>2 DEF State, Sock
    <3> QED BY <1>a, <1>1, <3>1, <3>2, SocketFrame
  <2> QED BY <2>1, <2>4, <2>5, <2>6, <2>7, <2>8 DEF HttpInv, TasksInv
<1>3. cli \in [Clients -> ClientRecord]
  BY Records
<1>4. CASE TaskReceives(c) \/ TaskReceiveFails(c) \/ TaskResponds(c)
  <2>1. UNCHANGED <<srv, cli, holder, dying>>
    BY <1>4 DEF TaskReceives, TaskReceiveFails, TaskResponds, vars
  <2>2. PICK t \in {"respond", "close"} : task' = [task EXCEPT ![c] = t]
    BY <1>4 DEF TaskReceives, TaskReceiveFails, TaskResponds
  <2>3. OtherClients(c)
    BY <1>3, <2>1 DEF OtherClients
  <2>4. /\ \A s \in Servers : srv'[s] = srv[s]
        /\ \A f \in FDs : holder'[f] \in {"free", holder[f]}
        /\ \A f \in FDs : holder'[f] = c =>
             cli'[c].live /\ cli'[c].state = "opened" /\ cli'[c].sock = f
        /\ \A d \in Clients \ {c} : d \in dying => d \in dying'
    BY <1>a, <2>1 DEF ConnectionInv
  <2> QED BY <1>2, <2>2, <2>3, <2>4
<1>5. CASE TaskCloses(c)
  <2>1. /\ UNCHANGED <<srv, cli, holder>> /\ task[c] \in {"close", "destroy"}
        /\ dying' = IF task[c] = "destroy" THEN dying \cup {c} ELSE dying
        /\ task' = [task EXCEPT ![c] = IF @ = "close" THEN "closing" ELSE "destroying"]
    BY <1>5 DEF TaskCloses, ClientClose
  <2>2. /\ OtherClients(c)
        /\ \A s \in Servers : srv'[s] = srv[s]
        /\ \A f \in FDs : holder'[f] \in {"free", holder[f]}
        /\ \A f \in FDs : holder'[f] = c =>
             cli'[c].live /\ cli'[c].state = "opened" /\ cli'[c].sock = f
        /\ \A d \in Clients \ {c} : d \in dying => d \in dying'
    BY <1>a, <1>3, <2>1 DEF OtherClients, ConnectionInv
  <2>3. CASE task[c] = "close"
    <3>1. task' = [task EXCEPT ![c] = "closing"]
      BY <1>b, <2>1, <2>3
    <3> QED BY <1>2, <2>2, <3>1
  <2>4. CASE task[c] = "destroy"
    <3>1. task' = [task EXCEPT ![c] = "destroying"] /\ c \in dying'
      BY <1>b, <2>1, <2>4
    <3> QED BY <1>2, <2>2, <3>1
  <2> QED BY <2>1, <2>3, <2>4
<1>6. CASE TaskInClose(c)
  <2>1. /\ task[c] \in {"closing", "destroying"}
        /\ task' = [task EXCEPT ![c] = IF cpc'[c] # "idle" THEN @
                                       ELSE IF @ = "closing" THEN "destroy" ELSE "done"]
    BY <1>6 DEF TaskInClose
  <2>2. cpc \in [Clients -> {"idle", "scan", "erase", "base_close"}]
    BY DEF TypeOK
  <2>3. CASE ClientScan(c) \/ ClientErase(c)
    <3>1. UNCHANGED <<cli, holder, dying>>
      BY <2>3 DEF ClientScan, ClientErase
    <3>2. cpc'[c] # "idle"
      BY <2>2, <2>3 DEF ClientScan, ClientErase
    <3>3. \A s \in Servers : /\ srv'[s].live = srv[s].live
                              /\ srv'[s].state = srv[s].state /\ srv'[s].sock = srv[s].sock
      BY <2>3, ClientEraseEffect DEF ClientScan
    <3>4. task' = [task EXCEPT ![c] = task[c]]
      BY <1>b, <2>1, <3>2
    <3>5. OtherClients(c)
      BY <1>3, <3>1 DEF OtherClients
    <3>6. task[c] = "destroying" => c \in dying'
      BY <1>a, <3>1 DEF DyingInv
    <3>7. \A f \in FDs : holder'[f] = c =>
            cli'[c].live /\ cli'[c].state = "opened" /\ cli'[c].sock = f
      BY <1>a, <3>1 DEF ConnectionInv
    <3> QED BY <1>2, <2>1, <3>1, <3>3, <3>4, <3>5, <3>6, <3>7
  <2>4. CASE ClientBaseClose(c)
    <3>1. OtherClients(c) /\ UNCHANGED srv /\ cpc'[c] = "idle" /\ dying' = dying \ {c}
      BY <2>2, <2>4, ClientBaseCloseEffect DEF ClientBaseClose
    <3>2. \A f \in FDs : holder'[f] \in {"free", holder[f]}
      BY <2>4 DEF ClientBaseClose, closesocket
    <3>c. \A f \in FDs : holder'[f] # c
      BY <1>a, <2>4, FreeIsNobody DEF ClientBaseClose, closesocket, ConnectionInv
    <3>3. CASE task[c] = "closing"
      <4>1. task' = [task EXCEPT ![c] = "destroy"]
        BY <1>b, <2>1, <3>1, <3>3
      <4> QED BY <1>2, <3>c, <3>1, <3>2, <4>1
    <3>4. CASE task[c] = "destroying"
      <4>1. task' = [task EXCEPT ![c] = "done"]
        BY <1>b, <2>1, <3>1, <3>4
      <4>2. c \in dying
        BY <1>a, <3>4 DEF DyingInv
      <4>3. cli'[c] = DeadClient
        BY <1>3, <2>4, <4>2 DEF ClientBaseClose
      <4>4. ~ cli'[c].live
        BY <4>3, NewObjects
      <4> QED BY <1>2, <3>c, <3>1, <3>2, <4>1, <4>4
    <3> QED BY <2>1, <3>3, <3>4
  <2> QED BY <1>6, <2>3, <2>4 DEF TaskInClose, ClientCloseStep
<1> QED BY <1>4, <1>5, <1>6 DEF TaskProgress

\* The thread in stop() keeps it: it closes server_socket in the steps of
\* close(), and ends it when the worker is through.
LEMMA StopKeeps ==
  ASSUME TypeOK, HttpInv, Stop \/ StopStep
  PROVE  HttpInv'
<1>a. /\ ThreadsOK /\ TasksInv /\ AloneInv /\ SocketInv
      /\ KnownInv /\ StopInv /\ OverlapInv /\ KeptInv
  BY DEF HttpInv, TasksInv, SocketInv
<1>b. /\ closing \in [Threads -> {"no", "test", "mark", "fd", "inval"}]
      /\ holder \in [FDs -> {"free", "foreign"} \cup Servers \cup Clients]
      /\ overlapped \in BOOLEAN /\ must_die \in BOOLEAN
  BY <1>a DEF ThreadsOK, TypeOK
<1>1. CASE Stop
  <2>1. /\ UNCHANGED <<srv, cli, holder, apc, dying, worker, tasks, task, fd, abandoned, overlapped>>
        /\ stopper = "idle" /\ must_die' = TRUE /\ stopper' = "close"
        /\ closing' = [closing EXCEPT !["stopper"] = "test"]
    BY <1>1 DEF Stop, vars
  <2>2. closing'["stopper"] = "test" /\ closing'["worker"] = closing["worker"]
    BY <1>b, <2>1 DEF Threads
  <2>3. ThreadsOK' /\ AloneInv'
    BY <1>a, <1>b, <2>1 DEF ThreadsOK, AloneInv, State
  <2>4. TasksInv'
    BY <1>a, <2>1, TasksFrame DEF KnownInv, JustAccepted, AcceptedBy
  <2>5. \A f \in FDs : Kept(f)' <=> Kept(f)
    BY <2>1 DEF Kept
  <2>6. closing["stopper"] = "no"
    BY <1>a, <2>1 DEF StopInv
  <2>7. StopInv'
    BY <1>a, <2>1, <2>2 DEF StopInv
  <2>8. \A f \in FDs : WillClose(f) => WillClose(f)'
    BY <2>1, <2>2, <2>6 DEF WillClose, State, Sock, Threads
  <2>9. OverlapInv'
    BY <1>a, <2>1, <2>2, <2>5, <2>8 DEF OverlapInv, State, Threads
  <2>10. KeptInv'
    BY <1>a, <2>1, <2>5 DEF KeptInv
  <2> QED BY <2>3, <2>4, <2>7, <2>9, <2>10 DEF HttpInv, SocketInv
<1>2. CASE StopCloses
  <2>1. /\ CloseStep("stopper") /\ CallsClose("stopper") /\ "stopper" \in Threads
        /\ UNCHANGED worker /\ stopper' \in {"close", "join"}
    BY <1>2 DEF StopCloses, CallsClose, Threads
  <2>2. LibraryFrame /\ UNCHANGED <<must_die, tasks, task, fd, abandoned>>
    BY <1>a, <2>1, CloseEffect
  <2>3. closing' \in [Threads -> {"no", "test", "mark", "fd", "inval"}] /\ overlapped' \in BOOLEAN
    BY <1>b, <2>1 DEF CloseStep, CloseTest, CloseMark, CloseFd, CloseInval
  <2>4. ThreadsOK'
    BY <1>a, <2>1, <2>2, <2>3 DEF ThreadsOK
  <2>5. TasksInv' /\ AloneInv'
    BY <1>a, <2>1, <2>2, LibraryFrameKeeps DEF KnownInv
  <2>6. SocketInv'
    BY <1>a, <2>1, CloseKeepsSocket
  <2> QED BY <2>4, <2>5, <2>6 DEF HttpInv
<1>3. CASE StopJoins
  <2>1. /\ stopper = "join" /\ worker = "done" /\ stopper' = "gone"
        /\ UNCHANGED <<cli, apc, dying, worker, tasks, task, must_die, local>>
        /\ srv' = [srv EXCEPT ![server_socket] = DeadServer]
    BY <1>3 DEF StopJoins, ServerDestroy
  <2>2. /\ \A s \in Servers \ {server_socket} : srv'[s] = srv[s]
        /\ State' = "created"
    BY <2>1, Records, NewObjects DEF State
  <2>3. /\ \A f \in FDs : holder'[f] \in {"free", holder[f]}
        /\ \A f \in FDs : (f = Sock /\ State # "created") => holder'[f] = "free"
    BY <1>3 DEF StopJoins, ServerDestroy, closesocket, State, Sock
  <2>4. ThreadsOK' /\ AloneInv'
    BY <1>a, <2>1, <2>2, <2>3 DEF ThreadsOK, AloneInv, local
  <2>5. TasksInv'
    <3>1. \A f \in FDs, c \in Clients : holder'[f] = c => holder[f] = c
      BY <2>3, FreeIsNobody
    <3> QED BY <1>a, <2>1, <3>1, TasksFrame DEF KnownInv, JustAccepted
  <2>6. /\ \A f \in FDs : Kept(f)' => Kept(f) /\ (f = Sock => State = "created")
        /\ \A t \in Threads : closing[t] = "no"
    <3>1. \A f \in FDs : Kept(f)' => Kept(f) /\ (f = Sock => State = "created")
      BY <2>1, <2>3, FreeIsNobody DEF Kept, local
    <3> QED BY <1>a, <2>1, <3>1 DEF StopInv, Threads
  <2>7. ~ overlapped => \A f \in FDs : ~ Kept(f)'
    BY <1>a, <2>1, <2>6 DEF OverlapInv, WillClose
  <2>8. StopInv'
    BY <1>a, <2>1 DEF StopInv, local
  <2>9. OverlapInv'
    BY <2>1, <2>2, <2>6, <2>7 DEF OverlapInv, InOpen, local
  <2>10. KeptInv'
    BY <1>a, <2>1, <2>6 DEF KeptInv, local
  <2> QED BY <2>4, <2>5, <2>8, <2>9, <2>10 DEF HttpInv, SocketInv
<1> QED BY <1>1, <1>2, <1>3 DEF StopStep

\* Every step of the three kinds of threads keeps the invariant.
LEMMA HttpNextInv == TypeOK /\ HttpInv /\ [HttpNext]_allVars => TypeOK' /\ HttpInv'
<1> SUFFICES ASSUME TypeOK, HttpInv, [HttpNext]_allVars PROVE TypeOK' /\ HttpInv'
  OBVIOUS
<1>1. TypeOK'
  BY LibraryNext DEF HttpInv
<1>2. CASE UNCHANGED allVars
  <2>1. UNCHANGED <<srv, cli, holder, apc, dying, must_die, worker, tasks, task, stopper, local>>
    BY <1>2 DEF allVars, vars, http
  <2>2. ThreadsOK' /\ AloneInv'
    BY <2>1 DEF HttpInv, ThreadsOK, AloneInv, State, local
  <2>3. TasksInv'
    BY <2>1, TasksFrame DEF HttpInv, TasksInv, KnownInv, JustAccepted, AcceptedBy
  <2>4. SocketInv'
    BY <2>1, SocketFrame DEF HttpInv, State, Sock
  <2> QED BY <1>1, <2>2, <2>3, <2>4 DEF HttpInv
<1>3. CASE HttpNext
  BY <1>1, <1>3, WorkerKeeps, TaskKeeps, StopKeeps DEF HttpNext
<1> QED BY <1>2, <1>3

-----------------------------------------------------------------------------

\* When stop() and the destructor of mini_http_server_t are through, no task
\* and no client object is left and no descriptor of a connection is allocated,
\* for any number of connections and any moment of stop() (http_server.cpp:61,
\* 72, 105).  server_socket has lost at most the descriptors that open() left
\* when setsockopt() failed (udp_socket.h:444, 455) and, if the close() of
\* stop() ran into open() (udp_socket.h:411-490), the one of that open().
THEOREM CleanAfterStopHolds == HttpSpec => []CleanAfterStop
<1>1. TypeOK /\ HttpInv => CleanAfterStop
  <2> SUFFICES ASSUME TypeOK, HttpInv, stopper = "gone"
               PROVE  /\ \A c \in Clients : task[c] = "none" /\ ~ cli[c].live
                      /\ \A f \in FDs : holder[f] # "free" =>
                           /\ holder[f] = server_socket
                           /\ f \in abandoned \/ (overlapped /\ f = fd)
    BY DEF CleanAfterStop
  <2>1. /\ KnownInv /\ OwnedInv /\ ConnectionInv /\ AloneInv
        /\ StopInv /\ OverlapInv /\ KeptInv
    BY DEF HttpInv, TasksInv, SocketInv
  <2>2. worker = "done" /\ tasks = {} /\ State = "created"
    BY <2>1 DEF AloneInv, KnownInv
  <2>3. \A c \in Clients : task[c] = "none"
    BY <2>1, <2>2 DEF KnownInv
  <2>4. \A c \in Clients : ~ cli[c].live
    BY <2>1, <2>2, <2>3 DEF OwnedInv, JustAccepted
  <2>5. ASSUME NEW f \in FDs, holder[f] # "free"
        PROVE  holder[f] = server_socket /\ (f \in abandoned \/ (overlapped /\ f = fd))
    <3>1. holder[f] = server_socket
      BY <2>1, <2>4, <2>5 DEF AloneInv, ConnectionInv
    <3>2. CASE f \notin abandoned
      <4>1. Kept(f) /\ f = fd
        BY <2>1, <3>1, <3>2 DEF Kept, KeptInv
      <4>2. ~ WillClose(f)
        BY <2>1, <2>2 DEF WillClose, StopInv, Threads
      <4> QED BY <2>1, <3>1, <4>1, <4>2 DEF OverlapInv
    <3> QED BY <3>1, <3>2
  <2> QED BY <2>3, <2>4, <2>5
<1>2. TypeOK /\ HttpInv /\ [HttpNext]_allVars => (TypeOK /\ HttpInv)'
  BY HttpNextInv
<1> QED BY <1>1, <1>2, HttpInitInv, PTL DEF HttpSpec
=============================================================================
