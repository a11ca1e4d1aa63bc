------------------------------ MODULE HttpServer ------------------------------
(***************************************************************************)
(* mini_http_server_t (examples/http_server.cpp), the use the library is   *)
(* made for, composed from the steps of TcpServer: a worker thread opens   *)
(* server_socket and accepts, every accepted client is handled and closed  *)
(* by a task of its own (std::async), and another thread calls stop() and  *)
(* destroys the object.                                                    *)
(*                                                                         *)
(* A client place of TcpServer is the object a task owns.  accept() and    *)
(* the close() of a client are steps of TcpServer.  open() and close() of  *)
(* server_socket are taken apart here, into one step per access of a field *)
(* that both threads use: the worker opens, and closes when its open()     *)
(* fails, while stop() closes without a lock.  The content of requests and *)
(* responses is left out: a response is a few hundred bytes and fits the   *)
(* buffer of the kernel, so that send() does not block.                    *)
(***************************************************************************)
EXTENDS TcpServer

CONSTANT server_socket
ASSUME ServerAssumption == server_socket \in Servers

VARIABLES
  must_die,
  worker,   \* where the worker thread is
  tasks,    \* std::list of futures: the clients whose tasks are not erased
  task,     \* where the task of a client is
  stopper,  \* where the thread is that stops and destroys the object
  fd,       \* what the last socket() of the worker has returned
  closing,  \* where the two threads are in close() of server_socket
  abandoned,\* history: descriptors open() has left by a failed setsockopt()
  overlapped\* history: open() and the close() of stop() have overlapped

local == <<fd, closing, abandoned, overlapped>>
http == <<must_die, worker, tasks, task, stopper, local>>
allVars == <<vars, http>>

HttpInit ==
  /\ Init /\ srv[server_socket].live
  /\ must_die = FALSE /\ worker = "loop" /\ tasks = {}
  /\ task = [c \in Clients |-> "none"] /\ stopper = "idle"
  /\ fd = INVALID_SOCKET /\ closing = [t \in {"worker", "stopper"} |-> "no"]
  /\ abandoned = {} /\ overlapped = FALSE

-----------------------------------------------------------------------------
(* close () of server_socket, by stop() or by an open() that has failed *)

Sock == srv[server_socket].sock

\* Where the worker is while open() runs.
InOpen == {"socket", "store", "check", "options", "bind", "opened", "listen", "cleanup"}

\* if (state != created)
CloseTest(t) ==
  /\ closing[t] = "test"
  /\ closing' = [closing EXCEPT ![t] = IF srv[server_socket].state = "created" THEN "no"
                                       ELSE "mark"]
  /\ overlapped' = (overlapped \/ (t = "stopper" /\ worker \in InOpen))
  /\ UNCHANGED vars

CloseMark(t) ==
  /\ closing[t] = "mark"
  /\ srv' = [srv EXCEPT ![server_socket].state = "created"]
  /\ closing' = [closing EXCEPT ![t] = "fd"]
  /\ UNCHANGED <<cli, holder, apc, spc, cpc, i, dying, out, faults, overlapped>>

\* closesocket() of whatever `sock' is now.
CloseFd(t) ==
  /\ closing[t] = "fd"
  /\ closesocket({Sock}, {server_socket})
  /\ closing' = [closing EXCEPT ![t] = "inval"]
  /\ UNCHANGED <<srv, cli, apc, spc, cpc, i, dying, out, overlapped>>

CloseInval(t) ==
  /\ closing[t] = "inval"
  /\ srv' = [srv EXCEPT ![server_socket].sock = INVALID_SOCKET]
  /\ closing' = [closing EXCEPT ![t] = "no"]
  /\ UNCHANGED <<cli, holder, apc, spc, cpc, i, dying, out, faults, overlapped>>

CloseStep(t) ==
  /\ CloseTest(t) \/ CloseMark(t) \/ CloseFd(t) \/ CloseInval(t)
  /\ UNCHANGED <<must_die, tasks, task, fd, abandoned>>

-----------------------------------------------------------------------------
(* worker () *)

\* while (!must_die)
WorkerLoop ==
  /\ worker = "loop"
  /\ worker' = IF must_die THEN "done" ELSE "open"
  /\ UNCHANGED <<vars, must_die, tasks, task, stopper, local>>

\* server_socket.open (): refused if opened, otherwise the state is prepared.
WorkerOpens ==
  /\ worker = "open"
  /\ LET refused == srv[server_socket].state = "opened"
     IN  /\ srv' = IF refused THEN srv ELSE [srv EXCEPT ![server_socket].state = "prepared"]
         /\ worker' = IF refused THEN "loop" ELSE "socket"
  /\ overlapped' = (overlapped \/ closing["stopper"] \notin {"no", "test"})
  /\ UNCHANGED <<cli, holder, apc, spc, cpc, i, dying, out, faults>>
  /\ UNCHANGED <<must_die, tasks, task, stopper, fd, closing, abandoned>>

\* socket () has failed, or the kernel has given a descriptor.
WorkerSocket ==
  /\ worker = "socket"
  /\ \/ fd' = INVALID_SOCKET /\ UNCHANGED <<holder, abandoned>>
     \/ \E f \in Free :
          /\ fd' = f /\ holder' = [holder EXCEPT ![f] = server_socket]
          /\ abandoned' = abandoned \ {f}
  /\ worker' = "store"
  /\ UNCHANGED <<srv, cli, apc, spc, cpc, i, dying, out, faults>>
  /\ UNCHANGED <<must_die, tasks, task, stopper, closing, overlapped>>

\* Its result is stored over whatever `sock' was.
WorkerStores ==
  /\ worker = "store"
  /\ srv' = [srv EXCEPT ![server_socket].sock = fd]
  /\ worker' = "check"
  /\ UNCHANGED <<cli, holder, apc, spc, cpc, i, dying, out, faults>>
  /\ UNCHANGED <<must_die, tasks, task, stopper, local>>

\* if (sock == INVALID_SOCKET): the compiler may compare the value just stored
\* or read the field again.
WorkerChecks ==
  /\ worker = "check"
  /\ \E seen \in {fd, Sock} :
       IF seen = INVALID_SOCKET
         THEN /\ srv' = [srv EXCEPT ![server_socket].state = "created"]
              /\ worker' = "loop"
         ELSE worker' = "options" /\ UNCHANGED srv
  /\ UNCHANGED <<cli, holder, apc, spc, cpc, i, dying, out, faults>>
  /\ UNCHANGED <<must_die, tasks, task, stopper, local>>

\* A call can only succeed while `sock' is a descriptor of the socket.
Usable == Sock \in FDs /\ holder[Sock] = server_socket

\* The two setsockopt (): open() returns from a failure as it is, prepared and
\* with a descriptor, and the worker will open() again.
WorkerOptions ==
  /\ worker = "options"
  /\ \/ Usable /\ worker' = "bind" /\ UNCHANGED abandoned
     \/ worker' = "loop" /\ abandoned' = IF Usable THEN abandoned \cup {Sock} ELSE abandoned
  /\ UNCHANGED <<vars, must_die, tasks, task, stopper, fd, closing, overlapped>>

\* bind () or listen (); open() closes the socket when one fails.
Succeeds(next) == Usable /\ worker' = next /\ UNCHANGED closing
Fails == worker' = "cleanup" /\ closing' = [closing EXCEPT !["worker"] = "test"]
WorkerBinds ==
  /\ worker = "bind"
  /\ Succeeds("opened") \/ Fails
  /\ UNCHANGED <<vars, must_die, tasks, task, stopper, fd, abandoned, overlapped>>

\* state = opened, whatever it was.
WorkerOpened ==
  /\ worker = "opened"
  /\ srv' = [srv EXCEPT ![server_socket].state = "opened"]
  /\ worker' = "listen"
  /\ UNCHANGED <<cli, holder, apc, spc, cpc, i, dying, out, faults>>
  /\ UNCHANGED <<must_die, tasks, task, stopper, local>>

WorkerListens ==
  /\ worker = "listen"
  /\ Succeeds("accept_loop") \/ Fails
  /\ UNCHANGED <<vars, must_die, tasks, task, stopper, fd, abandoned, overlapped>>

\* The close() of a failed open(), after which the worker sleeps for a second.
WorkerCleansUp ==
  /\ worker = "cleanup"
  /\ CloseStep("worker")
  /\ worker' = IF closing'["worker"] = "no" THEN "loop" ELSE "cleanup"
  /\ UNCHANGED stopper

WorkerInOpen ==
  \/ WorkerOpens \/ WorkerSocket \/ WorkerStores \/ WorkerChecks \/ WorkerOptions
  \/ WorkerBinds \/ WorkerOpened \/ WorkerListens \/ WorkerCleansUp

\* while (!must_die && server_socket.state == opened)
WorkerAccept ==
  /\ worker = "accept_loop" /\ ~ must_die /\ srv[server_socket].state = "opened"
  /\ Accept(server_socket)
  /\ worker' = "accept"
  /\ UNCHANGED <<must_die, tasks, task, stopper, local>>

WorkerLeaves ==
  /\ worker = "accept_loop" /\ (must_die \/ srv[server_socket].state # "opened")
  /\ worker' = "wait"
  /\ UNCHANGED <<vars, must_die, tasks, task, stopper, local>>

\* Inside accept(); a place is used again when its task was erased.
InAccept(Step) ==
  /\ worker = "accept" /\ apc[server_socket] # "returned"
  /\ Step
  /\ \A c \in Clients : task[c] = "done" => ~ cli'[c].live
  /\ UNCHANGED http
WorkerAccepts == InAccept(AcceptStep(server_socket))

\* The client accept() has returned, if it is opened.
Fresh == {c \in AcceptedBy(server_socket) : task[c] = "none"}

\* An opened client gets a task, and the finished tasks are erased.
WorkerSpawns ==
  /\ worker = "accept" /\ apc[server_socket] = "returned"
  /\ AcceptReturned(server_socket)
  /\ LET reaped == IF Fresh = {} THEN {} ELSE {c \in tasks : task[c] = "done"}
     IN  /\ tasks' = (tasks \cup Fresh) \ reaped
         /\ task' = [c \in Clients |-> IF c \in Fresh THEN "recv"
                                       ELSE IF c \in reaped THEN "none" ELSE task[c]]
  /\ worker' = "accept_loop"
  /\ UNCHANGED <<must_die, stopper, local>>

\* Mutant: the tasks are left to themselves.
WorkerWaits_Detached ==
  /\ worker = "wait"
  /\ tasks' = {}
  /\ worker' = "loop"
  /\ UNCHANGED <<vars, must_die, task, stopper, local>>

\* it->wait () for every task, and the list goes out of scope.
WorkerWaits ==
  /\ worker = "wait" /\ \A c \in tasks : task[c] = "done"
  /\ tasks' = {}
  /\ task' = [c \in Clients |-> IF c \in tasks THEN "none" ELSE task[c]]
  /\ worker' = "loop"
  /\ UNCHANGED <<vars, must_die, stopper, local>>

\* Everything the worker does although nobody connects.
WorkerProgress ==
  \/ WorkerLoop \/ WorkerInOpen \/ WorkerAccept
  \/ WorkerLeaves \/ InAccept(AcceptProgress(server_socket)) \/ WorkerSpawns \/ WorkerWaits

-----------------------------------------------------------------------------
(* handle_client () *)

\* recv() has brought a request.
TaskReceives(c) ==
  /\ task[c] = "recv"
  /\ task' = [task EXCEPT ![c] = "respond"]
  /\ UNCHANGED <<vars, must_die, worker, tasks, stopper, local>>

\* Mutant: recv() ends only with a request.
TaskReceiveFails_Never(c) ==
  /\ FALSE
  /\ UNCHANGED <<vars, http>>

\* The peer has closed, or the receive timeout the connection inherits from the
\* listening socket has run out: bytes <= 0.
TaskReceiveFails(c) ==
  /\ task[c] = "recv"
  /\ task' = [task EXCEPT ![c] = "close"]
  /\ UNCHANGED <<vars, must_die, worker, tasks, stopper, local>>

\* send_response (): both sends return, whatever their result.
TaskResponds(c) ==
  /\ task[c] = "respond"
  /\ task' = [task EXCEPT ![c] = "close"]
  /\ UNCHANGED <<vars, must_die, worker, tasks, stopper, local>>

\* client.close (), and the destructor of the parameter behind it.
TaskCloses(c) ==
  /\ task[c] \in {"close", "destroy"} /\ cpc[c] = "idle"
  /\ ClientClose(c, task[c] = "destroy")
  /\ task' = [task EXCEPT ![c] = IF @ = "close" THEN "closing" ELSE "destroying"]
  /\ UNCHANGED <<must_die, worker, tasks, stopper, local>>

TaskInClose(c) ==
  /\ task[c] \in {"closing", "destroying"}
  /\ ClientCloseStep(c)
  /\ task' = [task EXCEPT ![c] = IF cpc'[c] # "idle" THEN @
                                 ELSE IF @ = "closing" THEN "destroy" ELSE "done"]
  /\ UNCHANGED <<must_die, worker, tasks, stopper, local>>

\* Everything a task does without the help of its peer.
TaskProgress(c) == TaskReceiveFails(c) \/ TaskResponds(c) \/ TaskCloses(c) \/ TaskInClose(c)

-----------------------------------------------------------------------------
(* stop () and the destructor *)

\* Mutant: the flag is not set.
Stop_NoFlag ==
  /\ stopper = "idle"
  /\ stopper' = "close" /\ closing' = [closing EXCEPT !["stopper"] = "test"]
  /\ UNCHANGED <<vars, must_die, worker, tasks, task, fd, abandoned, overlapped>>

Stop ==
  /\ stopper = "idle"
  /\ must_die' = TRUE
  /\ stopper' = "close" /\ closing' = [closing EXCEPT !["stopper"] = "test"]
  /\ UNCHANGED <<vars, worker, tasks, task, fd, abandoned, overlapped>>

\* server_socket.close ()
StopCloses ==
  /\ stopper = "close"
  /\ CloseStep("stopper")
  /\ stopper' = IF closing'["stopper"] = "no" THEN "join" ELSE "close"
  /\ UNCHANGED worker

\* worker_thread.join (), and the members are destroyed.
StopJoins ==
  /\ stopper = "join" /\ worker = "done"
  /\ ServerDestroy(server_socket)
  /\ stopper' = "gone"
  /\ UNCHANGED <<must_die, worker, tasks, task, local>>

StopStep == StopCloses \/ StopJoins

-----------------------------------------------------------------------------

HttpNext ==
  \/ WorkerProgress \/ WorkerAccepts
  \/ \E c \in Clients : TaskReceives(c) \/ TaskProgress(c)
  \/ Stop \/ StopStep

\* Started threads run and timeouts run out; nobody has to connect, to send a
\* request or to call stop().
HttpSpec ==
  /\ HttpInit /\ [][HttpNext]_allVars
  /\ WF_allVars(WorkerProgress) /\ WF_allVars(StopStep)
  /\ \A c \in Clients : WF_allVars(TaskProgress(c))

-----------------------------------------------------------------------------
(* Properties *)

\* Two tasks that close at once have run into the unlocked list of the server
\* (tcp_socket.h:115-117): nothing is defined from then on.
ListBroken == "bad_erase" \in faults

\* Liveness: stop() and the destructor return, whatever the worker was doing
\* when must_die was set: before open(), inside it, in accept() or in its wait
\* for tasks whose clients send nothing (http_server.cpp:69-73).
StopReturns == (stopper = "close") ~> (stopper = "gone" \/ ListBroken)

\* Liveness: every accepted connection is closed, although its peer may keep it
\* open and silent and stop() may come at any time (http_server.cpp:118, 156).
EveryConnectionClosed ==
  \A c \in Clients : (task[c] = "recv") ~> (cli[c].state = "created" \/ ListBroken)

\* When the object is gone no task is left that would use it, and no descriptor
\* of a connection is still allocated (http_server.cpp:61, 72, 105).  Descriptors
\* of server_socket are lost in two ways only: open() returned from a failed
\* setsockopt() with one (udp_socket.h:444, 455), or the close() of stop()
\* overlapped an open() (udp_socket.h:411-490), which costs no more than the one
\* this open() had created.
CleanAfterStop ==
  (stopper = "gone" /\ ~ ListBroken) =>
    /\ \A c \in Clients : task[c] = "none" /\ ~ cli[c].live
    /\ \A f \in FDs : holder[f] # "free" =>
         /\ holder[f] = server_socket
         /\ f \in abandoned \/ (overlapped /\ f = fd)

\* What udp_socket.h:476-481 says of close(): it closes a socket that has a
\* descriptor, is safe from another thread, and the destructor calls it.  Then
\* nothing is allocated when the object is gone and no setsockopt() has failed.
NothingLost ==
  (stopper = "gone" /\ ~ ListBroken /\ abandoned = {}) =>
    \A f \in FDs : holder[f] = "free"

=============================================================================
