-------------------------- MODULE SocketLifecycle --------------------------
(***************************************************************************)
(* The life of one udp_socket_t / tcp_socket_t object (include/            *)
(* udp_socket.h, the Linux build): construction, open() with its           *)
(* non-blocking connect, the I/O calls, move-out, close() and destruction, *)
(* by the thread that owns the object, while other threads may call        *)
(* close() on the same object (udp_socket.h:479).                          *)
(*                                                                         *)
(* The fields `state' and `sock' are plain, so every read or write of them *)
(* that another thread can observe is a step of its own.  A non-blocking   *)
(* system call reads `sock' and takes effect in one step; a call that may  *)
(* block (poll, recv, send) is entered in one step, which fixes the open   *)
(* file it works on, and returns in another.                               *)
(*                                                                         *)
(* Descriptors are allocated by the kernel, which hands a closed one out   *)
(* again, to this object or to some other part of the process.             *)
(***************************************************************************)
EXTENDS Integers, FiniteSets

CONSTANTS
  FDs,                \* descriptors the kernel can hand out
  INVALID_SOCKET,     \* the value of `sock' when there is none
  Owner,              \* the thread that opens, uses and destroys the object
  Closers,            \* threads that only call close()
  Kinds,              \* which sockets are built: [type, socket_type] records
  Timeouts,           \* the timeout_ms arguments of open()
  ConnectTimeout,     \* the connect_timeout_ms argument of open()
  Calls,              \* the I/O operations the owner calls
  CloseBeforeReopen,  \* the owner closes a socket whose open() left it prepared
  SerialClose,        \* no call begins while another thread is inside close()
  CloseWindow         \* where the owner may be when another close() begins

Threads == {Owner} \cup Closers
Types == {"dgram", "raw", "stream"}
SocketTypes == {"server", "client"}
AllCalls == {"recv", "recvfrom", "send", "sendto"}
Chunk == 500          \* one poll() of _connect waits at most this long (ms)

ASSUME DescriptorAssumption == INVALID_SOCKET \notin FDs
ASSUME ThreadAssumption == Owner \notin Closers
ASSUME KindAssumption == Kinds \subseteq [type : Types, socket_type : SocketTypes]
ASSUME TimeAssumption == Timeouts \subseteq Nat /\ ConnectTimeout \in Nat
ASSUME CallAssumption == Calls \subseteq AllCalls
ASSUME UsageAssumption == CloseBeforeReopen \in BOOLEAN /\ SerialClose \in BOOLEAN

VARIABLES
  \* the fields of the object
  kind, state, sock, address_local, address_remote,
  \* the kernel: who holds a descriptor, which descriptors have O_NONBLOCK, and
  \* SO_RCVTIMEO in microseconds
  holder, nonblock, rcvtimeo,
  \* the threads: program counter and value of the last call
  pc, ret,
  \* locals of the owner's current call
  op, timeout_ms, remaining, rv, err, file,
  \* history: a close() marked the object during the connect wait, polls
  \* begun since, system calls that hit a descriptor of someone else
  interrupted, latePolls, misused

object == <<kind, state, sock, address_local, address_remote>>
kernel == <<holder, nonblock, rcvtimeo>>
locals == <<op, timeout_ms, remaining, rv, err, file>>
history == <<interrupted, latePolls, misused>>
vars == <<object, kernel, pc, ret, locals, history>>

states == {"created", "prepared", "opened"}
OpenLabels == {"socket", "hdrincl", "reuseaddr", "rcvtimeo", "bind", "nonblock",
               "connect", "poll_loop", "poll", "poll_wait", "poll_check",
               "so_error", "restore_check", "restore", "names", "set_opened",
               "listen"}
CloseLabels == {"close_check", "close_mark", "close_fd", "close_inval"}
IoLabels == {"io_enter", "io_wait", "io_names"}
Labels == {"idle", "destroyed"} \cup OpenLabels \cup CloseLabels \cup IoLabels

Errnos == {"EWOULDBLOCK", "EADDRNOTAVAIL", "ECONNREFUSED", "EBADF",
           "EINPROGRESS", "ETIMEDOUT", "ECONNABORTED", "EOTHER"}
Codes == {"no_error", "error_already_opened", "error_open_failed",
          "error_closed_or_not_open", "error_not_allowed", "error_tcp_closed",
          "error_timeout", "error_unreachable", "error_invalid_address",
          "error_other"}
Results == Codes \cup {"bytes", "zero"}   \* a byte count: positive, or 0

-----------------------------------------------------------------------------
(* Helpers *)

\* Mutant: an errno the switch does not know is returned as it is.
log_and_return_Unmapped(e) ==
  IF e = "EWOULDBLOCK" THEN "error_timeout"
  ELSE IF e = "EBADF" THEN "error_closed_or_not_open"
  ELSE e

\* log_and_return: the code a call returns for a result of the system call.
log_and_return(e) ==
  IF e = "EWOULDBLOCK" THEN "error_timeout"
  ELSE IF e = "EADDRNOTAVAIL" THEN "error_invalid_address"
  ELSE IF e = "ECONNREFUSED" THEN "error_unreachable"
  ELSE IF e = "EBADF" THEN "error_closed_or_not_open"
  ELSE IF e \in Errnos THEN "error_other"
  ELSE e

\* Whose descriptor a system call on `sock' reaches now.
Target == IF sock \in FDs THEN holder[sock] ELSE "free"

\* A system call that closes, or changes or uses, a descriptor of someone else.
Touch(how) ==
  misused' = IF Target = "foreign" THEN misused \cup {how} ELSE misused

\* A closed descriptor loses its flags and options.
Release(f) ==
  /\ holder' = [holder EXCEPT ![f] = "free"]
  /\ nonblock' = nonblock \ {f}
  /\ rcvtimeo' = [rcvtimeo EXCEPT ![f] = 0]

\* What the two name calls report for `sock'; a failing call leaves zeros.
_getsockname == CASE Target = "mine"    -> "own"
                  [] Target = "foreign" -> "foreign"
                  [] Target = "free"    -> "empty"
_getpeername == CASE Target = "mine"    -> IF kind.type = "stream"
                                             THEN {"peer", "empty"} ELSE {"peer"}
                  [] Target = "foreign" -> {"foreign", "empty"}
                  [] Target = "free"    -> {"empty"}

\* Mutant: the seconds are lost, so that the timeval is zero (no timeout).
TimevalOf_Zero(ms) == ms % 1000

\* timeval { timeout_ms / 1000, timeout_ms % 1000 } as the kernel reads it.
TimevalOf(ms) == (ms \div 1000) * 1000000 + (ms % 1000)

Goto(t, l) == pc' = [pc EXCEPT ![t] = l]
Return(t, code) == Goto(t, "idle") /\ ret' = [ret EXCEPT ![t] = code]
CallThenClose(t, code) == Goto(t, "close_check") /\ ret' = [ret EXCEPT ![t] = code]

\* The locals of a wait go out of scope.
EndOfScope == remaining' = 0 /\ rv' = 0 /\ file' = "none"

\* A thread may begin a call on the object.
MayCall(t) ==
  /\ pc[t] = "idle"
  /\ pc[Owner] # "destroyed"
  /\ SerialClose => \A u \in Threads \ {t} : pc[u] \notin CloseLabels
  /\ t # Owner => pc[Owner] \in CloseWindow

-----------------------------------------------------------------------------
(* Construction, move-out and destruction *)

Init ==
  /\ kind \in Kinds
  /\ state = "created" /\ sock = INVALID_SOCKET
  /\ address_local = "empty" /\ address_remote = "empty"
  /\ holder = [f \in FDs |-> "free"]
  /\ nonblock = {}
  /\ rcvtimeo = [f \in FDs |-> 0]
  /\ pc = [t \in Threads |-> "idle"]
  /\ ret = [t \in Threads |-> "no_error"]
  /\ op = "none" /\ timeout_ms = 0 /\ remaining = 0
  /\ rv = 0 /\ err = "none" /\ file = "none"
  /\ interrupted = FALSE /\ latePolls = 0 /\ misused = {}

\* A new object in place of the destroyed one.
Construct ==
  /\ pc[Owner] = "destroyed"
  /\ kind' \in Kinds
  /\ state' = "created" /\ sock' = INVALID_SOCKET
  /\ address_local' = "empty" /\ address_remote' = "empty"
  /\ Goto(Owner, "idle")
  /\ UNCHANGED <<kernel, ret, locals, history>>

\* Mutant: the moved-from object is not reset.
MoveOut_KeepsState ==
  /\ \A t \in Threads : pc[t] = "idle"
  /\ holder' = [f \in FDs |-> IF f = sock /\ holder[f] = "mine" THEN "foreign" ELSE holder[f]]
  /\ UNCHANGED <<object, nonblock, rcvtimeo, pc, ret, locals, history>>

\* The move constructor, seen from the object it empties: the descriptor now
\* belongs to another object.
MoveOut ==
  /\ \A t \in Threads : pc[t] = "idle"
  /\ holder' = [f \in FDs |-> IF f = sock /\ state # "created" /\ holder[f] = "mine"
                                THEN "foreign" ELSE holder[f]]
  /\ state' = "created" /\ sock' = INVALID_SOCKET
  /\ address_local' = "empty" /\ address_remote' = "empty"
  /\ UNCHANGED <<kind, nonblock, rcvtimeo, pc, ret, locals, history>>

\* The destructor calls close(); CloseInval and CloseCheck end it.
Destroy ==
  /\ \A t \in Threads : pc[t] = "idle"
  /\ op' = "destroy"
  /\ CallThenClose(Owner, "no_error")
  /\ UNCHANGED <<object, kernel, timeout_ms, remaining, rv, err, file, history>>

-----------------------------------------------------------------------------
(* close(), by any thread *)

CallClose(t) ==
  /\ MayCall(t)
  /\ IF t = Owner THEN op' = "close" ELSE op' = op
  /\ CallThenClose(t, "no_error")
  /\ UNCHANGED <<object, kernel, timeout_ms, remaining, rv, err, file, history>>

CloseEnd(t) ==
  Goto(t, IF t = Owner /\ op = "destroy" THEN "destroyed" ELSE "idle")

\* if (state != created)
CloseCheck(t) ==
  /\ pc[t] = "close_check"
  /\ IF state = "created" THEN CloseEnd(t) ELSE Goto(t, "close_mark")
  /\ UNCHANGED <<object, kernel, ret, locals, history>>

ConnectWait == {"poll_loop", "poll", "poll_wait", "poll_check"}

\* state = created
CloseMark(t) ==
  /\ pc[t] = "close_mark"
  /\ state' = "created"
  /\ interrupted' = (interrupted \/ (t # Owner /\ pc[Owner] \in ConnectWait))
  /\ Goto(t, "close_fd")
  /\ UNCHANGED <<kind, sock, address_local, address_remote, kernel, ret, locals,
                 latePolls, misused>>

\* closesocket (sock)
CloseFd(t) ==
  /\ pc[t] = "close_fd"
  /\ Touch("close")
  /\ IF sock \in FDs THEN Release(sock) ELSE UNCHANGED kernel
  /\ Goto(t, "close_inval")
  /\ UNCHANGED <<object, ret, locals, interrupted, latePolls>>

\* Mutant: close() leaves the old number in `sock'.
CloseInval_KeepsSock(t) ==
  /\ pc[t] = "close_inval"
  /\ CloseEnd(t)
  /\ UNCHANGED <<object, kernel, ret, locals, history>>

\* sock = INVALID_SOCKET
CloseInval(t) ==
  /\ pc[t] = "close_inval"
  /\ sock' = INVALID_SOCKET
  /\ CloseEnd(t)
  /\ UNCHANGED <<kind, state, address_local, address_remote, kernel, ret, locals,
                 history>>

-----------------------------------------------------------------------------
(* open(): the descriptor and its options *)

CallOpen(ms) ==
  /\ MayCall(Owner)
  /\ ~ (CloseBeforeReopen /\ state = "prepared")
  /\ op' = "open" /\ err' = "none"
  /\ interrupted' = FALSE /\ latePolls' = 0
  /\ IF state = "opened"
       THEN Return(Owner, "error_already_opened") /\ UNCHANGED <<state, timeout_ms>>
       ELSE /\ Goto(Owner, "socket") /\ UNCHANGED ret
            /\ state' = "prepared" /\ timeout_ms' = ms
  /\ UNCHANGED <<kind, sock, address_local, address_remote, kernel, remaining,
                 rv, file, misused>>

FirstOption == CASE kind.type = "raw"           -> "hdrincl"
                 [] kind.type # "raw" /\ kind.socket_type = "server" -> "reuseaddr"
                 [] OTHER                        -> "rcvtimeo"

SocketCreated ==
  /\ pc[Owner] = "socket"
  /\ \E f \in FDs :
       /\ holder[f] = "free"
       /\ sock' = f
       /\ holder' = [holder EXCEPT ![f] = "mine"]
  /\ Goto(Owner, FirstOption)
  /\ UNCHANGED <<kind, state, address_local, address_remote, nonblock, rcvtimeo,
                 ret, locals, history>>

\* Mutant: a failed socket() leaves the state prepared.
SocketFails_StaysPrepared ==
  /\ pc[Owner] = "socket"
  /\ sock' = INVALID_SOCKET
  /\ Return(Owner, "error_open_failed")
  /\ UNCHANGED <<kind, state, address_local, address_remote, kernel, locals, history>>

SocketFails ==
  /\ pc[Owner] = "socket"
  /\ sock' = INVALID_SOCKET
  /\ state' = "created"
  /\ Return(Owner, "error_open_failed")
  /\ UNCHANGED <<kind, address_local, address_remote, kernel, locals, history>>

\* A setsockopt() that fails: open() returns at once, the object stays as it is.
SetsockoptFails ==
  /\ pc[Owner] \in {"hdrincl", "reuseaddr", "rcvtimeo"}
  /\ err' = IF Target = "free" THEN "EBADF" ELSE "EOTHER"
  /\ Return(Owner, log_and_return(err'))
  /\ UNCHANGED <<object, kernel, op, timeout_ms, remaining, rv, file, history>>

SetHdrincl ==
  /\ pc[Owner] = "hdrincl" /\ Target # "free"
  /\ Touch("use")
  /\ Goto(Owner, "set_opened")
  /\ UNCHANGED <<object, kernel, ret, locals, interrupted, latePolls>>

SetReuseaddr ==
  /\ pc[Owner] = "reuseaddr" /\ Target # "free"
  /\ Touch("use")
  /\ Goto(Owner, "rcvtimeo")
  /\ UNCHANGED <<object, kernel, ret, locals, interrupted, latePolls>>

SetRcvtimeo ==
  /\ pc[Owner] = "rcvtimeo" /\ Target # "free"
  /\ Touch("use")
  /\ rcvtimeo' = [rcvtimeo EXCEPT ![sock] = TimevalOf(timeout_ms)]
  /\ Goto(Owner, IF kind.socket_type = "server" THEN "bind" ELSE "nonblock")
  /\ UNCHANGED <<object, holder, nonblock, ret, locals, interrupted, latePolls>>

\* The local `err' carries the error of bind() or _connect(); "none" is res == 0.
Bind ==
  /\ pc[Owner] = "bind"
  /\ Touch("use")
  /\ err' \in IF Target = "free" THEN {"EBADF"} ELSE {"none", "EADDRNOTAVAIL", "EOTHER"}
  /\ Goto(Owner, "names")
  /\ UNCHANGED <<object, kernel, ret, op, timeout_ms, remaining, rv, file,
                 interrupted, latePolls>>

-----------------------------------------------------------------------------
(* _connect() *)

SetNonblock ==
  /\ pc[Owner] = "nonblock"
  /\ Touch("use")
  /\ nonblock' = IF Target = "free" THEN nonblock ELSE nonblock \cup {sock}
  /\ Goto(Owner, "connect")
  /\ UNCHANGED <<object, holder, rcvtimeo, ret, locals, interrupted, latePolls>>

ConnectErrors ==
  IF Target = "free" THEN {"EBADF"}
  ELSE {"none", "ECONNREFUSED", "EADDRNOTAVAIL", "EOTHER"}
       \cup (IF kind.type = "stream" THEN {"EINPROGRESS"} ELSE {})

Connect ==
  /\ pc[Owner] = "connect"
  /\ Touch("use")
  /\ err' \in ConnectErrors
  /\ IF err' = "EINPROGRESS"
       THEN Goto(Owner, "poll_loop") /\ remaining' = ConnectTimeout
       ELSE Goto(Owner, "restore_check") /\ UNCHANGED remaining
  /\ UNCHANGED <<object, kernel, ret, op, timeout_ms, rv, file, interrupted, latePolls>>

\* Mutant: the loop does not look at the state.
PollLoop_IgnoresState ==
  /\ pc[Owner] = "poll_loop"
  /\ Goto(Owner, IF remaining > 0 THEN "poll" ELSE "poll_check")
  /\ UNCHANGED <<object, kernel, ret, locals, history>>

\* while (remaining > 0 && state == prepared)
PollLoop ==
  /\ pc[Owner] = "poll_loop"
  /\ Goto(Owner, IF remaining > 0 /\ state = "prepared" THEN "poll" ELSE "poll_check")
  /\ UNCHANGED <<object, kernel, ret, locals, history>>

\* poll() ignores a negative descriptor and reports a closed one at once.
Poll ==
  /\ pc[Owner] = "poll"
  /\ file' = CASE sock \notin FDs -> "ignored"
               [] sock \in FDs /\ Target = "free" -> "bad"
               [] OTHER -> "timed"
  /\ latePolls' = IF interrupted THEN latePolls + 1 ELSE latePolls
  /\ Goto(Owner, "poll_wait")
  /\ UNCHANGED <<object, kernel, ret, op, timeout_ms, remaining, rv, err,
                 interrupted, misused>>

PollReady ==
  /\ pc[Owner] = "poll_wait" /\ file # "ignored"
  /\ rv' = 1
  /\ Goto(Owner, "poll_check")
  /\ UNCHANGED <<object, kernel, ret, op, timeout_ms, remaining, err, file, history>>

PollSignal ==
  /\ pc[Owner] = "poll_wait" /\ file # "bad"
  /\ rv' = -1
  /\ Goto(Owner, "poll_check")
  /\ UNCHANGED <<object, kernel, ret, op, timeout_ms, remaining, err, file, history>>

\* Mutant: the chunk is not taken off the remaining time.
PollTimeout_NoProgress ==
  /\ pc[Owner] = "poll_wait" /\ file # "bad"
  /\ rv' = 0
  /\ Goto(Owner, "poll_loop")
  /\ UNCHANGED <<object, kernel, ret, op, timeout_ms, remaining, err, file, history>>

PollTimeout ==
  /\ pc[Owner] = "poll_wait" /\ file # "bad"
  /\ rv' = 0
  /\ remaining' = remaining - (IF remaining > Chunk THEN Chunk ELSE remaining)
  /\ Goto(Owner, "poll_loop")
  /\ UNCHANGED <<object, kernel, ret, op, timeout_ms, err, file, history>>

ConnectErrno(e) == IF e = "EINPROGRESS" THEN "ETIMEDOUT" ELSE e

\* Mutant: the result of poll() decides without a look at the state.
PollCheck_IgnoresState ==
  /\ pc[Owner] = "poll_check"
  /\ IF rv > 0 THEN Goto(Owner, "so_error") /\ UNCHANGED err
               ELSE Goto(Owner, "restore_check") /\ err' = ConnectErrno(err)
  /\ EndOfScope
  /\ UNCHANGED <<object, kernel, ret, op, timeout_ms, history>>

PollCheck ==
  /\ pc[Owner] = "poll_check"
  /\ IF state = "prepared" /\ rv > 0
       THEN Goto(Owner, "so_error") /\ UNCHANGED err
       ELSE /\ Goto(Owner, "restore_check")
            /\ err' = IF state # "prepared" THEN "ECONNABORTED" ELSE ConnectErrno(err)
  /\ EndOfScope
  /\ UNCHANGED <<object, kernel, ret, op, timeout_ms, history>>

\* getsockopt (SO_ERROR) into so_error = 0; its own failure is not looked at.
SoError ==
  /\ pc[Owner] = "so_error"
  /\ err' \in IF Target = "free" THEN {"none"} ELSE {"none", "ECONNREFUSED", "EOTHER"}
  /\ Goto(Owner, "restore_check")
  /\ UNCHANGED <<object, kernel, ret, op, timeout_ms, remaining, rv, file, history>>

\* Mutant: the descriptor stays non-blocking.
RestoreCheck_Never ==
  /\ pc[Owner] = "restore_check"
  /\ Goto(Owner, "names")
  /\ UNCHANGED <<object, kernel, ret, locals, history>>

RestoreCheck ==
  /\ pc[Owner] = "restore_check"
  /\ Goto(Owner, IF state # "created" THEN "restore" ELSE "names")
  /\ UNCHANGED <<object, kernel, ret, locals, history>>

Restore ==
  /\ pc[Owner] = "restore"
  /\ Touch("use")
  /\ nonblock' = nonblock \ {sock}
  /\ Goto(Owner, "names")
  /\ UNCHANGED <<object, holder, rcvtimeo, ret, locals, interrupted, latePolls>>

-----------------------------------------------------------------------------
(* open(): the end *)

Names ==
  /\ pc[Owner] = "names"
  /\ address_local' = IF kind.socket_type = "server" THEN "own" ELSE _getsockname
  /\ address_remote' = IF kind.socket_type = "server" THEN "empty" ELSE "peer"
  /\ IF err # "none"
       THEN CallThenClose(Owner, "error_open_failed")
       ELSE Goto(Owner, "set_opened") /\ UNCHANGED ret
  /\ UNCHANGED <<kind, state, sock, kernel, locals, history>>

SetOpened ==
  /\ pc[Owner] = "set_opened"
  /\ state' = "opened"
  /\ address_remote' = IF kind.type = "raw" THEN "peer" ELSE address_remote
  /\ IF kind = [type |-> "stream", socket_type |-> "server"]
       THEN Goto(Owner, "listen") /\ UNCHANGED ret
       ELSE Return(Owner, "no_error")
  /\ UNCHANGED <<kind, sock, address_local, kernel, locals, history>>

Listen ==
  /\ pc[Owner] = "listen"
  /\ Touch("use")
  /\ \/ Target # "free" /\ Return(Owner, "no_error")
     \/ CallThenClose(Owner, "error_open_failed")
  /\ UNCHANGED <<object, kernel, locals, interrupted, latePolls>>

-----------------------------------------------------------------------------
(* recv(), recvfrom(), send(), sendto() *)

Refusal(c) ==
  IF state # "opened" THEN "error_closed_or_not_open"
  ELSE IF c \in {"recv", "send"} /\ (kind.socket_type = "server" \/ kind.type = "raw")
         THEN "error_not_allowed"
  ELSE "none"

CallIo(c) ==
  /\ MayCall(Owner)
  /\ op' = c /\ err' = "none"
  /\ IF Refusal(c) = "none"
       THEN Goto(Owner, "io_enter") /\ UNCHANGED ret
       ELSE Return(Owner, Refusal(c))
  /\ UNCHANGED <<object, kernel, timeout_ms, remaining, rv, file, history>>

\* How long the system call can wait on the file it finds: SO_RCVTIMEO limits
\* receiving only; sending a datagram does not wait.
Patience ==
  CASE Target = "free" -> "bad"
    [] Target # "free" /\ (sock \in nonblock \/ (op \in {"send", "sendto"} /\ kind.type # "stream"))
                       -> "instant"
    [] OTHER -> IF op \in {"recv", "recvfrom"} /\ rcvtimeo[sock] > 0
                  THEN "timed" ELSE "untimed"

IoEnter ==
  /\ pc[Owner] = "io_enter"
  /\ Touch("use")
  /\ file' = Patience
  /\ Goto(Owner, "io_wait")
  /\ UNCHANGED <<object, kernel, ret, op, timeout_ms, remaining, rv, err,
                 interrupted, latePolls>>

IoReturns(results) ==
  /\ pc[Owner] = "io_wait"
  /\ err' \in results
  /\ Goto(Owner, "io_names")
  /\ UNCHANGED <<object, kernel, ret, op, timeout_ms, remaining, rv, file, history>>

\* Data, an end of stream or an empty datagram, or an error of the connection.
IoCompletes ==
  /\ file \in {"instant", "timed", "untimed"}
  /\ IoReturns({"bytes", "zero", "ECONNREFUSED", "EADDRNOTAVAIL", "EOTHER"})

\* SO_RCVTIMEO expired, or a non-blocking descriptor has nothing.
IoTimeout == file \in {"instant", "timed"} /\ IoReturns({"EWOULDBLOCK"})

IoBad == file = "bad" /\ IoReturns({"EBADF"})

\* recvfrom fills the sender only when a datagram was received.
SenderAddress ==
  IF err \notin {"bytes", "zero"} \/ kind.type = "stream" THEN "empty"
  ELSE IF kind = [type |-> "dgram", socket_type |-> "client"] THEN "peer" ELSE "other"

IoNames ==
  /\ pc[Owner] = "io_names"
  /\ address_local' = IF op = "sendto" /\ kind.type = "raw" THEN "packet" ELSE _getsockname
  /\ address_remote' \in CASE op = "recvfrom" -> {SenderAddress}
                           [] op = "sendto"   -> {"other"}
                           [] OTHER           -> _getpeername
  /\ Return(Owner, IF op = "recv" /\ kind.type = "stream" /\ err = "zero"
                     THEN "error_tcp_closed" ELSE log_and_return(err))
  /\ EndOfScope
  /\ UNCHANGED <<kind, state, sock, kernel, op, timeout_ms, err, history>>

-----------------------------------------------------------------------------
(* The rest of the process opens and closes descriptors of its own. *)

ForeignOpen(f) ==
  /\ holder[f] = "free"
  /\ holder' = [holder EXCEPT ![f] = "foreign"]
  /\ UNCHANGED <<object, nonblock, rcvtimeo, pc, ret, locals, history>>

ForeignClose(f) ==
  /\ holder[f] = "foreign"
  /\ Release(f)
  /\ UNCHANGED <<object, pc, ret, locals, history>>

-----------------------------------------------------------------------------

CloseStep(t) == CloseCheck(t) \/ CloseMark(t) \/ CloseFd(t) \/ CloseInval(t)

OpenStep ==
  \/ SocketCreated \/ SocketFails \/ SetsockoptFails
  \/ SetHdrincl \/ SetReuseaddr \/ SetRcvtimeo \/ Bind
  \/ SetNonblock \/ Connect \/ PollLoop \/ Poll
  \/ PollReady \/ PollSignal \/ PollTimeout \/ PollCheck \/ SoError
  \/ RestoreCheck \/ Restore \/ Names \/ SetOpened \/ Listen

IoStep == IoEnter \/ IoCompletes \/ IoTimeout \/ IoBad \/ IoNames

Next ==
  \/ Construct \/ MoveOut \/ Destroy
  \/ \E t \in Threads : CallClose(t) \/ CloseStep(t)
  \/ \E ms \in Timeouts : CallOpen(ms)
  \/ OpenStep
  \/ \E c \in Calls : CallIo(c)
  \/ IoStep
  \/ \E f \in FDs : ForeignOpen(f) \/ ForeignClose(f)

Spec == Init /\ [][Next]_vars

\* A thread inside a call keeps running and the timers of the kernel expire;
\* nobody has to call anything, and no data has to arrive.
Fairness ==
  /\ WF_vars(OpenStep)
  /\ WF_vars(IoEnter \/ IoTimeout \/ IoBad \/ IoNames)
  /\ \A t \in Threads : WF_vars(CloseStep(t))

FairSpec == Spec /\ Fairness

-----------------------------------------------------------------------------
(* Properties *)

TypeOK ==
  /\ kind \in [type : Types, socket_type : SocketTypes]
  /\ state \in states
  /\ sock \in FDs \cup {INVALID_SOCKET}
  /\ address_local \in {"empty", "own", "packet", "foreign"}
  /\ address_remote \in {"empty", "peer", "other", "foreign"}
  /\ holder \in [FDs -> {"free", "mine", "foreign"}]
  /\ nonblock \subseteq FDs
  /\ rcvtimeo \in [FDs -> Nat]
  /\ pc \in [Threads -> Labels]
  /\ \A c \in Closers : pc[c] \in {"idle"} \cup CloseLabels
  /\ ret \in [Threads -> Results]
  /\ op \in AllCalls \cup {"none", "open", "close", "destroy"}
  /\ timeout_ms \in Nat /\ remaining \in Nat
  /\ rv \in {-1, 0, 1}
  /\ err \in Errnos \cup {"none", "bytes", "zero"}
  /\ pc[Owner] = "io_names" => err # "none"
  /\ file \in {"none", "ignored", "bad", "instant", "timed", "untimed"}
  /\ interrupted \in BOOLEAN /\ latePolls \in Nat
  /\ misused \subseteq {"close", "use"}

Mine == {f \in FDs : holder[f] = "mine"}
Quiescent == \A t \in Threads : pc[t] \in {"idle", "destroyed"}

\* Between calls the object holds exactly one descriptor, the one in `sock',
\* when its state is prepared or opened, and none when it is created: no path
\* through open(), close(), a move or the destructor leaks a descriptor or
\* keeps a dead one (state_e, udp_socket.h:168-172).
OneDescriptor ==
  Quiescent => IF state = "created" THEN sock = INVALID_SOCKET /\ Mine = {}
                                    ELSE sock \in FDs /\ Mine = {sock}

\* No system call of the object changes, uses or closes a descriptor that
\* belongs to another part of the process.
TouchesOnlyOwn == misused = {}

\* A socket that open() reports as opened is ready for the blocking calls: the
\* O_NONBLOCK of the connect phase is gone and the receive timeout of the last
\* successful open() is armed (udp_socket.h:453).
OpenedIsArmed ==
  (Quiescent /\ state = "opened") =>
     /\ sock \notin nonblock
     /\ kind.type # "raw" => rcvtimeo[sock] = 1000 * timeout_ms

\* A close() from another thread during the connect wait decides the open():
\* whatever the kernel reports about the connection afterwards, open() returns
\* error_open_failed and never a socket that was closed under it.
CloseAbortsConnect ==
  (interrupted /\ pc[Owner] = "idle" /\ op = "open") => ret[Owner] = "error_open_failed"

\* That close() is detected promptly (udp_socket.h:315-316): after it marked the
\* object, _connect begins at most one more poll of at most Chunk milliseconds.
CloseDetectedPromptly == latePolls <= 1

\* Liveness: every open() comes to an end, whether the peer answers or not and
\* whoever closes the object meanwhile (udp_socket.h:311).
OpenReturns == pc[Owner] = "socket" ~> pc[Owner] = "idle"

\* Liveness: a receiving call returns although nothing arrives, because
\* SO_RCVTIMEO is set to "periodically unstick" it (udp_socket.h:448).
ReceiveReturns ==
  (pc[Owner] = "io_enter" /\ op \in {"recv", "recvfrom"}) ~> pc[Owner] = "idle"

-----------------------------------------------------------------------------
(* Inductive invariants *)

\* Why CloseAbortsConnect and CloseDetectedPromptly hold: from the mark of the
\* close() on, the state stays created while the owner waits, so the wait ends
\* at its next look at the state, with an error that nothing clears.
ConnectInv ==
  /\ pc[Owner] \in OpenLabels => op = "open"
  /\ pc[Owner] \in IoLabels \cup {"destroyed"} => op # "open"
  /\ (interrupted /\ pc[Owner] \in OpenLabels) =>
        \/ pc[Owner] \in ConnectWait /\ state = "created"
        \/ pc[Owner] \in {"restore_check", "restore", "names"} /\ err # "none"
  /\ (interrupted /\ op = "open" /\ pc[Owner] \in CloseLabels \cup {"idle"}) =>
        ret[Owner] = "error_open_failed"
  /\ latePolls <= 1
  /\ (~ interrupted \/ pc[Owner] = "poll") => latePolls = 0

-----------------------------------------------------------------------------
(* What comments in the source say and the code does not do *)

\* udp_socket.h:171: opened means ready for send/recv.
OpenedHasDescriptor == (Quiescent /\ state = "opened") => Target = "mine"

=============================================================================
