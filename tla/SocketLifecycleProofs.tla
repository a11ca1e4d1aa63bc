----------------------- MODULE SocketLifecycleProofs -----------------------
(***************************************************************************)
(* Theorems about SocketLifecycle, for every set of descriptors, every set *)
(* of closing threads and every timeout.                                   *)
(***************************************************************************)
EXTENDS SocketLifecycle, TLAPS

USE DescriptorAssumption, ThreadAssumption, KindAssumption, TimeAssumption,
    CallAssumption, UsageAssumption

\* log_and_return turns every errno and byte count into a result of the library.
LEMMA LogAndReturnType ==
  ASSUME NEW e \in Errnos \cup {"bytes", "zero"}
  PROVE  log_and_return(e) \in Results
BY DEF log_and_return, Errnos, Results, Codes

\* A constructed object, with no thread in a call, has its types.
LEMMA TypeInit == Init => TypeOK
<1> SUFFICES ASSUME Init PROVE TypeOK
  OBVIOUS
<1>1. kind \in [type : Types, socket_type : SocketTypes]
  BY DEF Init
<1>2. /\ pc \in [Threads -> Labels] /\ ret \in [Threads -> Results]
      /\ \A c \in Closers : pc[c] \in {"idle"} \cup CloseLabels
      /\ pc[Owner] = "idle"
  BY DEF Init, Threads, Labels, Results, Codes
<1>3. holder \in [FDs -> {"free", "mine", "foreign"}] /\ rcvtimeo \in [FDs -> Nat]
  BY DEF Init
<1>4. interrupted \in BOOLEAN
  BY Zenon DEF Init
<1> QED
  BY <1>1, <1>2, <1>3, <1>4 DEF Init, TypeOK, states

\* Every step of every call keeps the types.
LEMMA TypeNext == TypeOK /\ [Next]_vars => TypeOK'
<1> SUFFICES ASSUME TypeOK, [Next]_vars PROVE TypeOK'
  OBVIOUS
<1> USE DEF TypeOK, states, Threads, Goto, object, kernel, locals, history
<1>1. CASE Construct
  BY <1>1 DEF Construct, Labels
<1>2. CASE MoveOut
  BY <1>2 DEF MoveOut, Labels
<1>3. CASE Destroy
  BY <1>3 DEF Destroy, CallThenClose, Labels, Results, Codes, CloseLabels
<1>4. ASSUME NEW t \in Threads, CallClose(t) PROVE TypeOK'
  BY <1>4 DEF CallClose, CallThenClose, Labels, Results, Codes, CloseLabels
<1>5. ASSUME NEW t \in Threads, CloseStep(t) PROVE TypeOK'
  <2>1. CASE CloseCheck(t)
    BY <2>1 DEF CloseCheck, CloseEnd, Labels, CloseLabels
  <2>2. CASE CloseMark(t)
    BY <2>2 DEF CloseMark, Labels, CloseLabels
  <2>3. CASE CloseFd(t)
    BY <2>3 DEF CloseFd, Touch, Release, Labels, CloseLabels
  <2>4. CASE CloseInval(t)
    BY <2>4 DEF CloseInval, CloseEnd, Labels, CloseLabels
  <2> QED BY <1>5, <2>1, <2>2, <2>3, <2>4 DEF CloseStep
<1>6. ASSUME NEW ms \in Timeouts, CallOpen(ms) PROVE TypeOK'
  <2>1. interrupted' = FALSE
    BY <1>6, Zenon DEF CallOpen
  <2>2. /\ latePolls' = 0 /\ err' = "none" /\ op' = "open"
        /\ UNCHANGED <<kind, sock, address_local, address_remote, holder, nonblock,
                       rcvtimeo, remaining, rv, file, misused>>
    BY <1>6, Zenon DEF CallOpen
  <2>3. CASE state = "opened"
    <3>1. pc' = [pc EXCEPT ![Owner] = "idle"] /\ ret' = [ret EXCEPT ![Owner] = "error_already_opened"]
      BY <1>6, <2>3 DEF CallOpen, Return
    <3>2. state' = state /\ timeout_ms' = timeout_ms
      BY <1>6, <2>3 DEF CallOpen
    <3>3. ret' \in [Threads -> Results]
      BY <3>1 DEF Results, Codes
    <3>4. pc' \in [Threads -> Labels] /\ pc'[Owner] = "idle"
      BY <3>1 DEF Labels
    <3>5. \A c \in Closers : pc'[c] \in {"idle"} \cup CloseLabels
      BY <3>1
    <3>6. state' \in states /\ timeout_ms' \in Nat
      BY <3>2
    <3> QED BY <2>1, <2>2, <3>3, <3>4, <3>5, <3>6
  <2>4. CASE state # "opened"
    <3>1. pc' = [pc EXCEPT ![Owner] = "socket"] /\ ret' = ret
      BY <1>6, <2>4 DEF CallOpen
    <3>2. state' = "prepared" /\ timeout_ms' = ms
      BY <1>6, <2>4 DEF CallOpen
    <3>3. pc' \in [Threads -> Labels] /\ pc'[Owner] = "socket"
      BY <3>1 DEF Labels, OpenLabels
    <3>4. \A c \in Closers : pc'[c] \in {"idle"} \cup CloseLabels
      BY <3>1
    <3> QED BY <2>1, <2>2, <3>1, <3>2, <3>3, <3>4
  <2> QED BY <2>3, <2>4
<1>7. CASE OpenStep
  <2> USE DEF Labels, OpenLabels
  <2>1. CASE SocketCreated
    BY <2>1 DEF SocketCreated, FirstOption
  <2>2. CASE SocketFails
    BY <2>2 DEF SocketFails, Return, Results, Codes
  <2>3. CASE SetsockoptFails
    BY <2>3 DEF SetsockoptFails, Return, log_and_return, Errnos, Results, Codes
  <2>4. CASE SetHdrincl
    BY <2>4 DEF SetHdrincl, Touch
  <2>5. CASE SetReuseaddr
    BY <2>5 DEF SetReuseaddr, Touch
  <2>6. CASE SetRcvtimeo
    BY <2>6 DEF SetRcvtimeo, Touch, TimevalOf, Target
  <2>7. CASE Bind
    BY <2>7 DEF Bind, Touch, Errnos
  <2>8. CASE SetNonblock
    BY <2>8 DEF SetNonblock, Touch, Target
  <2>9. CASE Connect
    BY <2>9 DEF Connect, Touch, ConnectErrors, Errnos
  <2>10. CASE PollLoop
    BY <2>10 DEF PollLoop
  <2>11. CASE Poll
    BY <2>11 DEF Poll
  <2>12. CASE PollReady
    BY <2>12 DEF PollReady
  <2>13. CASE PollSignal
    BY <2>13 DEF PollSignal
  <2>14. CASE PollTimeout
    BY <2>14 DEF PollTimeout, Chunk
  <2>15. CASE PollCheck
    BY <2>15 DEF PollCheck, EndOfScope, ConnectErrno, Errnos
  <2>16. CASE SoError
    BY <2>16 DEF SoError, Errnos
  <2>17. CASE RestoreCheck
    BY <2>17 DEF RestoreCheck
  <2>18. CASE Restore
    BY <2>18 DEF Restore, Touch
  <2>19. CASE Names
    BY <2>19 DEF Names, _getsockname, CallThenClose, CloseLabels, Results, Codes, Target
  <2>20. CASE SetOpened
    BY <2>20 DEF SetOpened, Return, Results, Codes
  <2>21. CASE Listen
    BY <2>21 DEF Listen, Touch, Return, CallThenClose, CloseLabels, Results, Codes
  <2> QED
    BY <1>7, <2>1, <2>2, <2>3, <2>4, <2>5, <2>6, <2>7, <2>8, <2>9, <2>10, <2>11, <2>12, <2>13, <2>14, <2>15, <2>16, <2>17, <2>18, <2>19, <2>20, <2>21 DEF OpenStep
<1>8. ASSUME NEW c \in Calls, CallIo(c) PROVE TypeOK'
  BY <1>8 DEF CallIo, Refusal, Return, Labels, IoLabels, Results, Codes
<1>9. CASE IoStep
  <2> USE DEF Labels, IoLabels
  <2>1. CASE IoEnter
    BY <2>1 DEF IoEnter, Touch, Patience
  <2>2. CASE IoCompletes
    BY <2>2 DEF IoCompletes, IoReturns, Errnos
  <2>3. CASE IoTimeout
    BY <2>3 DEF IoTimeout, IoReturns, Errnos
  <2>4. CASE IoBad
    BY <2>4 DEF IoBad, IoReturns, Errnos
  <2>5. CASE IoNames
    <3>1. Target \in {"free", "mine", "foreign"}
      BY DEF Target
    <3>2. address_local' \in {"empty", "own", "packet", "foreign"}
      BY <2>5, <3>1 DEF IoNames, _getsockname
    <3>3. _getpeername \subseteq {"empty", "peer", "foreign"}
      BY <3>1 DEF _getpeername
    <3>4. address_remote' \in {"empty", "peer", "other", "foreign"}
      <4>1. CASE op = "recvfrom"
        BY <2>5, <4>1 DEF IoNames, SenderAddress
      <4>2. CASE op = "sendto"
        BY <2>5, <4>2 DEF IoNames
      <4>3. CASE op \notin {"recvfrom", "sendto"}
        BY <2>5, <3>3, <4>3 DEF IoNames
      <4> QED BY <4>1, <4>2, <4>3
    <3>5. pc[Owner] = "io_names" /\ err \in Errnos \cup {"bytes", "zero"}
      BY <2>5 DEF IoNames
    <3>6. log_and_return(err) \in Results /\ "error_tcp_closed" \in Results
      BY <3>5, LogAndReturnType DEF Results, Codes
    <3>7. ret' \in [Threads -> Results]
      BY <2>5, <3>6 DEF IoNames, Return
    <3> QED
      BY <2>5, <3>2, <3>4, <3>7 DEF IoNames, EndOfScope, Return
  <2> QED
    BY <1>9, <2>1, <2>2, <2>3, <2>4, <2>5 DEF IoStep
<1>10. ASSUME NEW f \in FDs, ForeignOpen(f) \/ ForeignClose(f) PROVE TypeOK'
  <2>1. CASE ForeignOpen(f)
    BY <2>1 DEF ForeignOpen
  <2>2. CASE ForeignClose(f)
    BY <2>2 DEF ForeignClose, Release
  <2> QED BY <1>10, <2>1, <2>2
<1>11. CASE UNCHANGED vars
  BY <1>11 DEF vars
<1> QED
  BY <1>1, <1>2, <1>3, <1>4, <1>5, <1>6, <1>7, <1>8, <1>9, <1>10, <1>11 DEF Next

\* The type invariant: every field, descriptor table entry, program counter and
\* local of the socket object keeps its type, with any number of threads in
\* close() at once.
THEOREM TypeCorrect == Spec => []TypeOK
BY TypeInit, TypeNext, PTL DEF Spec

-----------------------------------------------------------------------------
(* close() against a connect in progress *)

\* No connect is interrupted in a constructed object.
LEMMA ConnectInit == Init => ConnectInv
BY DEF Init, ConnectInv, OpenLabels, CloseLabels, IoLabels, Threads

\* Every step keeps what is known about an open() that close() interrupted.
LEMMA ConnectNext == TypeOK /\ ConnectInv /\ [Next]_vars => ConnectInv'
<1> SUFFICES ASSUME TypeOK, ConnectInv, [Next]_vars PROVE ConnectInv'
  OBVIOUS
<1>0. /\ pc \in [Threads -> Labels] /\ ret \in [Threads -> Results]
      /\ Owner \in Threads /\ latePolls \in Nat /\ interrupted \in BOOLEAN
      /\ \A c \in Closers : pc[c] \in {"idle"} \cup CloseLabels
  BY DEF TypeOK, Threads
<1> USE <1>0 DEF ConnectInv, ConnectWait, Goto, OpenLabels, CloseLabels, IoLabels, object,
                kernel, locals, history
<1>1. CASE Construct
  BY <1>1 DEF Construct
<1>2. CASE MoveOut
  BY <1>2 DEF MoveOut
<1>3. CASE Destroy
  BY <1>3 DEF Destroy, CallThenClose
<1>4. ASSUME NEW t \in Threads, CallClose(t) PROVE ConnectInv'
  BY <1>4 DEF CallClose, MayCall, CallThenClose
<1>5. ASSUME NEW t \in Threads, CloseStep(t) PROVE ConnectInv'
  <2>1. CASE CloseCheck(t)
    BY <2>1 DEF CloseCheck, CloseEnd
  <2>2. CASE CloseMark(t)
    BY <2>2 DEF CloseMark
  <2>3. CASE CloseFd(t)
    BY <2>3 DEF CloseFd
  <2>4. CASE CloseInval(t)
    BY <2>4 DEF CloseInval, CloseEnd
  <2> QED BY <1>5, <2>1, <2>2, <2>3, <2>4 DEF CloseStep
<1>6. ASSUME NEW ms \in Timeouts, CallOpen(ms) PROVE ConnectInv'
  BY <1>6 DEF CallOpen, MayCall, Return
<1>7. CASE OpenStep
  <2>1. CASE SocketCreated
    BY <2>1 DEF SocketCreated, FirstOption
  <2>2. CASE SocketFails
    BY <2>2 DEF SocketFails, Return
  <2>3. CASE SetsockoptFails
    BY <2>3 DEF SetsockoptFails, Return
  <2>4. CASE SetHdrincl
    BY <2>4 DEF SetHdrincl
  <2>5. CASE SetReuseaddr
    BY <2>5 DEF SetReuseaddr
  <2>6. CASE SetRcvtimeo
    BY <2>6 DEF SetRcvtimeo
  <2>7. CASE Bind
    BY <2>7 DEF Bind
  <2>8. CASE SetNonblock
    BY <2>8 DEF SetNonblock
  <2>9. CASE Connect
    BY <2>9 DEF Connect, ConnectErrors
  <2>10. CASE PollLoop
    BY <2>10 DEF PollLoop
  <2>11. CASE Poll
    BY <2>11 DEF Poll
  <2>12. CASE PollReady
    BY <2>12 DEF PollReady
  <2>13. CASE PollSignal
    BY <2>13 DEF PollSignal
  <2>14. CASE PollTimeout
    BY <2>14 DEF PollTimeout
  <2>15. CASE PollCheck
    BY <2>15 DEF PollCheck, EndOfScope, ConnectErrno
  <2>16. CASE SoError
    BY <2>16 DEF SoError
  <2>17. CASE RestoreCheck
    BY <2>17 DEF RestoreCheck
  <2>18. CASE Restore
    BY <2>18 DEF Restore
  <2>19. CASE Names
    BY <2>19 DEF Names, CallThenClose
  <2>20. CASE SetOpened
    BY <2>20 DEF SetOpened, Return
  <2>21. CASE Listen
    BY <2>21 DEF Listen, Return, CallThenClose
  <2> QED
    BY <1>7, <2>1, <2>2, <2>3, <2>4, <2>5, <2>6, <2>7, <2>8, <2>9, <2>10, <2>11, <2>12, <2>13, <2>14, <2>15, <2>16, <2>17, <2>18, <2>19, <2>20, <2>21 DEF OpenStep
<1>8. ASSUME NEW c \in Calls, CallIo(c) PROVE ConnectInv'
  BY <1>8 DEF CallIo, MayCall, Return, AllCalls
<1>9. CASE IoStep
  <2>1. CASE IoEnter
    BY <2>1 DEF IoEnter
  <2>2. CASE IoCompletes
    BY <2>2 DEF IoCompletes, IoReturns
  <2>3. CASE IoTimeout
    BY <2>3 DEF IoTimeout, IoReturns
  <2>4. CASE IoBad
    BY <2>4 DEF IoBad, IoReturns
  <2>5. CASE IoNames
    BY <2>5 DEF IoNames, Return
  <2> QED
    BY <1>9, <2>1, <2>2, <2>3, <2>4, <2>5 DEF IoStep
<1>10. ASSUME NEW f \in FDs, ForeignOpen(f) \/ ForeignClose(f) PROVE ConnectInv'
  BY <1>10 DEF ForeignOpen, ForeignClose
<1>11. CASE UNCHANGED vars
  BY <1>11 DEF vars
<1> QED
  BY <1>1, <1>2, <1>3, <1>4, <1>5, <1>6, <1>7, <1>8, <1>9, <1>10, <1>11 DEF Next

\* The types and what is known about an interrupted open() hold throughout.
LEMMA ConnectInvariance == Spec => [](TypeOK /\ ConnectInv)
<1>1. Init => TypeOK /\ ConnectInv
  BY TypeInit, ConnectInit
<1>2. (TypeOK /\ ConnectInv) /\ [Next]_vars => (TypeOK /\ ConnectInv)'
  BY TypeNext, ConnectNext
<1> QED BY <1>1, <1>2, PTL DEF Spec

\* For any number of threads that call close() at any time: a close() that
\* lands while open() waits for its connection makes that open() fail.
THEOREM CloseAbortsConnectHolds == Spec => []CloseAbortsConnect
<1>1. TypeOK /\ ConnectInv => CloseAbortsConnect
  BY DEF ConnectInv, CloseAbortsConnect
<1> QED BY <1>1, ConnectInvariance, PTL

\* For any number of closing threads and any connect timeout: at most one more
\* poll() of _connect begins after such a close().
THEOREM CloseDetectedPromptlyHolds == Spec => []CloseDetectedPromptly
<1>1. TypeOK /\ ConnectInv => CloseDetectedPromptly
  BY DEF ConnectInv, CloseDetectedPromptly
<1> QED BY <1>1, ConnectInvariance, PTL

-----------------------------------------------------------------------------
(* Serialised use: descriptors are neither leaked nor confused *)

\* Where the owner may be when another thread closes: between calls, or in an
\* I/O call that has entered the kernel.
Settled == {"idle", "io_wait", "io_names"}

\* The owner closes a socket whose open() failed half-way; other threads, if
\* there are any, close only a settled object, and no call begins while another
\* thread is inside close().
SerialUse ==
  /\ CloseBeforeReopen
  /\ Closers = {} \/ (SerialClose /\ CloseWindow \subseteq Settled)

\* Why OneDescriptor and TouchesOnlyOwn hold under that use: one thread at most
\* is inside close(), the owner never advances an open() meanwhile, and the
\* state tells, together with where that close() is, whether `sock' is held.
SerialInv ==
  /\ \A t, u \in Threads : pc[t] \in CloseLabels /\ pc[u] \in CloseLabels => t = u
  /\ \A t \in Closers : pc[t] \in CloseLabels => pc[Owner] \in Settled
  /\ \A t \in Threads : pc[t] = "close_mark" => state # "created"
  /\ \A t \in Threads : pc[t] \in {"close_fd", "close_inval"} => state = "created"
  /\ pc[Owner] = "destroyed" => state = "created"
  /\ pc[Owner] \in OpenLabels \ {"listen"} => state = "prepared"
  /\ pc[Owner] \in {"io_enter", "listen"} => state = "opened"
  /\ state # "created" /\ pc[Owner] # "socket" => sock \in FDs /\ Mine = {sock}
  /\ \A t \in Threads : pc[t] = "close_fd" => sock \in FDs /\ Mine = {sock}
  /\ (state = "created" \/ pc[Owner] = "socket") /\ (\A t \in Threads : pc[t] # "close_fd")
       => /\ Mine = {}
          /\ (\A t \in Threads : pc[t] # "close_inval") => sock = INVALID_SOCKET
  /\ misused = {}

\* A constructed object holds no descriptor.
LEMMA SerialInit == Init => SerialInv
BY DEF Init, SerialInv, Mine, OpenLabels, CloseLabels, Threads, Settled

\* A call begins only while no other thread is inside close(), and the close()
\* of another thread only when the owner is settled.
LEMMA MayCallSerial ==
  ASSUME SerialUse, NEW t \in Threads, MayCall(t)
  PROVE  /\ pc[t] = "idle"
         /\ \A u \in Threads \ {t} : pc[u] \notin CloseLabels
         /\ t # Owner => pc[Owner] \in Settled
BY DEF SerialUse, MayCall, Threads

\* Under serialised use, every step keeps state, `sock' and the kernel's table
\* in step.
LEMMA SerialNext ==
  ASSUME SerialUse, TypeOK, SerialInv, [Next]_vars
  PROVE  SerialInv'
<1>0. /\ pc \in [Threads -> Labels] /\ Owner \in Threads
      /\ \A t \in Threads : t = Owner \/ t \in Closers
      /\ \A t \in Closers : t \in Threads /\ t # Owner /\ pc[t] \in {"idle"} \cup CloseLabels
      /\ holder \in [FDs -> {"free", "mine", "foreign"}]
      /\ sock \in FDs \cup {INVALID_SOCKET} /\ state \in states
  BY DEF TypeOK, Threads
<1> USE <1>0 DEF SerialInv, Mine, states, Settled, Goto, OpenLabels, CloseLabels,
                object, kernel, locals, history
<1>1. CASE Construct
  BY <1>1 DEF Construct
<1>2. CASE MoveOut
  BY <1>2 DEF MoveOut
<1>3. CASE Destroy
  BY <1>3 DEF Destroy, CallThenClose
<1>4. ASSUME NEW t \in Threads, CallClose(t) PROVE SerialInv'
  BY <1>4, MayCallSerial DEF CallClose, CallThenClose
<1>5. ASSUME NEW t \in Threads, CloseStep(t) PROVE SerialInv'
  <2>1. CASE CloseCheck(t)
    BY <2>1 DEF CloseCheck, CloseEnd
  <2>2. CASE CloseMark(t)
    BY <2>2 DEF CloseMark
  <2>3. CASE CloseFd(t)
    BY <2>3 DEF CloseFd, Touch, Target, Release
  <2>4. CASE CloseInval(t)
    BY <2>4 DEF CloseInval, CloseEnd
  <2> QED BY <1>5, <2>1, <2>2, <2>3, <2>4 DEF CloseStep
<1>6. ASSUME NEW ms \in Timeouts, CallOpen(ms) PROVE SerialInv'
  BY <1>6, MayCallSerial DEF CallOpen, Return, SerialUse
<1>7. CASE OpenStep
  <2>1. CASE SocketCreated
    BY <2>1 DEF SocketCreated, FirstOption
  <2>2. CASE SocketFails
    BY <2>2 DEF SocketFails, Return
  <2>3. CASE SetsockoptFails
    BY <2>3 DEF SetsockoptFails, Return
  <2>4. CASE SetHdrincl
    BY <2>4 DEF SetHdrincl, Touch, Target
  <2>5. CASE SetReuseaddr
    BY <2>5 DEF SetReuseaddr, Touch, Target
  <2>6. CASE SetRcvtimeo
    BY <2>6 DEF SetRcvtimeo, Touch, Target
  <2>7. CASE Bind
    BY <2>7 DEF Bind, Touch, Target
  <2>8. CASE SetNonblock
    BY <2>8 DEF SetNonblock, Touch, Target
  <2>9. CASE Connect
    BY <2>9 DEF Connect, Touch, Target
  <2>10. CASE PollLoop
    BY <2>10 DEF PollLoop
  <2>11. CASE Poll
    BY <2>11 DEF Poll
  <2>12. CASE PollReady
    BY <2>12 DEF PollReady
  <2>13. CASE PollSignal
    BY <2>13 DEF PollSignal
  <2>14. CASE PollTimeout
    BY <2>14 DEF PollTimeout
  <2>15. CASE PollCheck
    BY <2>15 DEF PollCheck
  <2>16. CASE SoError
    BY <2>16 DEF SoError
  <2>17. CASE RestoreCheck
    BY <2>17 DEF RestoreCheck
  <2>18. CASE Restore
    BY <2>18 DEF Restore, Touch, Target
  <2>19. CASE Names
    BY <2>19 DEF Names, CallThenClose
  <2>20. CASE SetOpened
    BY <2>20 DEF SetOpened, Return
  <2>21. CASE Listen
    BY <2>21 DEF Listen, Return, CallThenClose, Touch, Target
  <2> QED
    BY <1>7, <2>1, <2>2, <2>3, <2>4, <2>5, <2>6, <2>7, <2>8, <2>9, <2>10, <2>11, <2>12, <2>13, <2>14, <2>15, <2>16, <2>17, <2>18, <2>19, <2>20, <2>21 DEF OpenStep
<1>8. ASSUME NEW c \in Calls, CallIo(c) PROVE SerialInv'
  BY <1>8, MayCallSerial DEF CallIo, Refusal, Return
<1>9. CASE IoStep
  <2>1. CASE IoEnter
    BY <2>1 DEF IoEnter, Touch, Target
  <2>2. CASE IoCompletes
    BY <2>2 DEF IoCompletes, IoReturns
  <2>3. CASE IoTimeout
    BY <2>3 DEF IoTimeout, IoReturns
  <2>4. CASE IoBad
    BY <2>4 DEF IoBad, IoReturns
  <2>5. CASE IoNames
    BY <2>5 DEF IoNames, Return
  <2> QED
    BY <1>9, <2>1, <2>2, <2>3, <2>4, <2>5 DEF IoStep
<1>10. ASSUME NEW f \in FDs, ForeignOpen(f) \/ ForeignClose(f) PROVE SerialInv'
  <2>1. CASE ForeignOpen(f)
    BY <2>1 DEF ForeignOpen
  <2>2. CASE ForeignClose(f)
    BY <2>2 DEF ForeignClose, Release
  <2> QED BY <1>10, <2>1, <2>2
<1>11. CASE UNCHANGED vars
  BY <1>11 DEF vars
<1> QED
  BY <1>1, <1>2, <1>3, <1>4, <1>5, <1>6, <1>7, <1>8, <1>9, <1>10, <1>11 DEF Next

\* Under serialised use, state, `sock' and the kernel's table agree throughout.
LEMMA SerialInvariance ==
  ASSUME SerialUse
  PROVE  Spec => [](TypeOK /\ SerialInv)
<1>1. Init => TypeOK /\ SerialInv
  BY TypeInit, SerialInit
<1>2. (TypeOK /\ SerialInv) /\ [Next]_vars => (TypeOK /\ SerialInv)'
  BY TypeNext, SerialNext
<1> QED BY <1>1, <1>2, PTL DEF Spec

\* Any number of threads that close a settled object one at a time, and an owner
\* that closes after a failed open(): between two calls the object holds exactly
\* the descriptor in `sock', or none.
THEOREM OneDescriptorHolds ==
  ASSUME SerialUse
  PROVE  Spec => []OneDescriptor
<1>1. TypeOK /\ SerialInv => OneDescriptor
  BY DEF TypeOK, SerialInv, OneDescriptor, Quiescent, Threads, states
<1> QED BY <1>1, SerialInvariance, PTL

\* Under the same use, no system call of the object reaches a descriptor that
\* the kernel has given to someone else.
THEOREM TouchesOnlyOwnHolds ==
  ASSUME SerialUse
  PROVE  Spec => []TouchesOnlyOwn
<1>1. TypeOK /\ SerialInv => TouchesOnlyOwn
  BY DEF SerialInv, TouchesOnlyOwn
<1> QED BY <1>1, SerialInvariance, PTL

-----------------------------------------------------------------------------
(* An opened socket is ready for the blocking calls *)

\* While O_NONBLOCK is set for _connect.
NonblockPhase == ConnectWait \cup {"connect", "so_error", "restore_check", "restore"}

\* Where the receive timeout of this open() has been set.
TimeoutSet == OpenLabels \ {"socket", "hdrincl", "reuseaddr", "rcvtimeo"}

\* Why OpenedIsArmed holds: O_NONBLOCK is on `sock' alone and only inside
\* _connect, so that a descriptor that is allocated again starts without it; and
\* from the setsockopt() on, `sock' keeps the timeout of this open().
ArmedInv ==
  /\ nonblock \subseteq {sock}
  /\ pc[Owner] \notin NonblockPhase => nonblock = {}
  /\ pc[Owner] = "hdrincl" => kind.type = "raw"
  /\ kind.type # "raw" /\ (state = "opened" \/ pc[Owner] \in TimeoutSet)
       => rcvtimeo[sock] = TimevalOf(timeout_ms)
  /\ timeout_ms \in Timeouts \cup {0}

\* A constructed object has nothing set.
LEMMA ArmedInit == Init => ArmedInv
BY DEF Init, ArmedInv, OpenLabels, TimeoutSet, NonblockPhase, ConnectWait, Threads

\* Every step keeps the flags and the timeout of the descriptor in `sock'.
LEMMA ArmedNext ==
  ASSUME SerialUse, TypeOK, SerialInv, ArmedInv, [Next]_vars
  PROVE  ArmedInv'
<1>0. /\ pc \in [Threads -> Labels] /\ Owner \in Threads
      /\ \A t \in Threads : t = Owner \/ t \in Closers
      /\ \A t \in Closers : t \in Threads /\ t # Owner /\ pc[t] \in {"idle"} \cup CloseLabels
      /\ holder \in [FDs -> {"free", "mine", "foreign"}] /\ rcvtimeo \in [FDs -> Nat]
      /\ sock \in FDs \cup {INVALID_SOCKET} /\ state \in states
  BY DEF TypeOK, Threads
<1> USE <1>0 DEF SerialInv, ArmedInv, Mine, states, Settled, NonblockPhase, TimeoutSet,
                ConnectWait, Goto, OpenLabels, CloseLabels, object, kernel, locals, history
<1>1. CASE Construct
  BY <1>1 DEF Construct
<1>2. CASE MoveOut
  BY <1>2 DEF MoveOut
<1>3. CASE Destroy
  BY <1>3 DEF Destroy, CallThenClose
<1>4. ASSUME NEW t \in Threads, CallClose(t) PROVE ArmedInv'
  BY <1>4, MayCallSerial DEF CallClose, CallThenClose
<1>5. ASSUME NEW t \in Threads, CloseStep(t) PROVE ArmedInv'
  <2>1. CASE CloseCheck(t)
    BY <2>1 DEF CloseCheck, CloseEnd
  <2>2. CASE CloseMark(t)
    BY <2>2 DEF CloseMark
  <2>3. CASE CloseFd(t)
    BY <2>3 DEF CloseFd, Release
  <2>4. CASE CloseInval(t)
    BY <2>4 DEF CloseInval, CloseEnd
  <2> QED BY <1>5, <2>1, <2>2, <2>3, <2>4 DEF CloseStep
<1>6. ASSUME NEW ms \in Timeouts, CallOpen(ms) PROVE ArmedInv'
  BY <1>6, MayCallSerial DEF CallOpen, Return
<1>7. CASE OpenStep
  <2>1. CASE SocketCreated
    BY <2>1 DEF SocketCreated, FirstOption
  <2>2. CASE SocketFails
    BY <2>2 DEF SocketFails, Return
  <2>3. CASE SetsockoptFails
    BY <2>3 DEF SetsockoptFails, Return
  <2>4. CASE SetHdrincl
    BY <2>4 DEF SetHdrincl, Touch, Target
  <2>5. CASE SetReuseaddr
    BY <2>5 DEF SetReuseaddr, Touch, Target
  <2>6. CASE SetRcvtimeo
    BY <2>6 DEF SetRcvtimeo, Touch, Target
  <2>7. CASE Bind
    BY <2>7 DEF Bind, Touch, Target
  <2>8. CASE SetNonblock
    BY <2>8 DEF SetNonblock, Touch, Target
  <2>9. CASE Connect
    BY <2>9 DEF Connect, Touch, Target
  <2>10. CASE PollLoop
    BY <2>10 DEF PollLoop
  <2>11. CASE Poll
    BY <2>11 DEF Poll
  <2>12. CASE PollReady
    BY <2>12 DEF PollReady
  <2>13. CASE PollSignal
    BY <2>13 DEF PollSignal
  <2>14. CASE PollTimeout
    BY <2>14 DEF PollTimeout
  <2>15. CASE PollCheck
    BY <2>15 DEF PollCheck
  <2>16. CASE SoError
    BY <2>16 DEF SoError
  <2>17. CASE RestoreCheck
    BY <2>17 DEF RestoreCheck
  <2>18. CASE Restore
    BY <2>18 DEF Restore, Touch, Target
  <2>19. CASE Names
    BY <2>19 DEF Names, CallThenClose
  <2>20. CASE SetOpened
    BY <2>20 DEF SetOpened, Return
  <2>21. CASE Listen
    BY <2>21 DEF Listen, Return, CallThenClose, Touch, Target
  <2> QED
    BY <1>7, <2>1, <2>2, <2>3, <2>4, <2>5, <2>6, <2>7, <2>8, <2>9, <2>10, <2>11, <2>12, <2>13, <2>14, <2>15, <2>16, <2>17, <2>18, <2>19, <2>20, <2>21 DEF OpenStep
<1>8. ASSUME NEW c \in Calls, CallIo(c) PROVE ArmedInv'
  BY <1>8, MayCallSerial DEF CallIo, Return
<1>9. CASE IoStep
  <2>1. CASE IoEnter
    BY <2>1 DEF IoEnter
  <2>2. CASE IoCompletes
    BY <2>2 DEF IoCompletes, IoReturns
  <2>3. CASE IoTimeout
    BY <2>3 DEF IoTimeout, IoReturns
  <2>4. CASE IoBad
    BY <2>4 DEF IoBad, IoReturns
  <2>5. CASE IoNames
    BY <2>5 DEF IoNames, Return
  <2> QED
    BY <1>9, <2>1, <2>2, <2>3, <2>4, <2>5 DEF IoStep
<1>10. ASSUME NEW f \in FDs, ForeignOpen(f) \/ ForeignClose(f) PROVE ArmedInv'
  <2>1. CASE ForeignOpen(f)
    BY <2>1 DEF ForeignOpen
  <2>2. CASE ForeignClose(f)
    BY <2>2 DEF ForeignClose, Release
  <2> QED BY <1>10, <2>1, <2>2
<1>11. CASE UNCHANGED vars
  BY <1>11 DEF vars
<1> QED
  BY <1>1, <1>2, <1>3, <1>4, <1>5, <1>6, <1>7, <1>8, <1>9, <1>10, <1>11 DEF Next

\* The timeval that open() builds is right for whole seconds.
LEMMA WholeSeconds ==
  ASSUME NEW ms \in Nat, ms % 1000 = 0
  PROVE  TimevalOf(ms) = 1000 * ms
BY DEF TimevalOf

\* For timeouts of whole seconds, the only ones that open() converts rightly,
\* under the same use: a socket that open() reports as opened is blocking and has
\* its receive timeout armed, whatever was closed, moved or reopened before and
\* although the kernel hands out used descriptors again.
THEOREM OpenedIsArmedHolds ==
  ASSUME SerialUse, \A ms \in Timeouts : ms % 1000 = 0
  PROVE  Spec => []OpenedIsArmed
<1>1. Init => TypeOK /\ SerialInv /\ ArmedInv
  BY TypeInit, SerialInit, ArmedInit
<1>2. (TypeOK /\ SerialInv /\ ArmedInv) /\ [Next]_vars => (TypeOK /\ SerialInv /\ ArmedInv)'
  BY TypeNext, SerialNext, ArmedNext
<1>3. TypeOK /\ SerialInv /\ ArmedInv => OpenedIsArmed
  <2> SUFFICES ASSUME TypeOK, ArmedInv, Quiescent, state = "opened"
               PROVE  sock \notin nonblock /\ (kind.type # "raw" => rcvtimeo[sock] = 1000 * timeout_ms)
    BY DEF OpenedIsArmed
  <2>1. pc[Owner] \in {"idle", "destroyed"}
    BY DEF Quiescent, Threads
  <2>2. nonblock = {} /\ (kind.type # "raw" => rcvtimeo[sock] = TimevalOf(timeout_ms))
    BY <2>1 DEF ArmedInv, NonblockPhase, ConnectWait
  <2>3. timeout_ms \in Nat /\ timeout_ms % 1000 = 0
    <3>1. 0 % 1000 = 0
      OBVIOUS
    <3> QED BY <3>1 DEF ArmedInv, TypeOK
  <2> QED BY <2>2, <2>3, WholeSeconds
<1> QED BY <1>1, <1>2, <1>3, PTL DEF Spec

=============================================================================
