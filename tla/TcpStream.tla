------------------------------ MODULE TcpStream ------------------------------
(***************************************************************************)
(* tcp_streambuf_t and tcp_stream_t (include/tcp_socket.h): a std::iostream *)
(* over one connected TCP socket, with a put area that is sent when it is  *)
(* full or flushed and a get area that is filled by one recv().            *)
(*                                                                         *)
(* A byte is its serial number in the stream it belongs to.  The stream is *)
(* used by one thread; the socket under it may be closed by another.       *)
(***************************************************************************)
EXTENDS Integers, Sequences

CONSTANTS
  BufSize,          \* bufsize: the size of the put and of the get area
  MaxBytes,         \* bound: bytes written, and bytes the peer sends
  PartialSends,     \* send() may take a part of the buffer (a signal arrives)
  MoveWhenEmpty     \* the stream is only moved with both areas empty

ASSUME SizeAssumption == BufSize \in Nat \ {0} /\ MaxBytes \in Nat
ASSUME UsageAssumption == PartialSends \in BOOLEAN /\ MoveWhenEmpty \in BOOLEAN

VARIABLES
  out, in,                            \* put area (pbase..pptr), get area (gptr..egptr)
  last_write_error, last_read_error,
  good,                               \* no error bit of the iostream is set
  alive, opened,                      \* the stream object; its socket's state
  wire,                               \* bytes the kernel took from send()
  inq, peerClosed,                    \* bytes recv() can return; the peer's end
  written, arrived, read,             \* history of the two directions
  flushed                             \* the last call was a flush() that succeeded

outbound == <<out, last_write_error, wire, written>>
inbound == <<in, last_read_error, inq, peerClosed, arrived, read>>
vars == <<outbound, inbound, good, alive, opened, flushed>>

Byte == 1 .. MaxBytes

\* The constructor: both areas empty, over a socket that is connected.
Init ==
  /\ out = <<>> /\ in = <<>> /\ wire = <<>> /\ inq = <<>>
  /\ last_write_error = "no_error" /\ last_read_error = "no_error"
  /\ good = TRUE /\ alive = TRUE /\ opened = TRUE /\ peerClosed = FALSE
  /\ written = <<>> /\ arrived = <<>> /\ read = <<>> /\ flushed = FALSE

-----------------------------------------------------------------------------
(* flush() *)

\* Mutant: the area is reset whether the socket took the bytes or not.
FlushDone_IgnoresError(rest) ==
  /\ wire' = IF opened THEN wire \o out ELSE wire
  /\ last_write_error' = "no_error"
  /\ out' = rest

\* Everything in the put area was sent, or there was nothing: the area is reset
\* and then holds `rest'.
FlushDone(rest) ==
  /\ out # <<>> => opened
  /\ wire' = wire \o out
  /\ last_write_error' = IF out = <<>> THEN last_write_error ELSE "no_error"
  /\ out' = rest

\* What send() can take when it does not take everything; 0 stands for errors too.
TakenBySend == IF PartialSends /\ opened THEN 0 .. Len(out) - 1 ELSE {0}

\* Mutant: a failed flush() throws the buffered bytes away.
FlushFailed_Drops ==
  /\ out # <<>>
  /\ last_write_error' = "error_other"
  /\ out' = <<>>
  /\ UNCHANGED wire

\* send() returned something else than the size: the put area stays whole.
FlushFailed ==
  /\ out # <<>>
  /\ \E n \in TakenBySend :
       /\ wire' = wire \o SubSeq(out, 1, n)
       /\ last_write_error' = IF n > 0 THEN "partial"
                              ELSE IF opened THEN "error_other" ELSE "error_closed_or_not_open"
  /\ UNCHANGED out

-----------------------------------------------------------------------------
(* Output *)

NextByte == Len(written) + 1
Writing == alive /\ good /\ Len(written) < MaxBytes

\* Mutant: the put area is one longer than the buffer.
PutChar_Overrun ==
  /\ Writing /\ Len(out) <= BufSize
  /\ out' = Append(out, NextByte)
  /\ written' = Append(written, NextByte)
  /\ flushed' = FALSE
  /\ UNCHANGED <<wire, last_write_error, inbound, good, alive, opened>>

\* sputc() with room in the put area; overflow() is not called.
PutChar ==
  /\ Writing /\ Len(out) < BufSize
  /\ out' = Append(out, NextByte)
  /\ written' = Append(written, NextByte)
  /\ flushed' = FALSE
  /\ UNCHANGED <<wire, last_write_error, inbound, good, alive, opened>>

\* overflow(ch) on a full put area.
OverflowDone ==
  /\ Writing /\ Len(out) = BufSize
  /\ FlushDone(<<NextByte>>)
  /\ written' = Append(written, NextByte)
  /\ flushed' = FALSE
  /\ UNCHANGED <<inbound, good, alive, opened>>

OverflowFailed ==
  /\ Writing /\ Len(out) = BufSize
  /\ FlushFailed
  /\ good' = FALSE /\ flushed' = FALSE
  /\ UNCHANGED <<written, inbound, alive, opened>>

\* sync(): std::flush and std::endl.
SyncDone ==
  /\ alive /\ good
  /\ FlushDone(<<>>)
  /\ flushed' = TRUE
  /\ UNCHANGED <<written, inbound, good, alive, opened>>

SyncFailed ==
  /\ alive /\ good
  /\ FlushFailed
  /\ good' = FALSE /\ flushed' = FALSE
  /\ UNCHANGED <<written, inbound, alive, opened>>

-----------------------------------------------------------------------------
(* Input *)

\* sbumpc() with a byte in the get area; underflow() is not called.
GetChar ==
  /\ alive /\ good /\ in # <<>>
  /\ read' = Append(read, Head(in)) /\ in' = Tail(in)
  /\ flushed' = FALSE
  /\ UNCHANGED <<outbound, last_read_error, inq, peerClosed, arrived, good, alive, opened>>

\* Mutant: the get area starts one byte too late.
UnderflowDone_SkipsFirst ==
  /\ alive /\ good /\ in = <<>> /\ opened
  /\ \E n \in 1 .. BufSize :
       /\ n <= Len(inq)
       /\ in' = SubSeq(inq, 2, n) /\ inq' = SubSeq(inq, n + 1, Len(inq))
  /\ last_read_error' = "no_error"
  /\ flushed' = FALSE
  /\ UNCHANGED <<outbound, peerClosed, arrived, read, good, alive, opened>>

\* underflow() on an exhausted get area: recv() returned n bytes.
UnderflowDone ==
  /\ alive /\ good /\ in = <<>> /\ opened
  /\ \E n \in 1 .. BufSize :
       /\ n <= Len(inq)
       /\ in' = SubSeq(inq, 1, n) /\ inq' = SubSeq(inq, n + 1, Len(inq))
  /\ last_read_error' = "no_error"
  /\ flushed' = FALSE
  /\ UNCHANGED <<outbound, peerClosed, arrived, read, good, alive, opened>>

\* Mutant: the peer's close is reported before its data was taken.
ReadError_Early == IF peerClosed THEN {"error_tcp_closed"} ELSE {"error_timeout"}

\* recv() returned 0 or less: what tcp_socket_t::recv reports.
ReadError ==
  CASE ~ opened -> {"error_closed_or_not_open"}
    [] opened /\ inq = <<>> /\ peerClosed -> {"error_tcp_closed", "error_other"}
    [] OTHER -> {"error_timeout", "error_other"}

UnderflowFailed ==
  /\ alive /\ good /\ in = <<>>
  /\ last_read_error' \in ReadError
  /\ good' = FALSE /\ flushed' = FALSE
  /\ UNCHANGED <<outbound, in, inq, peerClosed, arrived, read, alive, opened>>

-----------------------------------------------------------------------------
(* The life of the stream *)

\* The program clears the error bits to go on after a timeout or an error.
Clear ==
  /\ alive /\ ~ good
  /\ good' = TRUE /\ flushed' = FALSE
  /\ UNCHANGED <<outbound, inbound, alive, opened>>

\* The move constructors: the socket moves, both areas are set to empty, and
\* the new iostream starts with no error bit.
Move ==
  /\ alive
  /\ MoveWhenEmpty => (out = <<>> /\ in = <<>>)
  /\ out' = <<>> /\ in' = <<>> /\ good' = TRUE /\ flushed' = FALSE
  /\ UNCHANGED <<last_write_error, wire, written, last_read_error, inq, peerClosed,
                 arrived, read, alive, opened>>

\* socket().close(), also from another thread.
CloseSocket ==
  /\ alive /\ opened
  /\ opened' = FALSE
  /\ UNCHANGED <<outbound, inbound, good, alive, flushed>>

\* The destructor flushes, whatever the error bits say, before its socket
\* member is destroyed and closed.
Destroy ==
  /\ alive
  /\ \/ FlushDone(<<>>) /\ flushed' = TRUE
     \/ FlushFailed /\ flushed' = FALSE
  /\ alive' = FALSE /\ opened' = FALSE
  /\ UNCHANGED <<written, inbound, good>>

-----------------------------------------------------------------------------
(* The peer *)

PeerSends ==
  /\ ~ peerClosed /\ Len(arrived) < MaxBytes
  /\ arrived' = Append(arrived, Len(arrived) + 1)
  /\ inq' = Append(inq, Len(arrived) + 1)
  /\ UNCHANGED <<outbound, in, last_read_error, peerClosed, read, good, alive, opened, flushed>>

PeerCloses ==
  /\ ~ peerClosed /\ peerClosed' = TRUE
  /\ UNCHANGED <<outbound, in, last_read_error, inq, arrived, read, good, alive, opened, flushed>>

-----------------------------------------------------------------------------

Next ==
  \/ PutChar \/ OverflowDone \/ OverflowFailed \/ SyncDone \/ SyncFailed
  \/ GetChar \/ UnderflowDone \/ UnderflowFailed
  \/ Clear \/ Move \/ CloseSocket \/ Destroy
  \/ PeerSends \/ PeerCloses

Spec == Init /\ [][Next]_vars

-----------------------------------------------------------------------------
(* Properties *)

TypeOK ==
  /\ out \in Seq(Byte) /\ wire \in Seq(Byte) /\ written \in Seq(Byte)
  /\ in \in Seq(Byte) /\ inq \in Seq(Byte) /\ arrived \in Seq(Byte) /\ read \in Seq(Byte)
  /\ Len(out) <= BufSize /\ Len(in) <= BufSize
  /\ last_write_error \in {"no_error", "partial", "error_other", "error_closed_or_not_open"}
  /\ last_read_error \in {"no_error", "error_tcp_closed", "error_timeout", "error_other",
                          "error_closed_or_not_open"}
  /\ good \in BOOLEAN /\ alive \in BOOLEAN /\ opened \in BOOLEAN
  /\ peerClosed \in BOOLEAN /\ flushed \in BOOLEAN

Outbound == INSTANCE ByteStream WITH Byte <- Byte, entered <- written, left <- wire
Inbound == INSTANCE ByteStream WITH Byte <- Byte, entered <- arrived, left <- read

\* Refinement: the bytes the program puts into the stream reach the connection
\* once each and in order, over any sequence of full buffers, flushes, errors,
\* retries after clear() and a final flush in the destructor.
OutputIsByteStream == Outbound!Spec

\* Refinement: the bytes the program gets are the bytes the peer sent, although
\* recv() cuts them up anywhere and times out in between.
InputIsByteStream == Inbound!Spec

\* flush() returns true only when everything written so far has been sent
\* (tcp_socket.h:296-297); the destructor's flush included.
FlushTrueMeansSent == flushed => wire = written

\* The end of the connection is reported only after its last byte was read.
EndOfStreamIsLast ==
  (last_read_error = "error_tcp_closed" /\ ~ good /\ in = <<>>) => read = arrived

-----------------------------------------------------------------------------
(* Inductive invariant *)

\* Why the two directions are byte streams when send() takes all or nothing and
\* only an empty stream is moved: no byte is anywhere but on its way, in order.
StreamInv ==
  /\ written = wire \o out
  /\ arrived = (read \o in) \o inq
  /\ flushed => out = <<>>
  /\ last_read_error = "error_tcp_closed" => (peerClosed /\ inq = <<>>)

=============================================================================
