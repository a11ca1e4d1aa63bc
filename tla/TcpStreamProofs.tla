-------------------------- MODULE TcpStreamProofs --------------------------
(***************************************************************************)
(* Proofs about TcpStream, for every buffer size and number of bytes: the  *)
(* areas keep their size, and the stream implements a byte stream in both  *)
(* directions when send() takes all or nothing and only an empty stream is *)
(* moved.                                                                  *)
(***************************************************************************)
EXTENDS TcpStream, SequenceTheorems, TLAPS

Errors == {"no_error", "partial", "error_other", "error_closed_or_not_open"}

\* The part of TypeOK that a flush() touches.
OutboundType ==
  /\ out \in Seq(Byte) /\ Len(out) <= BufSize /\ wire \in Seq(Byte)
  /\ last_write_error \in Errors

LEMMA Nothing == <<>> \in Seq(Byte) /\ Len(<<>>) = 0 /\ 0 <= BufSize /\ 1 <= BufSize
  BY EmptySeq, SizeAssumption

\* A part of a sequence of bytes.
LEMMA Part ==
  ASSUME NEW s \in Seq(Byte), NEW m \in 1 .. Len(s) + 1, NEW n \in 0 .. Len(s)
  PROVE  /\ SubSeq(s, m, n) \in Seq(Byte)
         /\ Len(SubSeq(s, m, n)) = IF m <= n THEN n - m + 1 ELSE 0
<1>1. Len(s) \in Nat /\ \A i \in 1 .. Len(s) : s[i] \in Byte
  BY LenProperties, ElementOfSeq
<1>2. m \in Int /\ n \in Int /\ \A i \in m .. n : s[i] \in Byte
  BY <1>1
<1> QED
  BY <1>2, SubSeqProperties

\* The put area is reset to `rest' after everything in it was sent.
LEMMA FlushDoneType ==
  ASSUME OutboundType, NEW rest \in Seq(Byte), Len(rest) <= BufSize, FlushDone(rest)
  PROVE  OutboundType'
<1>1. wire \o out \in Seq(Byte)
  BY ConcatProperties DEF OutboundType
<1> QED
  BY <1>1 DEF OutboundType, FlushDone, Errors

\* The put area stays, and a part of it may have been sent.
LEMMA FlushFailedType ==
  ASSUME OutboundType, FlushFailed
  PROVE  OutboundType'
<1>1. PICK n \in TakenBySend :
        /\ wire' = wire \o SubSeq(out, 1, n)
        /\ last_write_error' = IF n > 0 THEN "partial"
                               ELSE IF opened THEN "error_other" ELSE "error_closed_or_not_open"
  BY DEF FlushFailed
<1>2. Len(out) \in Nat \ {0}
  BY EmptySeq DEF OutboundType, FlushFailed
<1>3. n \in 0 .. Len(out)
  BY <1>1, <1>2 DEF TakenBySend
<1>4. SubSeq(out, 1, n) \in Seq(Byte)
  BY <1>2, <1>3, Part DEF OutboundType
<1>5. wire' \in Seq(Byte)
  BY <1>1, <1>4, ConcatProperties DEF OutboundType
<1> QED
  BY <1>1, <1>5 DEF OutboundType, FlushFailed, Errors

\* The byte written next fits the bound.
LEMMA NextByteType ==
  ASSUME TypeOK, Writing
  PROVE  /\ NextByte \in Byte
         /\ <<NextByte>> \in Seq(Byte) /\ Len(<<NextByte>>) = 1
         /\ Append(written, NextByte) \in Seq(Byte)
<1>1. written \in Seq(Byte) /\ Len(written) \in Nat
  BY LenProperties DEF TypeOK
<1>2. NextByte \in Byte
  BY <1>1, SizeAssumption DEF Writing, NextByte, Byte
<1> QED
  BY <1>1, <1>2, AppendProperties

\* The areas never hold more than bufsize bytes, and the errors are those the
\* code can store (tcp_socket.h:258-265), also with partial sends and moves.
THEOREM StreamTypeCorrect == Spec => []TypeOK
<1>1. Init => TypeOK
  BY Nothing DEF Init, TypeOK
<1>2. TypeOK /\ [Next]_vars => TypeOK'
  <2> SUFFICES ASSUME TypeOK, [Next]_vars PROVE TypeOK'
    OBVIOUS
  <2> USE DEF TypeOK
  <2>0. OutboundType
    BY DEF OutboundType, Errors
  <2>1. CASE PutChar
    <3>1. /\ Append(out, NextByte) \in Seq(Byte)
          /\ Len(Append(out, NextByte)) = Len(out) + 1 /\ Len(out) \in Nat
      BY <2>1, NextByteType, AppendProperties, LenProperties DEF PutChar
    <3>2. Append(written, NextByte) \in Seq(Byte)
      BY <2>1, NextByteType DEF PutChar
    <3>3. out' \in Seq(Byte) /\ written' \in Seq(Byte)
      BY <2>1, <3>1, <3>2 DEF PutChar
    <3>4. Len(Append(out, NextByte)) <= BufSize
      BY <2>1, <3>1, SizeAssumption DEF PutChar
    <3>5. Len(out') <= BufSize
      BY <2>1, <3>4 DEF PutChar
    <3> QED
      BY <2>1, <3>3, <3>5 DEF PutChar, inbound
  <2>2. CASE OverflowDone
    <3>1. <<NextByte>> \in Seq(Byte) /\ Len(<<NextByte>>) <= BufSize
      BY <2>2, NextByteType, Nothing DEF OverflowDone
    <3>2. OutboundType'
      BY <2>0, <2>2, <3>1, FlushDoneType DEF OverflowDone
    <3>3. Append(written, NextByte) \in Seq(Byte)
      BY <2>2, NextByteType DEF OverflowDone
    <3> QED
      BY <2>2, <3>2, <3>3 DEF OverflowDone, inbound, OutboundType, Errors
  <2>3. CASE OverflowFailed
    <3>1. OutboundType'
      BY <2>0, <2>3, FlushFailedType DEF OverflowFailed
    <3> QED
      BY <2>3, <3>1 DEF OverflowFailed, inbound, OutboundType, Errors
  <2>4. CASE SyncDone
    <3>1. OutboundType'
      BY <2>0, <2>4, Nothing, FlushDoneType DEF SyncDone
    <3> QED
      BY <2>4, <3>1 DEF SyncDone, inbound, OutboundType, Errors
  <2>5. CASE SyncFailed
    <3>1. OutboundType'
      BY <2>0, <2>5, FlushFailedType DEF SyncFailed
    <3> QED
      BY <2>5, <3>1 DEF SyncFailed, inbound, OutboundType, Errors
  <2>6. CASE GetChar
    <3>1. /\ Head(in) \in Byte /\ Tail(in) \in Seq(Byte)
          /\ Len(Tail(in)) = Len(in) - 1 /\ Len(in) \in Nat
      BY <2>6, HeadTailProperties, LenProperties DEF GetChar
    <3>2. Append(read, Head(in)) \in Seq(Byte)
      BY <3>1, AppendProperties
    <3>3. Len(Tail(in)) <= BufSize
      BY <3>1, SizeAssumption
    <3>4. in' \in Seq(Byte) /\ read' \in Seq(Byte) /\ Len(in') <= BufSize
      BY <2>6, <3>1, <3>2, <3>3 DEF GetChar
    <3> QED
      BY <2>6, <3>4 DEF GetChar, outbound
  <2>7. CASE UnderflowDone
    <3>1. PICK n \in 1 .. BufSize :
            n <= Len(inq) /\ in' = SubSeq(inq, 1, n) /\ inq' = SubSeq(inq, n + 1, Len(inq))
      BY <2>7 DEF UnderflowDone
    <3>2. inq \in Seq(Byte) /\ Len(inq) \in Nat
      BY LenProperties
    <3>3. in' \in Seq(Byte) /\ Len(in') = n /\ inq' \in Seq(Byte)
      <4> HIDE DEF TypeOK
      <4>1. /\ 1 \in 1 .. Len(inq) + 1 /\ n \in 0 .. Len(inq)
            /\ n + 1 \in 1 .. Len(inq) + 1 /\ Len(inq) \in 0 .. Len(inq)
        BY <3>1, <3>2, SizeAssumption
      <4>2. in' \in Seq(Byte) /\ Len(in') = IF 1 <= n THEN n - 1 + 1 ELSE 0
        BY <3>1, <3>2, <4>1, Part
      <4>3. inq' \in Seq(Byte)
        BY <3>1, <3>2, <4>1, Part
      <4> QED
        BY <4>2, <4>3, SizeAssumption
    <3>4. Len(in') <= BufSize
      BY <3>3, SizeAssumption
    <3> QED
      BY <2>7, <3>3, <3>4 DEF UnderflowDone, outbound
  <2>8. CASE UnderflowFailed
    BY <2>8 DEF UnderflowFailed, ReadError, outbound
  <2>9. CASE Clear
    BY <2>9 DEF Clear, outbound, inbound
  <2>10. CASE Move
    BY <2>10, Nothing DEF Move
  <2>11. CASE CloseSocket
    BY <2>11 DEF CloseSocket, outbound, inbound
  <2>12. CASE Destroy
    <3>1. OutboundType'
      BY <2>0, <2>12, Nothing, FlushDoneType, FlushFailedType DEF Destroy
    <3> QED
      BY <2>12, <3>1 DEF Destroy, inbound, OutboundType, Errors
  <2>13. CASE PeerSends
    <3>1. Len(arrived) \in Nat
      BY LenProperties
    <3>2. Len(arrived) + 1 \in Byte
      BY <2>13, <3>1, SizeAssumption DEF PeerSends, Byte
    <3>3. /\ Append(arrived, Len(arrived) + 1) \in Seq(Byte)
          /\ Append(inq, Len(arrived) + 1) \in Seq(Byte)
      BY <3>2, AppendProperties
    <3> QED
      BY <2>13, <3>3 DEF PeerSends, outbound
  <2>14. CASE PeerCloses
    BY <2>14 DEF PeerCloses, outbound
  <2>15. CASE UNCHANGED vars
    BY <2>15 DEF vars, outbound, inbound
  <2> QED
    BY <2>1, <2>2, <2>3, <2>4, <2>5, <2>6, <2>7, <2>8, <2>9, <2>10, <2>11, <2>12, <2>13,
       <2>14, <2>15 DEF Next
<1> QED
  BY <1>1, <1>2, PTL DEF Spec

-----------------------------------------------------------------------------
(* Sequences of bytes cut and joined *)

LEMMA Regroup ==
  ASSUME NEW s \in Seq(Byte), NEW t \in Seq(Byte), NEW u \in Seq(Byte)
  PROVE  (s \o t) \o u = s \o (t \o u)
  BY ConcatAssociative

LEMMA AppendJoined ==
  ASSUME NEW s \in Seq(Byte), NEW t \in Seq(Byte), NEW b \in Byte
  PROVE  Append(s \o t, b) = s \o Append(t, b)
<1>1. <<b>> \in Seq(Byte) /\ s \o t \in Seq(Byte)
  BY ConcatProperties
<1>2. Append(s \o t, b) = (s \o t) \o <<b>> /\ Append(t, b) = t \o <<b>>
  BY <1>1, AppendIsConcat
<1> QED
  BY <1>1, <1>2, ConcatAssociative

LEMMA Cut ==
  ASSUME NEW s \in Seq(Byte), NEW n \in 0 .. Len(s)
  PROVE  SubSeq(s, 1, n) \o SubSeq(s, n + 1, Len(s)) = s
<1>1. Len(s) \in Nat
  BY LenProperties
<1>2. 1 \in 1 .. Len(s) + 1 /\ n \in 1 - 1 .. Len(s) /\ Len(s) \in n .. Len(s)
  BY <1>1
<1>3. SubSeq(s, 1, n) \o SubSeq(s, n + 1, Len(s)) = SubSeq(s, 1, Len(s))
  BY <1>2, ConcatAdjacentSubSeq
<1> QED
  BY <1>3, SubSeqFull

\* The first byte of t goes over to s.
LEMMA HeadJoined ==
  ASSUME NEW s \in Seq(Byte), NEW t \in Seq(Byte), t # <<>>
  PROVE  Append(s, Head(t)) \o Tail(t) = s \o t
<1>1. /\ Head(t) \in Byte /\ Tail(t) \in Seq(Byte) /\ <<Head(t)>> \in Seq(Byte)
  BY HeadTailProperties
<1>2. Len(t) \in Nat \ {0}
  BY EmptySeq
<1>3. 1 \in 1 .. Len(t) /\ Len(t) \in 1 .. Len(t)
  BY <1>2
<1>4. SubSeq(t, 1, Len(t)) = <<t[1]>> \o SubSeq(t, 1 + 1, Len(t))
  BY <1>3, SubSeqRecursiveFirst
<1>5. t = <<Head(t)>> \o Tail(t)
  BY <1>4, SubSeqFull, TailIsSubSeq, HeadTailOfSubSeq, <1>3
<1>6. Append(s, Head(t)) = s \o <<Head(t)>>
  BY <1>1, AppendIsConcat
<1>7. (s \o <<Head(t)>>) \o Tail(t) = s \o (<<Head(t)>> \o Tail(t))
  BY <1>1, ConcatAssociative
<1> QED
  BY <1>5, <1>6, <1>7

\* s is the beginning of s \o t.
LEMMA Beginning ==
  ASSUME NEW s \in Seq(Byte), NEW t \in Seq(Byte)
  PROVE  SubSeq(s \o t, 1, Len(s)) = s /\ Len(s) \in 0 .. Len(s \o t)
<1>1. Len(s) \in Nat /\ Len(t) \in Nat /\ Len(s \o t) = Len(s) + Len(t)
  BY LenProperties, ConcatProperties
<1>2. CASE Len(s) = 0
  <2>1. s = <<>>
    BY <1>2, EmptySeq
  <2>2. SubSeq(s \o t, 1, Len(s)) = <<>>
    BY <1>2, SubSeqEmpty
  <2> QED
    BY <1>1, <2>1, <2>2
<1>3. CASE Len(s) # 0
  <2>1. 1 \in 1 .. Len(s) /\ Len(s) \in 1 .. Len(s)
    BY <1>1, <1>3
  <2> QED
    BY <1>1, <2>1, SubSeqOfConcat1, SubSeqFull
<1> QED
  BY <1>2, <1>3

-----------------------------------------------------------------------------
(* The inductive invariant *)

\* How the stream is used.
Used == ~ PartialSends /\ MoveWhenEmpty

\* A failed flush() has sent nothing.
LEMMA NothingTaken ==
  ASSUME Used, TypeOK, FlushFailed
  PROVE  wire' = wire /\ out' = out
<1>1. PICK n \in TakenBySend : wire' = wire \o SubSeq(out, 1, n)
  BY DEF FlushFailed
<1>2. n = 0
  BY <1>1 DEF TakenBySend, Used
<1>3. SubSeq(out, 1, 0) = <<>>
  BY SubSeqEmpty
<1> QED
  BY <1>1, <1>2, <1>3, ConcatEmptySeq DEF TypeOK, FlushFailed

LEMMA StreamInvInit == Init => StreamInv
<1>1. <<>> \o <<>> = <<>>
  BY Nothing, ConcatEmptySeq
<1> QED
  BY <1>1 DEF Init, StreamInv

\* The outgoing bytes stay together.
LEMMA OutboundStep ==
  ASSUME Used, TypeOK, StreamInv, [Next]_vars
  PROVE  written' = wire' \o out' /\ (flushed' => out' = <<>>)
<1> USE DEF StreamInv
<1>1. CASE PutChar
  <2>1. NextByte \in Byte
    BY <1>1, NextByteType DEF PutChar
  <2>2. wire \in Seq(Byte) /\ out \in Seq(Byte)
    BY DEF TypeOK
  <2>3. Append(wire \o out, NextByte) = wire \o Append(out, NextByte)
    BY <2>1, <2>2, AppendJoined
  <2> QED
    BY <1>1, <2>3 DEF PutChar
<1>2. CASE OverflowDone
  <2>1. NextByte \in Byte
    BY <1>2, NextByteType DEF OverflowDone
  <2>2. Append(written, NextByte) = written \o <<NextByte>>
    BY <2>1, AppendIsConcat DEF TypeOK
  <2> QED
    BY <1>2, <2>2 DEF OverflowDone, FlushDone
<1>3. CASE OverflowFailed
  BY <1>3, NothingTaken DEF OverflowFailed
<1>4. (wire \o out) \o <<>> = wire \o out
  BY ConcatProperties, ConcatEmptySeq DEF TypeOK
<1>5. CASE SyncDone
  BY <1>4, <1>5 DEF SyncDone, FlushDone
<1>6. CASE SyncFailed
  BY <1>6, NothingTaken DEF SyncFailed
<1>7. CASE Destroy
  <2>1. CASE FlushDone(<<>>)
    BY <1>4, <1>7, <2>1 DEF Destroy, FlushDone
  <2>2. CASE FlushFailed /\ flushed' = FALSE
    BY <1>7, <2>2, NothingTaken DEF Destroy
  <2> QED
    BY <1>7, <2>1, <2>2 DEF Destroy
<1>8. CASE Move
  BY <1>8 DEF Move, Used
<1>9. CASE GetChar
  BY <1>9 DEF GetChar, outbound
<1>10. CASE UnderflowDone
  BY <1>10 DEF UnderflowDone, outbound
<1>11. CASE UnderflowFailed
  BY <1>11 DEF UnderflowFailed, outbound
<1>12. CASE Clear
  BY <1>12 DEF Clear, outbound
<1>13. CASE CloseSocket
  BY <1>13 DEF CloseSocket, outbound
<1>14. CASE PeerSends
  BY <1>14 DEF PeerSends, outbound
<1>15. CASE PeerCloses
  BY <1>15 DEF PeerCloses, outbound
<1>16. CASE UNCHANGED vars
  BY <1>16 DEF vars, outbound
<1> QED
  BY <1>1, <1>2, <1>3, <1>5, <1>6, <1>7, <1>8, <1>9, <1>10, <1>11, <1>12, <1>13,
     <1>14, <1>15, <1>16 DEF Next

\* The incoming bytes stay together, and nothing follows a reported end.
LEMMA InboundStep ==
  ASSUME Used, TypeOK, StreamInv, [Next]_vars
  PROVE  /\ arrived' = (read' \o in') \o inq'
         /\ last_read_error' = "error_tcp_closed" => (peerClosed' /\ inq' = <<>>)
<1> USE DEF StreamInv
<1>1. CASE GetChar
  <2>1. Append(read, Head(in)) \o Tail(in) = read \o in
    BY <1>1, HeadJoined DEF TypeOK, GetChar
  <2> QED
    BY <1>1, <2>1 DEF GetChar
<1>2. CASE UnderflowDone
  <2>1. PICK n \in 1 .. BufSize :
          n <= Len(inq) /\ in' = SubSeq(inq, 1, n) /\ inq' = SubSeq(inq, n + 1, Len(inq))
    BY <1>2 DEF UnderflowDone
  <2>2. inq \in Seq(Byte) /\ read \in Seq(Byte) /\ Len(inq) \in Nat
    BY LenProperties DEF TypeOK
  <2>3. n \in 0 .. Len(inq) /\ n + 1 \in 1 .. Len(inq) + 1 /\ Len(inq) \in 0 .. Len(inq) /\ 1 \in 1 .. Len(inq) + 1
    BY <2>1, <2>2, SizeAssumption
  <2>4. in' \o inq' = inq
    BY <2>1, <2>2, <2>3, Cut
  <2>5. (read \o in') \o inq' = read \o (in' \o inq')
    <3> HIDE DEF StreamInv
    <3>1. in' \in Seq(Byte) /\ inq' \in Seq(Byte)
      BY <2>1, <2>2, <2>3, Part
    <3> QED
      BY <2>2, <3>1, Regroup
  <2>6. read \o in = read
    BY <1>2, ConcatEmptySeq DEF TypeOK, UnderflowDone
  <2> QED
    BY <1>2, <2>4, <2>5, <2>6 DEF UnderflowDone
<1>3. CASE UnderflowFailed
  <2>1. last_read_error' = "error_tcp_closed" => (peerClosed /\ inq = <<>>)
    BY <1>3 DEF UnderflowFailed, ReadError
  <2> QED
    BY <1>3, <2>1 DEF UnderflowFailed
<1>4. CASE PeerSends
  <2>1. Len(arrived) \in Nat
    BY LenProperties DEF TypeOK
  <2>2. Len(arrived) + 1 \in Byte
    BY <1>4, <2>1, SizeAssumption DEF PeerSends, Byte
  <2>3. read \o in \in Seq(Byte) /\ inq \in Seq(Byte)
    BY ConcatProperties DEF TypeOK
  <2>4. Append((read \o in) \o inq, Len(arrived) + 1) = (read \o in) \o Append(inq, Len(arrived) + 1)
    BY <2>2, <2>3, AppendJoined
  <2> QED
    BY <1>4, <2>4 DEF PeerSends
<1>5. CASE PeerCloses
  BY <1>5 DEF PeerCloses
<1>6. CASE Move
  BY <1>6 DEF Move, Used
<1>7. CASE PutChar \/ OverflowDone \/ OverflowFailed \/ SyncDone \/ SyncFailed
  BY <1>7 DEF PutChar, OverflowDone, OverflowFailed, SyncDone, SyncFailed, inbound
<1>8. CASE Clear \/ CloseSocket \/ Destroy \/ UNCHANGED vars
  BY <1>8 DEF Clear, CloseSocket, Destroy, vars, inbound
<1> QED
  BY <1>1, <1>2, <1>3, <1>4, <1>5, <1>6, <1>7, <1>8 DEF Next

\* With send() taking all or nothing and only empty streams moved, every byte
\* is either still in an area or on the other side, in order.
THEOREM BytesConserved ==
  ASSUME Used
  PROVE  Spec => [](TypeOK /\ StreamInv)
<1>1. TypeOK /\ StreamInv /\ [Next]_vars => StreamInv'
  BY OutboundStep, InboundStep DEF StreamInv
<1> QED
  BY <1>1, StreamInvInit, StreamTypeCorrect, PTL DEF Spec

-----------------------------------------------------------------------------
(* What the stream promises *)

\* flush() returns true only when everything written so far has been sent
\* (tcp_socket.h:296-305), for every buffer size and any number of retries.
THEOREM FlushTrueMeansSentHolds ==
  ASSUME Used
  PROVE  Spec => []FlushTrueMeansSent
<1>1. TypeOK /\ StreamInv => FlushTrueMeansSent
  <2> SUFFICES ASSUME TypeOK, StreamInv, flushed PROVE wire = written
    BY DEF FlushTrueMeansSent
  <2>1. wire \o <<>> = wire
    BY ConcatEmptySeq DEF TypeOK
  <2> QED
    BY <2>1 DEF StreamInv
<1> QED
  BY <1>1, BytesConserved, PTL

\* The end of the connection is reported only when every byte was read
\* (tcp_socket.h:336-340), whatever timeouts and errors came before.
THEOREM EndOfStreamIsLastHolds ==
  ASSUME Used
  PROVE  Spec => []EndOfStreamIsLast
<1>1. TypeOK /\ StreamInv => EndOfStreamIsLast
  <2> SUFFICES ASSUME TypeOK, StreamInv, last_read_error = "error_tcp_closed", in = <<>>
               PROVE  read = arrived
    BY DEF EndOfStreamIsLast
  <2>1. read \o <<>> = read
    BY ConcatEmptySeq DEF TypeOK
  <2> QED
    BY <2>1 DEF StreamInv
<1> QED
  BY <1>1, BytesConserved, PTL

\* What is on the wire grows, if at all, to everything written.
LEMMA WireSteps ==
  ASSUME Used, TypeOK, [Next]_vars
  PROVE  wire' = wire \/ wire' = wire \o out
<1>1. CASE OverflowDone \/ SyncDone
  BY <1>1 DEF OverflowDone, SyncDone, FlushDone
<1>2. CASE OverflowFailed \/ SyncFailed
  BY <1>2, NothingTaken DEF OverflowFailed, SyncFailed
<1>3. CASE Destroy
  BY <1>3, NothingTaken DEF Destroy, FlushDone
<1>4. CASE PutChar \/ Move
  BY <1>4 DEF PutChar, Move
<1>5. CASE GetChar
  BY <1>5 DEF GetChar, outbound
<1>6. CASE UnderflowDone
  BY <1>6 DEF UnderflowDone, outbound
<1>7. CASE UnderflowFailed
  BY <1>7 DEF UnderflowFailed, outbound
<1>8. CASE Clear
  BY <1>8 DEF Clear, outbound
<1>9. CASE CloseSocket
  BY <1>9 DEF CloseSocket, outbound
<1>10. CASE PeerSends
  BY <1>10 DEF PeerSends, outbound
<1>11. CASE PeerCloses
  BY <1>11 DEF PeerCloses, outbound
<1>12. CASE UNCHANGED vars
  BY <1>12 DEF vars, outbound
<1> QED
  BY <1>1, <1>2, <1>3, <1>4, <1>5, <1>6, <1>7, <1>8, <1>9, <1>10, <1>11, <1>12 DEF Next

\* One byte enters at a time.
LEMMA WrittenSteps ==
  ASSUME TypeOK, [Next]_vars
  PROVE  written' = written \/ \E b \in Byte : written' = Append(written, b)
<1>1. CASE PutChar
  BY <1>1, NextByteType DEF PutChar
<1>2. CASE OverflowDone
  BY <1>2, NextByteType DEF OverflowDone
<1>3. CASE OverflowFailed \/ SyncDone \/ SyncFailed \/ Move \/ Destroy
  BY <1>3 DEF OverflowFailed, SyncDone, SyncFailed, Move, Destroy
<1>4. CASE GetChar
  BY <1>4 DEF GetChar, outbound
<1>5. CASE UnderflowDone
  BY <1>5 DEF UnderflowDone, outbound
<1>6. CASE UnderflowFailed
  BY <1>6 DEF UnderflowFailed, outbound
<1>7. CASE Clear
  BY <1>7 DEF Clear, outbound
<1>8. CASE CloseSocket
  BY <1>8 DEF CloseSocket, outbound
<1>9. CASE PeerSends
  BY <1>9 DEF PeerSends, outbound
<1>10. CASE PeerCloses
  BY <1>10 DEF PeerCloses, outbound
<1>11. CASE UNCHANGED vars
  BY <1>11 DEF vars, outbound
<1> QED
  BY <1>1, <1>2, <1>3, <1>4, <1>5, <1>6, <1>7, <1>8, <1>9, <1>10, <1>11 DEF Next

\* Refinement: for every buffer size the bytes put into the stream reach the
\* connection once each and in order (tcp_socket.h:298-329, 347-350).
THEOREM OutputIsByteStreamHolds ==
  ASSUME Used
  PROVE  Spec => OutputIsByteStream
<1>1. Init => Outbound!Init
  BY DEF Init, Outbound!Init
<1>2. TypeOK /\ StreamInv /\ [Next]_vars => [Outbound!Enter /\ Outbound!Leave]_<<written, wire>>
  <2> SUFFICES ASSUME TypeOK, StreamInv, [Next]_vars PROVE Outbound!Enter /\ Outbound!Leave
    OBVIOUS
  <2>1. Outbound!Enter
    BY WrittenSteps DEF Outbound!Enter
  <2>2. wire \in Seq(Byte) /\ out \in Seq(Byte) /\ written \in Seq(Byte) /\ written = wire \o out
    BY DEF TypeOK, StreamInv
  <2>3. SubSeq(written, 1, Len(wire)) = wire /\ Len(wire) \in 0 .. Len(written)
    BY <2>2, Beginning
  <2>4. SubSeq(written, 1, Len(written)) = written
    BY <2>2, SubSeqFull
  <2>5. Len(wire) \in Len(wire) .. Len(written) /\ Len(written) \in Len(wire) .. Len(written)
    BY <2>2, <2>3, LenProperties
  <2>6. wire' = wire \/ wire' = written
    BY <2>2, WireSteps
  <2>7. Outbound!Leave
    BY <2>3, <2>4, <2>5, <2>6 DEF Outbound!Leave
  <2> QED
    BY <2>1, <2>7
<1> QED
  BY <1>1, <1>2, BytesConserved, PTL DEF Spec, OutputIsByteStream, Outbound!Spec

\* One byte is read at a time, and it is the next one of the get area.
LEMMA ReadSteps ==
  ASSUME TypeOK, [Next]_vars
  PROVE  read' = read \/ (in # <<>> /\ read' = Append(read, Head(in)))
<1>1. CASE GetChar
  BY <1>1 DEF GetChar
<1>2. CASE UnderflowDone \/ UnderflowFailed \/ PeerSends \/ PeerCloses \/ Move
  BY <1>2 DEF UnderflowDone, UnderflowFailed, PeerSends, PeerCloses, Move
<1>3. CASE PutChar \/ OverflowDone \/ OverflowFailed \/ SyncDone \/ SyncFailed
  BY <1>3 DEF PutChar, OverflowDone, OverflowFailed, SyncDone, SyncFailed, inbound
<1>4. CASE Clear \/ CloseSocket \/ Destroy \/ UNCHANGED vars
  BY <1>4 DEF Clear, CloseSocket, Destroy, vars, inbound
<1> QED
  BY <1>1, <1>2, <1>3, <1>4 DEF Next

\* The peer sends one byte at a time.
LEMMA ArrivedSteps ==
  ASSUME TypeOK, [Next]_vars
  PROVE  arrived' = arrived \/ \E b \in Byte : arrived' = Append(arrived, b)
<1>1. CASE PeerSends
  <2>1. Len(arrived) \in Nat
    BY LenProperties DEF TypeOK
  <2>2. Len(arrived) + 1 \in Byte
    BY <1>1, <2>1, SizeAssumption DEF PeerSends, Byte
  <2> QED
    BY <1>1, <2>2 DEF PeerSends
<1>2. CASE GetChar \/ UnderflowDone \/ UnderflowFailed \/ PeerCloses \/ Move
  BY <1>2 DEF GetChar, UnderflowDone, UnderflowFailed, PeerCloses, Move
<1>3. CASE PutChar \/ OverflowDone \/ OverflowFailed \/ SyncDone \/ SyncFailed
  BY <1>3 DEF PutChar, OverflowDone, OverflowFailed, SyncDone, SyncFailed, inbound
<1>4. CASE Clear \/ CloseSocket \/ Destroy \/ UNCHANGED vars
  BY <1>4 DEF Clear, CloseSocket, Destroy, vars, inbound
<1> QED
  BY <1>1, <1>2, <1>3, <1>4 DEF Next

\* Refinement: for every buffer size the bytes the program reads are the bytes
\* that arrived, once each and in order (tcp_socket.h:331-345).
THEOREM InputIsByteStreamHolds ==
  ASSUME Used
  PROVE  Spec => InputIsByteStream
<1>1. Init => Inbound!Init
  BY DEF Init, Inbound!Init
<1>2. TypeOK /\ StreamInv /\ [Next]_vars => [Inbound!Enter /\ Inbound!Leave]_<<arrived, read>>
  <2> SUFFICES ASSUME TypeOK, StreamInv, [Next]_vars PROVE Inbound!Enter /\ Inbound!Leave
    OBVIOUS
  <2>1. Inbound!Enter
    BY ArrivedSteps DEF Inbound!Enter
  <2>2. /\ read \in Seq(Byte) /\ in \in Seq(Byte) /\ inq \in Seq(Byte) /\ arrived \in Seq(Byte)
        /\ arrived = (read \o in) \o inq
    BY DEF TypeOK, StreamInv
  <2>3. CASE read' = read
    <3>1. arrived = read \o (in \o inq) /\ in \o inq \in Seq(Byte)
      BY <2>2, ConcatAssociative, ConcatProperties
    <3>2. SubSeq(arrived, 1, Len(read)) = read /\ Len(read) \in 0 .. Len(arrived)
      BY <2>2, <3>1, Beginning
    <3>3. Len(read) \in Len(read) .. Len(arrived)
      BY <3>2
    <3> QED
      BY <2>1, <2>3, <3>2, <3>3 DEF Inbound!Leave
  <2>4. CASE in # <<>> /\ read' = Append(read, Head(in))
    <3>1. /\ Head(in) \in Byte /\ Tail(in) \in Seq(Byte)
          /\ Append(read, Head(in)) \o Tail(in) = read \o in
      BY <2>2, <2>4, HeadTailProperties, HeadJoined
    <3>2. read' \in Seq(Byte) /\ Len(read') = Len(read) + 1 /\ Len(read) \in Nat
      BY <2>2, <2>4, <3>1, AppendProperties, LenProperties
    <3>3. arrived = read' \o (Tail(in) \o inq) /\ Tail(in) \o inq \in Seq(Byte)
      <4>1. arrived = (read' \o Tail(in)) \o inq
        BY <2>2, <2>4, <3>1
      <4>2. read' \in Seq(Byte) /\ Tail(in) \in Seq(Byte) /\ inq \in Seq(Byte)
        BY <2>2, <3>1, <3>2
      <4>3. (read' \o Tail(in)) \o inq = read' \o (Tail(in) \o inq)
        BY <4>2, Regroup
      <4>4. Tail(in) \o inq \in Seq(Byte)
        BY <4>2, ConcatProperties
      <4> QED
        BY <4>1, <4>3, <4>4
    <3>4. SubSeq(arrived, 1, Len(read')) = read' /\ Len(read') \in 0 .. Len(arrived)
      BY <2>2, <3>2, <3>3, Beginning
    <3>5. Len(read') \in Len(read) .. Len(arrived)
      BY <3>2, <3>4
    <3> QED
      BY <2>1, <3>4, <3>5 DEF Inbound!Leave
  <2> QED
    BY <2>3, <2>4, ReadSteps
<1> QED
  BY <1>1, <1>2, BytesConserved, PTL DEF Spec, InputIsByteStream, Inbound!Spec

=============================================================================
