----------------------------- MODULE ByteStream -----------------------------
(***************************************************************************)
(* What one direction of a TCP stream promises: the bytes that leave are   *)
(* the bytes that entered, each once, in order and with none left out.     *)
(***************************************************************************)
EXTENDS Naturals, Sequences

CONSTANT Byte

VARIABLES entered, left

Init == entered = <<>> /\ left = <<>>

\* A byte enters or not, and any number of those already on their way leave.
Enter == entered' = entered \/ \E b \in Byte : entered' = Append(entered, b)
Leave == \E n \in Len(left) .. Len(entered) : left' = SubSeq(entered, 1, n)

Spec == Init /\ [][Enter /\ Leave]_<<entered, left>>
=============================================================================
