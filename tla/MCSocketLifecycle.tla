------------------------- MODULE MCSocketLifecycle -------------------------
(***************************************************************************)
(* Instances of SocketLifecycle for TLC.                                   *)
(***************************************************************************)
EXTENDS SocketLifecycle, TLC

EveryKind == [type : Types, socket_type : SocketTypes]
StreamClient == {[type |-> "stream", socket_type |-> "client"]}
NotRaw == {k \in EveryKind : k.type # "raw"}

\* 1200 ms is waited for as 500 + 500 + 200: two full chunks and a rest.
ThreeChunks == 1200

Anywhere == Labels
\* The owner is blocked in the system call of an I/O call.
Blocked == {"io_wait"}
\* The owner is in open() or blocked in a receive.
Waiting == OpenLabels \cup Blocked

Symmetry == Permutations(FDs) \cup Permutations(Closers)
=============================================================================
