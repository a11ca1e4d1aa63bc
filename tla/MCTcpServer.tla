---------------------------- MODULE MCTcpServer ----------------------------
(***************************************************************************)
(* Instances of TcpServer for TLC.                                         *)
(***************************************************************************)
EXTENDS TcpServer

\* Descriptors, client places and server places are interchangeable.
Symmetry == Permutations(FDs) \cup Permutations(Clients) \cup Permutations(Servers)
=============================================================================
