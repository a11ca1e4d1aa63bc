---------------------------- MODULE MCTcpStream ----------------------------
(***************************************************************************)
(* Instances of TcpStream for TLC.                                         *)
(***************************************************************************)
EXTENDS TcpStream
=============================================================================
