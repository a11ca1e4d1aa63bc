----------------------------- MODULE MCIp4Text -----------------------------
(***************************************************************************)
(* Instances of Ip4Text for TLC.                                           *)
(***************************************************************************)
EXTENDS Ip4Text
=============================================================================
