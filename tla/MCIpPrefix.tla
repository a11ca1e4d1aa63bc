----------------------------- MODULE MCIpPrefix -----------------------------
(***************************************************************************)
(* Instances of IpPrefix for TLC.                                          *)
(***************************************************************************)
EXTENDS IpPrefix
=============================================================================
