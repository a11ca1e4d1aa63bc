----------------------------- MODULE MCIp6Text -----------------------------
(***************************************************************************)
(* Instances of Ip6Text for TLC.                                           *)
(***************************************************************************)
EXTENDS Ip6Text

\* 1; a letter; the largest group; and a number too large for both bases.
MCNumbers == {<<1>>, <<3, 3>>, <<1, 0, 0>>}
MCSample == {0, 1, 15}
=============================================================================
