----------------------------- MODULE MCPublicIp -----------------------------
(***************************************************************************)
(* Instances of PublicIp for TLC.                                          *)
(***************************************************************************)
EXTENDS PublicIp

CONSTANTS a1, a2, a3

ThreeIPs == {a1, a2, a3}

=============================================================================
