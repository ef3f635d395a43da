---------------------------- MODULE MCDeadLinks ----------------------------
(***************************************************************************)
(* Instances of DeadLinks for TLC.                                         *)
(***************************************************************************)
EXTENDS DeadLinks, TLC

CONSTANTS u1, p1, timer, manual, q1

OneUrl     == {u1}
OnePage    == {p1}
TwoScans   == {timer, manual}
OneRecheck == {q1}

=============================================================================
