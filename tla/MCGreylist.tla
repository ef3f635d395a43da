----------------------------- MODULE MCGreylist -----------------------------
(***************************************************************************)
(* Instances of Greylist for TLC.                                          *)
(***************************************************************************)
EXTENDS Greylist, TLC

CONSTANTS a1, a2, timer, manual, adm

TwoIPs   == {a1, a2}
OneIP    == {a1}
Crawler  == {a1}
JustTimer == {timer}
TwoPasses == {timer, manual}
OneAdmin == {adm}

=============================================================================
