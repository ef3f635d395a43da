--------------------------- MODULE MCAccountsDoor ---------------------------
(***************************************************************************)
(* Who is who and who is let in, in one run: `part` tells which is looked  *)
(* at, the accounts or the door of the greylist.  They share no variable,  *)
(* so their steps commute and are not interleaved.                         *)
(***************************************************************************)
EXTENDS MCAccounts, Challenge

CONSTANTS browser, home, road, cat, dog

OneVisitor == {browser}
TwoPlaces  == {home, road}
TwoArts    == {cat, dog}

VARIABLE part

DoorInit == part \in {"accounts", "door"} /\ Init /\ ChallengeInit
            /\ (part = "accounts" => art = cat /\ listed = {})
DoorNext == /\ UNCHANGED part
            /\ \/ part = "accounts" /\ Next /\ UNCHANGED challengeVars
               \/ part = "door" /\ ChallengeNext /\ UNCHANGED vars
DoorSpec == DoorInit /\ [][DoorNext]_<<vars, challengeVars, part>>

=============================================================================
