----------------------------- MODULE MCAccounts -----------------------------
(***************************************************************************)
(* Instances of Accounts for TLC.                                          *)
(***************************************************************************)
EXTENDS Accounts, TLC

CONSTANTS u1, u2, c1, c2, r1, r2

TwoUsers    == {u1, u2}
TwoClients  == {c1, c2}
OneClient   == {c1}
TwoRequests == {r1, r2}
Symmetry    == Permutations(TwoUsers) \cup Permutations(TwoRequests)

=============================================================================
