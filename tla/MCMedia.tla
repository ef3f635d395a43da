------------------------------ MODULE MCMedia ------------------------------
(***************************************************************************)
(* Instances of Media for TLC.                                             *)
(***************************************************************************)
EXTENDS Media, TLC

CONSTANTS jpeg, avif, i1, i2, r1, r2, boot

JpegOnly   == {jpeg}
TwoUploads == {jpeg, avif}
AvifOnly   == {avif}
OneItem    == {i1}
TwoItems   == {i1, i2}
OneRequest == {r1}
TwoRequests == {r1, r2}

\* Requests are interchangeable, and no run here checks liveness.
Symmetry == Permutations(TwoRequests)

=============================================================================
