------------------------------ MODULE MCPages ------------------------------
(***************************************************************************)
(* Instances of Pages for TLC.                                             *)
(***************************************************************************)
EXTENDS Pages, TLC

CONSTANTS w1, w2, v1, f1, f2, library, post

TwoNames   == {library, post}
FourIds    == 0 .. 3
SomePaths  == {<<library>>, <<library, post>>, <<library, post, post>>, <<post>>}
OneWriter  == {w1}
TwoWriters == {w1, w2}
OneReader  == {v1}
NoReaders  == {}
OneFile    == {f1}

=============================================================================
