--------------------------- MODULE MCMediaServing ---------------------------
(***************************************************************************)
(* The files of the media store and what visitors get of them, in one run: *)
(* `part` tells which of the two is looked at.  Serving takes the blobs    *)
(* for stored; they share no variable, so their steps commute and are not  *)
(* interleaved.                                                            *)
(***************************************************************************)
EXTENDS MCMedia, Serving

CONSTANTS m1, m2, clip, frame, v1, v2

TwoRefs     == {m1, m2}
TwoContents == {clip, frame}
TheMime     == clip :> "video" @@ frame :> "avif"
TheBytes    == clip :> 2 @@ frame :> 1
TheWidth    == clip :> 0 @@ frame :> 1
TheCover    == clip :> frame @@ frame :> Nothing
TwoVisitors == {v1, v2}

VARIABLE part

\* What the other part starts from makes no difference.
MediaInit == /\ part \in {"files", "visitors"} /\ Init /\ ServingInit
             /\ part = "visitors" => \A i \in Items : item[i] = NoItem
MediaNext == /\ UNCHANGED part
             /\ \/ part = "files" /\ Next /\ UNCHANGED servingVars
                \/ part = "visitors" /\ ServingNext /\ UNCHANGED vars
MediaSpec == MediaInit /\ [][MediaNext]_<<vars, servingVars, part>>

TwoOfEach == Permutations(TwoRequests) \cup Permutations(TwoVisitors)

=============================================================================
