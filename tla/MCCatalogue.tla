---------------------------- MODULE MCCatalogue ----------------------------
(***************************************************************************)
(* The page tree as it is written and as it is read, in one run: `part`    *)
(* tells what is looked at.  The writes are statements in Pages and whole  *)
(* in Catalogue; the two share no variable, so their steps commute and are *)
(* not interleaved.  Of what is read, the listings are checked without     *)
(* requests for the feed (no invariant of theirs depends on one), and the  *)
(* feed with the writes that it can show.                                  *)
(***************************************************************************)
EXTENDS MCPages, Catalogue

ThreePages  == 6 .. 8
SomeTexts   == {"plain", "embed", "grid"}
SomeSearches ==
    {NoSearch, [names |-> {6}, texts |-> {"embed"}, hex |-> FALSE],
     [names |-> {7}, texts |-> {"embed"}, hex |-> TRUE]}

VARIABLE part

Sections == {BlogPage, ProjectsPage}

\* A step the feed can tell from none, and from the other such steps: for it
\* all gates but the public one are alike, and all texts but one.
FeedStep ==
    \A i \in Nodes : rows'[i] # rows[i] =>
      /\ i \in Sections \/ \E row \in {rows[i], rows'[i]} \ {NoRow} : row.parent \in Sections
      /\ rows'[i] # NoRow => rows'[i].gate < 2 /\ rows'[i].text # "grid" /\ ~rows'[i].pinned
      /\ NoRow \notin {rows[i], rows'[i]} => rows'[i].order = rows[i].order

\* One the listings can tell: no request for the feed, and no second in which
\* nothing goes live.
ListStep == fetches' = 0 /\ (second' # second => busy')

PartsInit ==
    /\ Init /\ CatalogueInit
    /\ part \in {"written", "listed", "fed"}
    /\ part = "written" => Cardinality(Under(BlogPage)) = 2
    /\ part = "fed" => Under(BlogPage) \cup Under(ProjectsPage) = {i \in PageIds : There(i)}
PartsNext ==
    /\ UNCHANGED part
    /\ \/ part = "written" /\ Next /\ UNCHANGED catalogueVars
       \/ part = "listed" /\ CatalogueNext /\ ListStep /\ UNCHANGED vars
       \/ part = "fed" /\ CatalogueNext /\ FeedStep /\ UNCHANGED vars
PartsSpec == PartsInit /\ [][PartsNext]_<<vars, catalogueVars, part>>

\* The listings hold to the gate (Catalogue), wherever pages are listed.
ListingsMatchTheGate == part = "listed" => ListingsMatch

=============================================================================
