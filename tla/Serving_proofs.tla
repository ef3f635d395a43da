--------------------------- MODULE Serving_proofs ---------------------------
(***************************************************************************)
(* Proofs about Serving: for any media, blobs, gates and number of         *)
(* concurrent requests, bytes are given only to whom every item that holds *)
(* them admits, a closed item looks missing, and the shared cache holds    *)
(* only what was public.                                                   *)
(*                                                                         *)
(* One invariant, Inv: what each request has learnt so far, in terms of    *)
(* the history of what it might have been given.  The history only grows   *)
(* while a request runs, so what the other actors do cannot disturb it.    *)
(*                                                                         *)
(* Links, beside it: what a save writes is an item's name or the pasted    *)
(* link, so that a saved link keeps leading to the item it was made for.   *)
(***************************************************************************)
EXTENDS Serving, TLAPS

Fields == {"route", "pc", "rank", "at", "key", "found", "cover", "todo", "free",
           "answer", "stored"}

\* A request is a record, which its handler updates field by field.
Shape == /\ visit = [c \in Visitors |-> visit[c]]
         /\ \A c \in Visitors : visit[c] = [x \in Fields |-> visit[c][x]]

OfRef == {"get", "options", "embed"}

\* What the handler of a request q knows, whose history is o (blobs) and s
\* (items), and p the blobs that were public.
Knows(q, o, s, p) ==
    /\ q.pc # "answered" => q.answer = "done"
    /\ q.pc = "find" => q.at \in Refs
    /\ q.pc = "disk" => q.key \in o
    /\ q.pc = "disk" /\ q.free => q.key \in p
    /\ q.pc = "answered" /\ q.answer = "bytes" => q.key \in o
    /\ q.route \in OfRef => q.pc \in {"idle", "find", "variants", "gate", "disk", "answered"}
    /\ q.route \in OfRef /\ q.pc \in {"variants", "gate", "disk"} => q.at \in s
    /\ q.route \in OfRef /\ q.pc = "answered" /\ q.at \notin s
       => q.answer = "missing" /\ ~q.stored

Inv == /\ Shape
       /\ shared \subseteq public
       /\ \A c \in Visitors : Knows(visit[c], open[c], seen[c], public)

-----------------------------------------------------------------------------

\* While a request runs its history only grows.
LEMMA HistoryGrows ==
    ASSUME Remember, NEW c \in Visitors, visit[c].pc # "idle", visit'[c].pc # "idle"
    PROVE  open[c] \subseteq open'[c] /\ seen[c] \subseteq seen'[c] /\ public \subseteq public'
  BY DEF Remember

\* The history covers the state a step leads to.
LEMMA HistoryCovers ==
    ASSUME Remember, NEW c \in Visitors, visit'[c].pc # "idle"
    PROVE  /\ MayHave(media', kept', visit'[c].rank) \subseteq open'[c]
           /\ MaySee(media', visit'[c].rank) \subseteq seen'[c]
           /\ MayHave(media', kept', 0) \subseteq public'
  BY DEF Remember

\* What is known of a request stays known while it does nothing.
LEMMA KnowledgeLasts ==
    ASSUME Remember, NEW c \in Visitors, visit'[c] = visit[c],
           Knows(visit[c], open[c], seen[c], public)
    PROVE  Knows(visit'[c], open'[c], seen'[c], public')
<1>1. CASE visit[c].pc = "idle"
  BY <1>1 DEF Knows
<1>2. CASE visit[c].pc # "idle"
  <2>1. open[c] \subseteq open'[c] /\ seen[c] \subseteq seen'[c] /\ public \subseteq public'
    BY <1>2, HistoryGrows
  <2> QED BY <1>2, <2>1 DEF Knows
<1> QED BY <1>1, <1>2

\* It is enough to look at the request that takes the step.
LEMMA OneMoves ==
    ASSUME Inv, Remember, NEW c \in Visitors, NEW q,
           visit' = [visit EXCEPT ![c] = q],
           q = [x \in Fields |-> q[x]],
           shared' \subseteq public',
           Knows(q, open'[c], seen'[c], public')
    PROVE  Inv'
<1>1. visit'[c] = q /\ \A d \in Visitors \ {c} : visit'[d] = visit[d]
  BY DEF Inv, Shape
<1>2. visit' = [d \in Visitors |-> visit'[d]]
  BY DEF Inv, Shape
<1>3. Shape'
  BY <1>1, <1>2 DEF Inv, Shape
<1>4. ASSUME NEW d \in Visitors PROVE Knows(visit'[d], open'[d], seen'[d], public')
  <2>1. CASE d = c
    BY <1>1, <2>1
  <2>2. CASE d # c
    BY <1>1, <2>2, KnowledgeLasts DEF Inv
  <2> QED BY <2>1, <2>2
<1> QED BY <1>3, <1>4 DEF Inv

\* Steps that serve no bytes.
LEMMA SharedStays ==
    ASSUME Inv, Remember, shared' = shared
    PROVE  shared' \subseteq public'
  BY DEF Inv, Remember

\* Idle requests know nothing.
LEMMA NoneKnown ==
    ASSUME NEW o, NEW s, NEW p PROVE Knows(NoVisit, o, s, p)
  BY DEF Knows, NoVisit

\* An answer without bytes, to whom may see the item.
LEMMA Answered ==
    ASSUME Inv, Remember, NEW c \in Visitors, NEW a, a # "bytes",
           visit[c].pc \in {"find", "variants", "gate", "disk"},
           visit[c].pc # "find" \/ a = "missing",
           Answer(c, a, FALSE), shared' = shared
    PROVE  Inv'
<1> DEFINE q == [visit[c] EXCEPT !.pc = "answered", !.answer = a, !.stored = FALSE]
<1>1. visit' = [visit EXCEPT ![c] = q]
  BY DEF Answer, Become
<1>2. /\ visit[c] = [x \in Fields |-> visit[c][x]]
      /\ Knows(visit[c], open[c], seen[c], public)
  BY DEF Inv, Shape
<1>3. /\ q = [x \in Fields |-> q[x]]
      /\ q.pc = "answered" /\ q.answer = a /\ q.stored = FALSE
      /\ q.route = visit[c].route /\ q.at = visit[c].at
  BY <1>2 DEF Fields
<1>4. visit'[c].pc = "answered"
  BY <1>1, <1>3 DEF Inv, Shape
<1>5. seen[c] \subseteq seen'[c]
  BY <1>4, HistoryGrows
<1>6. Knows(q, open'[c], seen'[c], public')
  BY <1>2, <1>3, <1>5 DEF Knows, OfRef
<1> QED BY <1>1, <1>3, <1>6, OneMoves, SharedStays

\* A request that asks for nothing of a visitor goes on.
LEMMA AdminMoves ==
    ASSUME Inv, Remember, NEW c \in Visitors, NEW q, Become(c, q), shared' = shared,
           q = [x \in Fields |-> q[x]], q.route \notin OfRef, q.answer = "done",
           q.pc \notin {"find", "disk"}
    PROVE  Inv'
<1>1. Knows(q, open'[c], seen'[c], public')
  BY DEF Knows
<1> QED BY <1>1, OneMoves, SharedStays DEF Become

LEMMA NobodyMoves ==
    ASSUME Inv, Remember, UNCHANGED <<visit, shared>>
    PROVE  Inv'
<1>1. \A c \in Visitors : Knows(visit'[c], open'[c], seen'[c], public')
  BY KnowledgeLasts DEF Inv
<1> QED BY <1>1, SharedStays DEF Inv, Shape

-----------------------------------------------------------------------------

(***************************************************************************)
(* Visitors.                                                               *)
(***************************************************************************)

LEMMA AskKeeps == ASSUME Inv, Remember, NEW c \in Visitors, Ask(c) PROVE Inv'
<1>1. PICK rank \in Ranks, i \in Refs, route \in OfRef :
        /\ Become(c, [NoVisit EXCEPT !.route = route, !.pc = "find", !.rank = rank, !.at = i])
        /\ shared' = shared
  BY DEF Ask, Start, OfRef
<1> DEFINE q == [NoVisit EXCEPT !.route = route, !.pc = "find", !.rank = rank, !.at = i]
<1>2. q = [x \in Fields |-> q[x]]
  BY DEF Fields, NoVisit
<1>3. Knows(q, open'[c], seen'[c], public')
  BY DEF Knows, NoVisit
<1> QED BY <1>1, <1>2, <1>3, OneMoves, SharedStays DEF Become

LEMMA AskFileKeeps ==
    ASSUME Inv, Remember, NEW c \in Visitors, AskFile(c) \/ AskCover(c) PROVE Inv'
<1>1. PICK rank \in Ranks,
           b \in Contents \cup {CoverUrl(CoverItem), CoverUrl(page.cover), CoverHero(page.cover)} :
        /\ Become(c, [NoVisit EXCEPT !.route = "file", !.pc = "gate", !.rank = rank, !.key = b])
        /\ shared' = shared
  BY DEF AskFile, AskCover, Start
<1> DEFINE q == [NoVisit EXCEPT !.route = "file", !.pc = "gate", !.rank = rank, !.key = b]
<1>2. q = [x \in Fields |-> q[x]] /\ q.route \notin OfRef /\ q.answer = "done" /\ q.pc = "gate"
  BY DEF Fields, NoVisit, OfRef
<1> QED BY <1>1, <1>2, AdminMoves

LEMMA FindKeeps == ASSUME Inv, Remember, NEW c \in Visitors, Find(c) PROVE Inv'
<1>1. visit[c].pc = "find" /\ shared' = shared
  BY DEF Find, Reached, Silent
<1>2. /\ visit[c] = [x \in Fields |-> visit[c][x]]
      /\ Knows(visit[c], open[c], seen[c], public)
  BY DEF Inv, Shape
<1>3. CASE Missing(c)
  BY <1>1, <1>3, Answered DEF Missing
<1>4. CASE /\ VisibleTo(media, visit[c].at, visit[c].rank)
           /\ Become(c, [visit[c] EXCEPT !.pc = "variants", !.found = media[visit[c].at]])
  <2> DEFINE q == [visit[c] EXCEPT !.pc = "variants", !.found = media[visit[c].at]]
  <2>1. /\ q = [x \in Fields |-> q[x]] /\ q.pc = "variants"
        /\ q.at = visit[c].at /\ q.rank = visit[c].rank /\ q.answer = visit[c].answer
    BY <1>2 DEF Fields
  <2>2. visit'[c] = q
    BY <1>4 DEF Become, Inv, Shape
  <2>3. visit[c].at \in MaySee(media', visit'[c].rank)
    BY <1>1, <1>2, <1>4, <2>1, <2>2 DEF Find, Silent, MaySee, VisibleTo, Knows
  <2>4. q.at \in seen'[c]
    BY <2>1, <2>2, <2>3, HistoryCovers
  <2>5. Knows(q, open'[c], seen'[c], public')
    BY <1>1, <1>2, <2>1, <2>4 DEF Knows
  <2> QED BY <1>1, <1>4, <2>1, <2>5, OneMoves, SharedStays DEF Become
<1> QED BY <1>3, <1>4 DEF Find

LEMMA VariantsKeeps == ASSUME Inv, Remember, NEW c \in Visitors, Variants(c) PROVE Inv'
<1>1. visit[c].pc = "variants" /\ shared' = shared
  BY DEF Variants, Reached, Silent
<1>2. /\ visit[c] = [x \in Fields |-> visit[c][x]]
      /\ Knows(visit[c], open[c], seen[c], public)
  BY DEF Inv, Shape
<1>3. ASSUME NEW a \in {"manifest", "embed", "empty", "not_acceptable"}, Answer(c, a, FALSE)
      PROVE  Inv'
  BY <1>1, <1>3, Answered
<1>4. ASSUME NEW b, Become(c, [visit[c] EXCEPT !.pc = "gate", !.key = b, !.found = Nothing])
      PROVE  Inv'
  <2> DEFINE q == [visit[c] EXCEPT !.pc = "gate", !.key = b, !.found = Nothing]
  <2>1. /\ q = [x \in Fields |-> q[x]] /\ q.pc = "gate" /\ q.route = visit[c].route
        /\ q.at = visit[c].at /\ q.answer = visit[c].answer
    BY <1>2 DEF Fields
  <2>2. visit'[c] = q
    BY <1>4 DEF Become, Inv, Shape
  <2>3. seen[c] \subseteq seen'[c]
    BY <1>1, <2>1, <2>2, HistoryGrows
  <2>4. Knows(q, open'[c], seen'[c], public')
    BY <1>1, <1>2, <2>1, <2>3 DEF Knows
  <2> QED BY <1>1, <1>4, <2>1, <2>4, OneMoves, SharedStays DEF Become
<1>5. \/ \E a \in {"manifest", "embed", "empty", "not_acceptable"} : Answer(c, a, FALSE)
      \/ \E b : Become(c, [visit[c] EXCEPT !.pc = "gate", !.key = b, !.found = Nothing])
  <2>1. CASE visit[c].route = "options"
    BY <2>1 DEF Variants
  <2>2. CASE visit[c].route = "embed"
    BY <2>2 DEF Variants
  <2>3. CASE visit[c].route \notin {"options", "embed"}
    BY <2>3 DEF Variants
  <2> QED BY <2>1, <2>2, <2>3
<1> QED BY <1>3, <1>4, <1>5

LEMMA GateKeeps == ASSUME Inv, Remember, NEW c \in Visitors, Gate(c) PROVE Inv'
<1>1. visit[c].pc = "gate" /\ shared' = shared /\ media' = media /\ kept' = kept
  BY DEF Gate, Reached, Silent
<1>2. /\ visit[c] = [x \in Fields |-> visit[c][x]]
      /\ Knows(visit[c], open[c], seen[c], public)
  BY DEF Inv, Shape
<1>3. CASE Missing(c)
  BY <1>1, <1>3, Answered DEF Missing
<1>4. CASE /\ Carriers(media, kept, visit[c].key) # {} /\ ~Gated(visit[c].key, visit[c].rank)
           /\ Become(c, [visit[c] EXCEPT !.pc = "disk", !.free = ~Gated(visit[c].key, 0)])
  <2> DEFINE q == [visit[c] EXCEPT !.pc = "disk", !.free = ~Gated(visit[c].key, 0)]
  <2>1. /\ q = [x \in Fields |-> q[x]] /\ q.pc = "disk" /\ q.route = visit[c].route
        /\ q.at = visit[c].at /\ q.key = visit[c].key /\ q.rank = visit[c].rank
        /\ q.answer = visit[c].answer /\ q.free = ~Gated(visit[c].key, 0)
    BY <1>2 DEF Fields
  <2>2. visit'[c] = q
    BY <1>4 DEF Become, Inv, Shape
  <2>3. seen[c] \subseteq seen'[c]
    BY <1>1, <2>1, <2>2, HistoryGrows
  <2>4. \A rank : ~Gated(visit[c].key, rank) => visit[c].key \in MayHave(media', kept', rank)
    BY <1>1, <1>4 DEF MayHave, Gated, Demands, Carriers
  <2>5. q.key \in open'[c] /\ (q.free => q.key \in public')
    BY <1>4, <2>1, <2>2, <2>4, HistoryCovers
  <2>6. Knows(q, open'[c], seen'[c], public')
    BY <1>1, <1>2, <2>1, <2>3, <2>5 DEF Knows
  <2> QED BY <1>1, <1>4, <2>1, <2>6, OneMoves, SharedStays DEF Become
<1> QED BY <1>3, <1>4 DEF Gate

LEMMA DiskKeeps == ASSUME Inv, Remember, NEW c \in Visitors, Disk(c) PROVE Inv'
<1>1. visit[c].pc = "disk"
  BY DEF Disk, Reached
<1>2. /\ visit[c] = [x \in Fields |-> visit[c][x]]
      /\ Knows(visit[c], open[c], seen[c], public)
      /\ public \subseteq public'
  BY DEF Inv, Shape, Remember
<1>3. ASSUME NEW a \in {"away", "busy"}, Answer(c, a, FALSE), shared' = shared PROVE Inv'
  BY <1>1, <1>3, Answered
<1>4. CASE /\ Answer(c, "bytes", visit[c].free)
           /\ shared' = IF visit[c].free THEN shared \cup {visit[c].key} ELSE shared
  <2> DEFINE q == [visit[c] EXCEPT !.pc = "answered", !.answer = "bytes", !.stored = visit[c].free]
  <2>1. /\ q = [x \in Fields |-> q[x]] /\ q.pc = "answered" /\ q.route = visit[c].route
        /\ q.at = visit[c].at /\ q.key = visit[c].key
    BY <1>2 DEF Fields
  <2>2. visit'[c] = q
    BY <1>4 DEF Answer, Become, Inv, Shape
  <2>3. seen[c] \subseteq seen'[c] /\ open[c] \subseteq open'[c]
    BY <1>1, <2>1, <2>2, HistoryGrows
  <2>4. Knows(q, open'[c], seen'[c], public')
    BY <1>1, <1>2, <2>1, <2>3 DEF Knows
  <2>5. shared' \subseteq public'
    BY <1>1, <1>2, <1>4 DEF Knows, Inv
  <2> QED BY <1>4, <2>1, <2>4, <2>5, OneMoves DEF Answer, Become
<1>5. \/ \E a \in {"away", "busy"} : Answer(c, a, FALSE) /\ shared' = shared
      \/ /\ Answer(c, "bytes", visit[c].free)
         /\ shared' = IF visit[c].free THEN shared \cup {visit[c].key} ELSE shared
  <2>1. CASE drive = "ok"
    BY <2>1 DEF Disk
  <2>2. CASE drive = "away"
    BY <2>2 DEF Disk
  <2>3. CASE drive \notin {"ok", "away"}
    BY <2>3 DEF Disk
  <2> QED BY <2>1, <2>2, <2>3
<1> QED BY <1>3, <1>4, <1>5

LEMMA LeaveKeeps == ASSUME Inv, Remember, NEW c \in Visitors, Leave(c) PROVE Inv'
<1>1. NoVisit = [x \in Fields |-> NoVisit[x]]
  BY DEF NoVisit, Fields
<1> QED BY <1>1, NoneKnown, OneMoves, SharedStays DEF Leave, Become, Silent

-----------------------------------------------------------------------------

(***************************************************************************)
(* The admin.  Nothing of an admin's request reaches the routes of a ref.  *)
(***************************************************************************)

\* A request of the admin that has begun goes on, or ends.
LEMMA AdminGoesOn ==
    ASSUME Inv, Remember, NEW c \in Visitors, NEW q, Become(c, q), shared' = shared,
           visit[c].pc \in Stages \ {"idle", "find", "variants", "gate", "disk", "answered"},
           q = [x \in Fields |-> q[x]], q.pc \notin {"find", "disk"},
           q.route = visit[c].route, q.answer = visit[c].answer
    PROVE  Inv'
<1>1. Knows(visit[c], open[c], seen[c], public)
  BY DEF Inv
<1>2. q.route \notin OfRef /\ q.answer = "done"
  BY <1>1 DEF Knows
<1> QED BY <1>2, AdminMoves

LEMMA PostItemKeeps == ASSUME Inv, Remember, NEW c \in Visitors, PostItem(c) PROVE Inv'
<1>1. PICK i, s :
        /\ Become(c, [NoVisit EXCEPT !.route = "upload", !.pc = "rows", !.rank = AdminRank,
                                     !.at = i, !.todo = s])
        /\ shared' = shared
  BY DEF PostItem, Start
<1> DEFINE q == [NoVisit EXCEPT !.route = "upload", !.pc = "rows", !.rank = AdminRank,
                                !.at = i, !.todo = s]
<1>2. q = [x \in Fields |-> q[x]] /\ q.route \notin OfRef /\ q.answer = "done" /\ q.pc = "rows"
  BY DEF Fields, NoVisit, OfRef
<1> QED BY <1>1, <1>2, AdminMoves

LEMMA ReplaceSetKeeps == ASSUME Inv, Remember, NEW c \in Visitors, ReplaceSet(c) PROVE Inv'
<1>1. PICK i, s, b :
        /\ Become(c, [NoVisit EXCEPT !.route = "replace", !.pc = "cover", !.rank = AdminRank,
                                     !.at = i, !.todo = s, !.key = b])
        /\ shared' = shared
  BY DEF ReplaceSet, Start
<1> DEFINE q == [NoVisit EXCEPT !.route = "replace", !.pc = "cover", !.rank = AdminRank,
                                !.at = i, !.todo = s, !.key = b]
<1>2. q = [x \in Fields |-> q[x]] /\ q.route \notin OfRef /\ q.answer = "done" /\ q.pc = "cover"
  BY DEF Fields, NoVisit, OfRef
<1> QED BY <1>1, <1>2, AdminMoves

LEMMA AppendFileKeeps == ASSUME Inv, Remember, NEW c \in Visitors, AppendFile(c) PROVE Inv'
<1>1. PICK i, b :
        /\ Become(c, [NoVisit EXCEPT !.route = "append", !.pc = "rows", !.rank = AdminRank,
                                     !.at = i, !.todo = <<b>>])
        /\ shared' = shared
  BY DEF AppendFile, Start
<1> DEFINE q == [NoVisit EXCEPT !.route = "append", !.pc = "rows", !.rank = AdminRank,
                                !.at = i, !.todo = <<b>>]
<1>2. q = [x \in Fields |-> q[x]] /\ q.route \notin OfRef /\ q.answer = "done" /\ q.pc = "rows"
  BY DEF Fields, NoVisit, OfRef
<1> QED BY <1>1, <1>2, AdminMoves

LEMMA SavePageKeeps == ASSUME Inv, Remember, NEW c \in Visitors, SavePage(c) PROVE Inv'
<1>1. PICK b \in Contents, pc \in {"resolve", "lookup"} :
        /\ Become(c, [NoVisit EXCEPT !.route = "save", !.pc = pc, !.rank = AdminRank, !.key = b])
        /\ shared' = shared
  <2>1. PICK b \in Contents, pasted \in BOOLEAN :
          /\ Become(c, [NoVisit EXCEPT !.route = "save",
                          !.pc = IF pasted THEN "resolve" ELSE "lookup",
                          !.rank = AdminRank, !.key = b])
          /\ shared' = shared
    BY DEF SavePage, Start
  <2>2. CASE pasted
    BY <2>1, <2>2
  <2>3. CASE ~pasted
    BY <2>1, <2>3
  <2> QED BY <2>2, <2>3
<1> DEFINE q == [NoVisit EXCEPT !.route = "save", !.pc = pc, !.rank = AdminRank, !.key = b]
<1>2. q = [x \in Fields |-> q[x]] /\ q.route \notin OfRef /\ q.answer = "done" /\ q.pc = pc
  BY DEF Fields, NoVisit, OfRef
<1> QED BY <1>1, <1>2, AdminMoves

LEMMA AddRowKeeps == ASSUME Inv, Remember, NEW c \in Visitors, AddRow(c) PROVE Inv'
<1>1. visit[c].pc = "rows" /\ shared' = shared /\ visit[c] = [x \in Fields |-> visit[c][x]]
  BY DEF AddRow, Reached, Inv, Shape
<1>2. ASSUME NEW q \in {[visit[c] EXCEPT !.todo = Tail(visit[c].todo)],
                        [visit[c] EXCEPT !.pc = "answered"],
                        [visit[c] EXCEPT !.pc = "cover",
                                         !.key = Primary(visit[c].at, kept[visit[c].at] \o visit[c].todo)]},
             Become(c, q)
      PROVE  Inv'
  <2>1. /\ q = [x \in Fields |-> q[x]] /\ q.pc \in {"rows", "answered", "cover"}
        /\ q.route = visit[c].route /\ q.answer = visit[c].answer
    BY <1>1, <1>2 DEF Fields
  <2> QED BY <1>1, <1>2, <2>1, AdminGoesOn DEF Stages
<1>3. \/ Become(c, [visit[c] EXCEPT !.todo = Tail(visit[c].todo)])
      \/ Become(c, [visit[c] EXCEPT !.pc = "answered"])
      \/ Become(c, [visit[c] EXCEPT !.pc = "cover",
                      !.key = Primary(visit[c].at, kept[visit[c].at] \o visit[c].todo)])
  BY DEF AddRow
<1> QED BY <1>2, <1>3

LEMMA GoesOn ==
    ASSUME Inv, Remember, NEW c \in Visitors, NEW pc \in {"answered", "setcover"},
           visit[c].pc \in {"cover", "setcover", "write"}, Go(c, pc), shared' = shared
    PROVE  Inv'
<1> DEFINE q == [visit[c] EXCEPT !.pc = pc]
<1>1. visit[c] = [x \in Fields |-> visit[c][x]]
  BY DEF Inv, Shape
<1>2. /\ q = [x \in Fields |-> q[x]] /\ q.pc = pc
      /\ q.route = visit[c].route /\ q.answer = visit[c].answer
  BY <1>1 DEF Fields
<1> QED BY <1>2, AdminGoesOn DEF Go, Stages

LEMMA ResolveCoverKeeps == ASSUME Inv, Remember, NEW c \in Visitors, ResolveCover(c) PROVE Inv'
<1>1. PICK i : Become(c, [visit[c] EXCEPT !.pc = "lookup", !.cover = i])
  BY DEF ResolveCover
<1> DEFINE q == [visit[c] EXCEPT !.pc = "lookup", !.cover = i]
<1>2. visit[c] = [x \in Fields |-> visit[c][x]] /\ visit[c].pc = "resolve" /\ shared' = shared
  BY DEF Inv, Shape, ResolveCover, Reached, Silent
<1>3. /\ q = [x \in Fields |-> q[x]] /\ q.pc = "lookup"
      /\ q.route = visit[c].route /\ q.answer = visit[c].answer
  BY <1>2 DEF Fields
<1> QED BY <1>1, <1>2, <1>3, AdminGoesOn DEF Stages

LEMMA LookUpKeeps == ASSUME Inv, Remember, NEW c \in Visitors, LookUp(c) PROVE Inv'
<1>1. PICK i : Become(c, [visit[c] EXCEPT !.pc = "write", !.at = i])
  BY DEF LookUp
<1> DEFINE q == [visit[c] EXCEPT !.pc = "write", !.at = i]
<1>2. visit[c] = [x \in Fields |-> visit[c][x]] /\ visit[c].pc = "lookup" /\ shared' = shared
  BY DEF Inv, Shape, LookUp, Reached, Silent
<1>3. /\ q = [x \in Fields |-> q[x]] /\ q.pc = "write"
      /\ q.route = visit[c].route /\ q.answer = visit[c].answer
  BY <1>2 DEF Fields
<1> QED BY <1>1, <1>2, <1>3, AdminGoesOn DEF Stages

LEMMA AdminKeeps ==
    ASSUME Inv, Remember, NEW c \in Visitors,
           \/ PostItem(c) \/ AddRow(c) \/ AddCover(c) \/ ReplaceSet(c) \/ AppendFile(c)
           \/ SavePage(c) \/ ResolveCover(c) \/ LookUp(c) \/ WritePage(c) \/ SetCover(c)
    PROVE  Inv'
<1>1. CASE AddCover(c)
  BY <1>1, GoesOn DEF AddCover, Reached
<1>2. CASE WritePage(c)
  BY <1>2, GoesOn DEF WritePage, Reached
<1>3. CASE SetCover(c)
  BY <1>3, GoesOn DEF SetCover, Reached
<1> QED BY <1>1, <1>2, <1>3, PostItemKeeps, AddRowKeeps, ReplaceSetKeeps, AppendFileKeeps,
           SavePageKeeps, ResolveCoverKeeps, LookUpKeeps

-----------------------------------------------------------------------------

LEMMA ServingInitInv == ServingInit => Inv
<1> SUFFICES ASSUME ServingInit PROVE Inv
  OBVIOUS
<1>1. Shape
  BY DEF ServingInit, Shape, NoVisit, Fields
<1>2. \A c \in Visitors : Knows(visit[c], open[c], seen[c], public)
  BY NoneKnown DEF ServingInit
<1> QED BY <1>1, <1>2 DEF Inv, ServingInit

LEMMA ServingStepInv == Inv /\ [ServingNext]_servingVars => Inv'
<1> SUFFICES ASSUME Inv, [ServingNext]_servingVars PROVE Inv'
  OBVIOUS
<1>1. CASE UNCHANGED servingVars
  BY <1>1 DEF servingVars, Inv, Shape, Knows
<1>2. CASE ServingNext
  <2> USE <1>2 DEF ServingNext
  <2>1. CASE UpdateMetadata \/ EditImage \/ DropItem \/ DropVariant \/ Drive
    BY <2>1, NobodyMoves DEF UpdateMetadata, EditImage, DropItem, DropVariant, Drive
  <2>2. ASSUME NEW c \in Visitors,
               \/ Ask(c) \/ Find(c) \/ Variants(c) \/ AskFile(c) \/ AskCover(c) \/ Gate(c)
               \/ Disk(c) \/ Leave(c)
        PROVE  Inv'
    BY <2>2, AskKeeps, FindKeeps, VariantsKeeps, AskFileKeeps, GateKeeps, DiskKeeps, LeaveKeeps
  <2>3. ASSUME NEW c \in Visitors,
               \/ PostItem(c) \/ AddRow(c) \/ AddCover(c) \/ ReplaceSet(c) \/ AppendFile(c)
               \/ SavePage(c) \/ ResolveCover(c) \/ LookUp(c) \/ WritePage(c) \/ SetCover(c)
        PROVE  Inv'
    BY <2>3, AdminKeeps
  <2> QED BY <2>1, <2>2, <2>3 DEF ServingStep
<1> QED BY <1>1, <1>2

LEMMA ServingInvariant == ServingSpec => []Inv
  BY ServingInitInv, ServingStepInv, PTL DEF ServingSpec

\* Bytes are given only to a role that every item with these bytes admitted
\* at some moment of the request, whatever is uploaded, gated, replaced or
\* deleted meanwhile (serve_media_file).
THEOREM OnlyAllowedBytesAlways == ServingSpec => []OnlyAllowedBytes
<1>1. Inv => OnlyAllowedBytes
  BY DEF Inv, Knows, OnlyAllowedBytes
<1> QED BY <1>1, ServingInvariant, PTL

\* A closed item and a ref that was never given are told in the same words
\* (resolve_visible, render_media_embed).
THEOREM DeniedAlwaysLooksMissing == ServingSpec => []DeniedLooksMissing
<1>1. Inv => DeniedLooksMissing
  BY DEF Inv, Knows, OfRef, DeniedLooksMissing
<1> QED BY <1>1, ServingInvariant, PTL

\* Nothing that was gated ever since it was uploaded is in a shared cache
\* (serve_media_file: its Cache-Control).
THEOREM CacheAlwaysPublic == ServingSpec => []CacheHoldsOnlyPublic
<1>1. Inv => CacheHoldsOnlyPublic
  BY DEF Inv, CacheHoldsOnlyPublic
<1> QED BY <1>1, ServingInvariant, PTL

-----------------------------------------------------------------------------

(***************************************************************************)
(* Saved links.                                                            *)
(***************************************************************************)

\* What a save is about to write is an item, or the key as it was pasted; what
\* it has written is the item, whose name is never used again.
Links ==
    /\ \A c \in Visitors : visit[c].pc = "write" => visit[c].at \in Refs \cup {Nothing}
    /\ page.was # Nothing => page.was \in Refs /\ page.link = page.was

\* The request of one becomes q; the others stay as they are.
LEMMA Becomes ==
    ASSUME Shape, NEW c \in Visitors, NEW q, Become(c, q)
    PROVE  visit'[c] = q /\ \A d \in Visitors \ {c} : visit'[d] = visit[d]
  BY DEF Become, Shape

\* Only a lookup comes to the write.
LEMMA OthersElsewhere ==
    ASSUME Shape, NEW c \in Visitors,
           \/ Ask(c) \/ Find(c) \/ Variants(c) \/ AskFile(c) \/ AskCover(c) \/ Gate(c)
           \/ Disk(c) \/ Leave(c) \/ PostItem(c) \/ AddRow(c) \/ AddCover(c) \/ ReplaceSet(c)
           \/ AppendFile(c) \/ SavePage(c) \/ ResolveCover(c) \/ WritePage(c) \/ SetCover(c)
    PROVE  visit'[c].pc # "write" /\ \A d \in Visitors \ {c} : visit'[d] = visit[d]
<1> DEFINE Elsewhere == visit'[c].pc # "write" /\ \A d \in Visitors \ {c} : visit'[d] = visit[d]
<1>1. visit[c] = [x \in Fields |-> visit[c][x]] /\ "pc" \in Fields /\ "answer" \in Fields
  BY DEF Shape, Fields
<1>2. ASSUME NEW a, NEW cached, Answer(c, a, cached) PROVE Elsewhere
  <2> DEFINE q == [visit[c] EXCEPT !.pc = "answered", !.answer = a, !.stored = cached]
  <2>1. q.pc = "answered"
    BY <1>1
  <2> QED BY <1>2, <2>1, Becomes DEF Answer
<1>3. ASSUME NEW pc \in {"answered", "setcover"}, Go(c, pc) PROVE Elsewhere
  <2> DEFINE q == [visit[c] EXCEPT !.pc = pc]
  <2>1. q.pc = pc
    BY <1>1
  <2> QED BY <1>3, <2>1, Becomes DEF Go
<1>4. ASSUME NEW q, Become(c, q), q.pc # "write" PROVE Elsewhere
  BY <1>4, Becomes
<1>5. CASE Ask(c)
  <2>1. PICK rank \in Ranks, i \in Refs, route \in {"get", "options", "embed"} :
          Become(c, [NoVisit EXCEPT !.route = route, !.pc = "find", !.rank = rank, !.at = i])
    BY <1>5 DEF Ask, Start
  <2> QED BY <1>4, <2>1 DEF NoVisit
<1>6. CASE Find(c)
  <2> DEFINE q == [visit[c] EXCEPT !.pc = "variants", !.found = media[visit[c].at]]
  <2>1. q.pc = "variants"
    BY <1>1
  <2>2. Become(c, q) \/ Answer(c, "missing", FALSE)
    BY <1>6 DEF Find, Missing
  <2> QED BY <1>2, <1>4, <2>1, <2>2
<1>7. CASE Variants(c)
  <2>1. \/ \E a \in {"manifest", "embed", "empty", "not_acceptable"} : Answer(c, a, FALSE)
        \/ \E b : Become(c, [visit[c] EXCEPT !.pc = "gate", !.key = b, !.found = Nothing])
    <3>1. CASE visit[c].route = "options"
      BY <1>7, <3>1 DEF Variants
    <3>2. CASE visit[c].route = "embed"
      BY <1>7, <3>2 DEF Variants
    <3>3. CASE visit[c].route \notin {"options", "embed"}
      BY <1>7, <3>3 DEF Variants
    <3> QED BY <3>1, <3>2, <3>3
  <2>2. \A b : [visit[c] EXCEPT !.pc = "gate", !.key = b, !.found = Nothing].pc = "gate"
    BY <1>1
  <2> QED BY <1>2, <1>4, <2>1, <2>2
<1>8. CASE AskFile(c) \/ AskCover(c)
  <2>1. PICK rank, b :
          Become(c, [NoVisit EXCEPT !.route = "file", !.pc = "gate", !.rank = rank, !.key = b])
    BY <1>8 DEF AskFile, AskCover, Start
  <2> QED BY <1>4, <2>1 DEF NoVisit
<1>9. CASE Gate(c)
  <2> DEFINE q == [visit[c] EXCEPT !.pc = "disk", !.free = ~Gated(visit[c].key, 0)]
  <2>1. q.pc = "disk"
    BY <1>1
  <2>2. Become(c, q) \/ Answer(c, "missing", FALSE)
    BY <1>9 DEF Gate, Missing
  <2> QED BY <1>2, <1>4, <2>1, <2>2
<1>10. CASE Disk(c)
  <2>1. \E a, cached : Answer(c, a, cached)
    <3>1. CASE drive = "ok"
      BY <1>10, <3>1 DEF Disk
    <3>2. CASE drive = "away"
      BY <1>10, <3>2 DEF Disk
    <3>3. CASE drive \notin {"ok", "away"}
      BY <1>10, <3>3 DEF Disk
    <3> QED BY <3>1, <3>2, <3>3
  <2> QED BY <1>2, <2>1
<1>11. CASE Leave(c)
  BY <1>11, <1>4 DEF Leave, NoVisit
<1>12. CASE PostItem(c)
  <2>1. PICK i, s : Become(c, [NoVisit EXCEPT !.route = "upload", !.pc = "rows", !.rank = AdminRank,
                                              !.at = i, !.todo = s])
    BY <1>12 DEF PostItem, Start
  <2> QED BY <1>4, <2>1 DEF NoVisit
<1>13. CASE AddRow(c)
  <2>1. visit[c].pc = "rows"
    BY <1>13 DEF AddRow, Reached
  <2>2. ASSUME NEW q \in {[visit[c] EXCEPT !.todo = Tail(visit[c].todo)],
                          [visit[c] EXCEPT !.pc = "answered"],
                          [visit[c] EXCEPT !.pc = "cover",
                             !.key = Primary(visit[c].at, kept[visit[c].at] \o visit[c].todo)]},
               Become(c, q)
        PROVE  Elsewhere
    <3>1. q.pc \in {"rows", "answered", "cover"}
      BY <1>1, <2>1, <2>2 DEF Fields
    <3> QED BY <1>4, <2>2, <3>1
  <2>3. \/ Become(c, [visit[c] EXCEPT !.todo = Tail(visit[c].todo)])
        \/ Become(c, [visit[c] EXCEPT !.pc = "answered"])
        \/ Become(c, [visit[c] EXCEPT !.pc = "cover",
                        !.key = Primary(visit[c].at, kept[visit[c].at] \o visit[c].todo)])
    BY <1>13 DEF AddRow
  <2> QED BY <2>2, <2>3
<1>14. CASE AddCover(c)
  BY <1>3, <1>14 DEF AddCover
<1>15. CASE ReplaceSet(c)
  <2>1. PICK i, s, b : Become(c, [NoVisit EXCEPT !.route = "replace", !.pc = "cover",
                                    !.rank = AdminRank, !.at = i, !.todo = s, !.key = b])
    BY <1>15 DEF ReplaceSet, Start
  <2> QED BY <1>4, <2>1 DEF NoVisit
<1>16. CASE AppendFile(c)
  <2>1. PICK i, b : Become(c, [NoVisit EXCEPT !.route = "append", !.pc = "rows", !.rank = AdminRank,
                                              !.at = i, !.todo = <<b>>])
    BY <1>16 DEF AppendFile, Start
  <2> QED BY <1>4, <2>1 DEF NoVisit
<1>17. CASE SavePage(c)
  <2>1. PICK b \in Contents, pasted \in BOOLEAN :
          Become(c, [NoVisit EXCEPT !.route = "save", !.pc = IF pasted THEN "resolve" ELSE "lookup",
                                    !.rank = AdminRank, !.key = b])
    BY <1>17 DEF SavePage, Start
  <2>2. [NoVisit EXCEPT !.route = "save", !.pc = IF pasted THEN "resolve" ELSE "lookup",
                        !.rank = AdminRank, !.key = b].pc # "write"
    BY DEF NoVisit
  <2> QED BY <1>4, <2>1, <2>2
<1>18. CASE ResolveCover(c)
  <2>1. PICK i : Become(c, [visit[c] EXCEPT !.pc = "lookup", !.cover = i])
    BY <1>18 DEF ResolveCover
  <2>2. [visit[c] EXCEPT !.pc = "lookup", !.cover = i].pc = "lookup"
    BY <1>1
  <2> QED BY <1>4, <2>1, <2>2
<1>19. CASE WritePage(c) \/ SetCover(c)
  BY <1>3, <1>19 DEF WritePage, SetCover
<1> QED BY <1>5, <1>6, <1>7, <1>8, <1>9, <1>10, <1>11, <1>12, <1>13, <1>14, <1>15, <1>16,
           <1>17, <1>18, <1>19

LEMMA LinksInit == ServingInit => Links
  BY DEF ServingInit, Links, NoVisit

\* page is a record of three fields, which each save sets anew.
PageShape == page = [x \in {"link", "cover", "was"} |-> page[x]]

LEMMA LinksStep == Inv /\ PageShape /\ Links /\ [ServingNext]_servingVars => PageShape' /\ Links'
<1> SUFFICES ASSUME Inv, PageShape, Links, [ServingNext]_servingVars PROVE PageShape' /\ Links'
  OBVIOUS
<1>0. Shape
  BY DEF Inv
<1>1. CASE UNCHANGED servingVars
  BY <1>1 DEF servingVars, Links, PageShape
<1>2. CASE UpdateMetadata \/ EditImage \/ DropItem \/ DropVariant \/ Drive
  BY <1>2 DEF UpdateMetadata, EditImage, DropItem, DropVariant, Drive, Links, PageShape
<1>3. ASSUME NEW c \in Visitors,
             \/ Ask(c) \/ Find(c) \/ Variants(c) \/ AskFile(c) \/ AskCover(c) \/ Gate(c)
             \/ Disk(c) \/ Leave(c) \/ PostItem(c) \/ AddRow(c) \/ AddCover(c) \/ ReplaceSet(c)
             \/ AppendFile(c) \/ SavePage(c) \/ ResolveCover(c)
      PROVE  PageShape' /\ Links'
  <2>1. page' = page
    BY <1>3 DEF Ask, Find, Variants, AskFile, AskCover, Gate, Disk, Leave, PostItem, AddRow,
                AddCover, ReplaceSet, AppendFile, SavePage, ResolveCover, Silent
  <2>2. visit'[c].pc # "write" /\ \A d \in Visitors \ {c} : visit'[d] = visit[d]
    BY <1>0, <1>3, OthersElsewhere
  <2> QED BY <2>1, <2>2 DEF Links, PageShape
<1>4. ASSUME NEW c \in Visitors, LookUp(c) PROVE PageShape' /\ Links'
  <2>1. PICK i \in Refs \cup {Nothing} : Become(c, [visit[c] EXCEPT !.pc = "write", !.at = i])
    BY <1>4 DEF LookUp, Carriers
  <2>2. [visit[c] EXCEPT !.pc = "write", !.at = i].at = i
    BY <1>0 DEF Shape, Fields
  <2>3. visit'[c].at = i /\ \A d \in Visitors \ {c} : visit'[d] = visit[d]
    BY <1>0, <2>1, <2>2, Becomes
  <2> QED BY <1>4, <2>3 DEF Links, PageShape, LookUp, Silent
<1>5. ASSUME NEW c \in Visitors, WritePage(c) PROVE PageShape' /\ Links'
  <2>1. visit'[c].pc # "write" /\ \A d \in Visitors \ {c} : visit'[d] = visit[d]
    BY <1>0, <1>5, OthersElsewhere
  <2>2. visit[c].at \in Refs \cup {Nothing}
    BY <1>5 DEF WritePage, Reached, Links
  <2>3. page' = [page EXCEPT !.link = Rewritten(visit[c]), !.was = visit[c].at]
    BY <1>5 DEF WritePage
  <2>4. PageShape' /\ page'.was = visit[c].at /\ page'.link = Rewritten(visit[c])
    BY <2>3 DEF PageShape
  <2> QED BY <2>1, <2>2, <2>4 DEF Links, Rewritten
<1>6. ASSUME NEW c \in Visitors, SetCover(c) PROVE PageShape' /\ Links'
  <2>1. visit'[c].pc # "write" /\ \A d \in Visitors \ {c} : visit'[d] = visit[d]
    BY <1>0, <1>6, OthersElsewhere
  <2>2. PageShape' /\ page'.was = page.was /\ page'.link = page.link
    BY <1>6 DEF SetCover, PageShape
  <2> QED BY <2>1, <2>2 DEF Links
<1>7. ServingNext => ServingStep
  BY DEF ServingNext
<1> QED BY <1>1, <1>2, <1>3, <1>4, <1>5, <1>6, <1>7 DEF ServingStep

\* A saved link leads to the item whose bytes the author pasted for as long as
\* it exists, whatever is uploaded, replaced, renamed or deleted meanwhile, and
\* whichever of several items with these bytes the lookup found
\* (rewrite_media_byte_urls).
THEOREM SavedLinksAlwaysSurvive == ServingSpec => []SavedLinksSurvive
<1>1. ServingInit => PageShape
  BY DEF ServingInit, PageShape
<1>2. Links => SavedLinksSurvive
  BY DEF Links, SavedLinksSurvive, Leads
<1> QED BY <1>1, <1>2, LinksInit, LinksStep, ServingInvariant, PTL DEF ServingSpec

=============================================================================
