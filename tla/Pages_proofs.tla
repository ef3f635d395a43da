---------------------------- MODULE Pages_proofs ----------------------------
(***************************************************************************)
(* What holds of the page tree for every set of pages and paths, any       *)
(* number of readers, writers and batches, and every role ladder; and of   *)
(* Catalogue, what readers find in it: the feed and the listings, for any  *)
(* size of a page and any depth.                                           *)
(***************************************************************************)
EXTENDS MCCatalogue, FiniteSetTheorems, WellFoundedInduction, TLAPS

-----------------------------------------------------------------------------

(***************************************************************************)
(* Requests.                                                               *)
(***************************************************************************)

\* What a request in flight holds, by where it stands.
Ready(q) ==
    /\ q.pc \in {"write", "delete", "date", "stamp", "media", "rollback"} => q.at \in Ids
    /\ q.pc \in {"write", "stamp"} => q.row \in Row
    /\ q.pc = "walk" => q.todo # <<>>
                        /\ q.op \in {"view", "create", "update", "delete", "ingest"}
    /\ q.pc \in {"check", "media"} => q.op = "ingest"
    /\ q.pc \in {"insert", "stamp"} => q.op # "view"
    /\ q.op = "ingest" => q.file \in Files /\ q.path # <<>>

GoodReq == {q \in Req : Ready(q)}

\* Nobody is at work.
LEMMA IdleGood == Idle \in GoodReq /\ Idle.pc = "idle" /\ Idle.op = "view"
<1>1. /\ 0 \in Gates /\ 0 \in Ids /\ Library \in Names
      /\ NoForm \in Form
  BY PagesAssumption DEF Gates, Form, NoForm
<1>2. <<>> \in Seq(Names)
  OBVIOUS
<1>3. Idle \in Req
  BY <1>1, <1>2 DEF Idle, Req, Ops, Pcs
<1> QED BY <1>3 DEF Idle, GoodReq, Ready

\* A request that starts to resolve a path.
LEMMA WalkGood ==
    ASSUME NEW q \in Req, NEW names \in Seq(Names), names # <<>>,
           q.op \in {"view", "create", "update", "delete", "ingest"},
           q.op = "ingest" => q.file \in Files /\ q.path # <<>>
    PROVE  Walk(q, names) \in GoodReq
<1>1. Walk(q, names) \in Req
  BY DEF Walk, Req, Pcs
<1>2. /\ Walk(q, names).pc = "walk" /\ Walk(q, names).todo = names
      /\ Walk(q, names).op = q.op /\ Walk(q, names).file = q.file
      /\ Walk(q, names).path = q.path
  BY DEF Walk, Req
<1> QED BY <1>1, <1>2 DEF GoodReq, Ready

\* The paths requests carry.
LEMMA PathFacts ==
    \A p \in Paths : p \in Seq(Names) /\ p # <<>>
BY PagesAssumption

\* Sequences, once.
LEMMA SeqFacts ==
    ASSUME NEW s \in Seq(Names), NEW n \in Names
    PROVE  /\ s # <<>> => Tail(s) \in Seq(Names) /\ Head(s) \in Names
           /\ s \o <<n>> \in Seq(Names) /\ s \o <<n>> # <<>>
OBVIOUS

\* Where a request goes with the row it found.
LEMMA FoundGood ==
    ASSUME NEW q \in Req, q.at \in Ids, q.row \in Row,
           q.op \in {"view", "create", "update", "delete", "ingest"},
           q.op = "ingest" => q.file \in Files /\ q.path # <<>>
    PROVE  Found(q) \in GoodReq
<1>1. \A pc \in Pcs : [q EXCEPT !.pc = pc] \in Req
  BY DEF Req
<1>2. \A pc \in {"served", "insert", "write", "delete"} :
        (pc = "insert" => q.op # "view") => [q EXCEPT !.pc = pc] \in GoodReq
  <2> TAKE pc \in {"served", "insert", "write", "delete"}
  <2> HAVE pc = "insert" => q.op # "view"
  <2>1. [q EXCEPT !.pc = pc] \in Req
    BY <1>1 DEF Pcs
  <2>2. /\ [q EXCEPT !.pc = pc].pc = pc /\ [q EXCEPT !.pc = pc].at = q.at
        /\ [q EXCEPT !.pc = pc].row = q.row /\ [q EXCEPT !.pc = pc].op = q.op
        /\ [q EXCEPT !.pc = pc].file = q.file /\ [q EXCEPT !.pc = pc].path = q.path
    BY DEF Req
  <2> QED BY <2>1, <2>2 DEF GoodReq, Ready
<1>3. CASE q.op = "view"
  BY <1>3, <1>2, IdleGood DEF Found
<1>4. CASE q.op = "update"
  BY <1>4, <1>2 DEF Found
<1>5. CASE q.op = "delete"
  BY <1>5, <1>2, IdleGood DEF Found
<1>6. CASE q.op = "create"
  BY <1>6, <1>2 DEF Found
<1>7. CASE q.op = "ingest"
  BY <1>7, <1>2 DEF Found
<1> QED BY <1>3, <1>4, <1>5, <1>6, <1>7

-----------------------------------------------------------------------------

(***************************************************************************)
(* The tree, and every statement that writes it.                           *)
(***************************************************************************)
Tree ==
    /\ db \in [Ids -> Row \cup {Gone}]
    /\ next \in Nat
    /\ \A i \in Ids : i >= next => ~Live(i)
    /\ ParentsExist

\* A row is a row with its parent.
LEMMA RowFacts ==
    ASSUME NEW row \in Row
    PROVE  /\ row # Gone
           /\ row.parent \in Ids \cup {Top} /\ row.gate \in Gates
           /\ row.live \in BOOLEAN /\ row.body \in Bodies
           /\ [row EXCEPT !.parent = Top] \in Row
           /\ [row EXCEPT !.parent = Top].parent = Top
           /\ [row EXCEPT !.parent = Top].gate = row.gate
           /\ [row EXCEPT !.parent = Top].live = row.live
<1>1. row # Gone
  BY GoneAssumption
<1>2. [row EXCEPT !.parent = Top] \in Row
  BY DEF Row
<1> QED BY <1>1, <1>2 DEF Row

\* An UPDATE of the whole row.
LEMMA SaveTree ==
    ASSUME Tree, NEW i \in Ids, NEW row \in Row, Save(i, row), next' = next
    PROVE  Tree'
<1>1. CASE CanSave(i, row)
  <2>1. db' = [db EXCEPT ![i] = row] /\ Live(i)
    BY <1>1 DEF Save, CanSave
  <2>2. db' \in [Ids -> Row \cup {Gone}] /\ row # Gone
    BY <2>1, RowFacts DEF Tree
  <2>3. \A j \in Ids : db'[j] # Gone <=> Live(j)
    BY <2>1, <2>2 DEF Live, Tree
  <2>4. row.parent = Top \/ (row.parent \in Ids /\ db'[row.parent] # Gone)
    BY <1>1, <2>3, RowFacts DEF CanSave, ParentThere
  <2>5. ParentsExist'
    <3> SUFFICES ASSUME NEW j \in Ids, db'[j] # Gone
                 PROVE  db'[j].parent = Top \/ db'[db'[j].parent] # Gone
      BY DEF ParentsExist, Live
    <3>1. CASE j = i
      BY <3>1, <2>1, <2>4 DEF Tree
    <3>2. CASE j # i
      <4>1. db'[j] = db[j] /\ Live(j)
        BY <3>2, <2>1, <2>3 DEF Tree
      <4>2. db[j] \in Row
        BY <4>1 DEF Tree, Live
      <4>3. db[j].parent = Top \/ (db[j].parent \in Ids /\ Live(db[j].parent))
        BY <4>1, <4>2, RowFacts DEF Tree, ParentsExist
      <4> QED BY <4>1, <4>3, <2>3
    <3> QED BY <3>1, <3>2
  <2> QED BY <2>2, <2>3, <2>5 DEF Tree, Live
<1>2. CASE ~CanSave(i, row)
  <2>1. db' = db
    BY <1>2 DEF Save
  <2> QED BY <2>1 DEF Tree, Live, ParentsExist
<1> QED BY <1>1, <1>2

\* DELETE, with its children set to NULL.
LEMMA DeleteTree ==
    ASSUME Tree, NEW i \in Ids, DeleteRow(i), next' = next
    PROVE  Tree'
<1>1. \A j \in Ids : db'[j] = IF j = i THEN Gone
                              ELSE IF j \in Children(i) THEN [db[j] EXCEPT !.parent = Top]
                              ELSE db[j]
  BY DEF DeleteRow
<1>2. \A j \in Children(i) : db[j] \in Row
  BY DEF Children, Live, Tree
<1>3. db' \in [Ids -> Row \cup {Gone}]
  <2>1. \A j \in Ids : db'[j] \in Row \cup {Gone}
    BY <1>1, <1>2, RowFacts DEF Tree
  <2> QED BY <2>1 DEF DeleteRow
<1>4. \A j \in Ids : db'[j] # Gone <=> (Live(j) /\ j # i)
  BY <1>1, <1>2, RowFacts DEF Live, Children
<1>5. ParentsExist'
  <2> SUFFICES ASSUME NEW j \in Ids, db'[j] # Gone
               PROVE  db'[j].parent = Top \/ db'[db'[j].parent] # Gone
    BY DEF ParentsExist, Live
  <2>1. Live(j) /\ j # i /\ db[j] \in Row
    BY <1>4 DEF Live, Tree
  <2>2. CASE j \in Children(i)
    BY <2>2, <2>1, <1>1, <1>2, RowFacts
  <2>3. CASE j \notin Children(i)
    <3>1. db'[j] = db[j] /\ db[j].parent # i
      BY <2>1, <2>3, <1>1 DEF Children
    <3>2. db[j].parent = Top \/ (db[j].parent \in Ids /\ Live(db[j].parent))
      BY <2>1, RowFacts DEF Tree, ParentsExist
    <3> QED BY <3>1, <3>2, <1>4
  <2> QED BY <2>2, <2>3
<1> QED BY <1>3, <1>4, <1>5 DEF Tree, Live

\* INSERT under a parent that is there.
LEMMA InsertTree ==
    ASSUME Tree, NEW p \in Ids \cup {Top}, NEW n \in Names, ParentThere(p),
           next \in Ids, db' = [db EXCEPT ![next] = NewRow(p, n, 0)],
           next' = next + 1
    PROVE  Tree'
<1>1. NewRow(p, n, 0) \in Row /\ NewRow(p, n, 0).parent = p
  BY PagesAssumption DEF NewRow, Row, Gates, Bodies
<1>2. db' \in [Ids -> Row \cup {Gone}] /\ ~Live(next)
  BY <1>1 DEF Tree
<1>3. \A j \in Ids : db'[j] # Gone <=> (Live(j) \/ j = next)
  BY <1>1, <1>2, RowFacts DEF Live, Tree
<1>4. \A j \in Ids : j >= next' => db'[j] = Gone
  <2> SUFFICES ASSUME NEW j \in Ids, j >= next + 1 PROVE db'[j] = Gone
    OBVIOUS
  <2>1. j \in Nat /\ next \in Nat
    BY PagesAssumption
  <2>2. j # next /\ j >= next
    BY <2>1
  <2>3. ~Live(j)
    BY <2>2 DEF Tree
  <2> QED BY <1>3, <2>2, <2>3
<1>5. ParentsExist'
  <2> SUFFICES ASSUME NEW j \in Ids, db'[j] # Gone
               PROVE  db'[j].parent = Top \/ db'[db'[j].parent] # Gone
    BY DEF ParentsExist, Live
  <2>1. CASE j = next
    <3>1. db'[j].parent = p
      BY <2>1, <1>1 DEF Tree
    <3> QED BY <3>1, <1>3 DEF ParentThere
  <2>2. CASE j # next
    <3>1. db'[j] = db[j] /\ Live(j)
      BY <2>2, <1>3 DEF Tree
    <3>2. db[j] \in Row
      BY <3>1 DEF Tree, Live
    <3>3. db[j].parent = Top \/ (db[j].parent \in Ids /\ Live(db[j].parent))
      BY <3>1, <3>2, RowFacts DEF Tree, ParentsExist
    <3> QED BY <3>1, <3>3, <1>3
  <2> QED BY <2>1, <2>2
<1> QED BY <1>2, <1>4, <1>5 DEF Tree, Live

\* UPDATE of the date alone.
LEMMA DateTree ==
    ASSUME Tree, NEW i \in Ids, NEW live \in BOOLEAN, next' = next,
           db' = IF Live(i) THEN WithDate(i, live) ELSE db
    PROVE  Tree'
<1>1. CASE Live(i)
  <2>1. db[i] \in Row
    BY <1>1 DEF Live, Tree
  <2> DEFINE row == [db[i] EXCEPT !.live = live]
  <2>2. row \in Row /\ row.parent = db[i].parent
    BY <2>1 DEF Row
  <2>3. db' = [db EXCEPT ![i] = row]
    BY <1>1 DEF WithDate
  <2>4. db[i].parent = Top \/ Live(db[i].parent)
    BY <1>1 DEF Tree, ParentsExist
  <2>5. CanSave(i, row)
    BY <1>1, <2>2, <2>4 DEF CanSave, ParentThere
  <2>6. Save(i, row)
    BY <2>3, <2>5 DEF Save
  <2> QED BY <2>2, <2>6, SaveTree
<1>2. CASE ~Live(i)
  BY <1>2 DEF Tree, Live, ParentsExist
<1> QED BY <1>1, <1>2

\* Nothing is written.
LEMMA SameTree ==
    ASSUME Tree, UNCHANGED <<db, next>>
    PROVE  Tree'
BY DEF Tree, Live, ParentsExist

-----------------------------------------------------------------------------

(***************************************************************************)
(* The inductive invariant: the tree is whole and every request holds what *)
(* its next statement needs.                                               *)
(***************************************************************************)
IInv ==
    /\ Tree
    /\ req \in [Requests -> GoodReq]

\* A step that puts a good request in one place.
LEMMA SetGood ==
    ASSUME IInv, NEW r \in Requests, NEW q \in GoodReq, Set(r, q), Tree'
    PROVE  IInv'
BY DEF IInv, Set

LEMMA EndGood ==
    ASSUME IInv, NEW r \in Requests, End(r), Tree'
    PROVE  IInv'
BY IdleGood, SetGood DEF End

\* The database is as it should be at first.
LEMMA InitGood == Init => IInv
<1> SUFFICES ASSUME Init PROVE IInv
  OBVIOUS
<1>1. PICK n \in Names \ {Library} :
        db = [i \in Ids |->
                 CASE i = 0 -> [NewRow(Top, Library, Admin - 1) EXCEPT !.special = TRUE]
                   [] i = 1 -> NewRow(0, n, Admin - 1)
                   [] OTHER -> Gone]
  BY DEF Init
<1>2. Admin - 1 \in Gates /\ Library \in Names /\ 0 \in Ids /\ 1 \in Ids
  BY PagesAssumption DEF Gates
<1>3. /\ NewRow(0, n, Admin - 1) \in Row
      /\ NewRow(0, n, Admin - 1).parent = 0
  BY <1>2 DEF NewRow, Row, Bodies
<1>4. /\ [NewRow(Top, Library, Admin - 1) EXCEPT !.special = TRUE] \in Row
      /\ [NewRow(Top, Library, Admin - 1) EXCEPT !.special = TRUE].parent = Top
  BY <1>2 DEF NewRow, Row, Bodies
<1> DEFINE lib == [NewRow(Top, Library, Admin - 1) EXCEPT !.special = TRUE]
           sub == NewRow(0, n, Admin - 1)
<1>5. \A i \in Ids : db[i] = IF i = 0 THEN lib ELSE IF i = 1 THEN sub ELSE Gone
  BY <1>1, PagesAssumption
<1> SUFFICES IInv
  OBVIOUS
<1>6. lib \in Row /\ lib.parent = Top /\ sub \in Row /\ sub.parent = 0
      /\ lib # Gone
  BY <1>3, <1>4, RowFacts
<1> HIDE DEF lib, sub
<1>7. db \in [Ids -> Row \cup {Gone}]
  <2>1. db = [i \in Ids |-> db[i]]
    BY <1>1
  <2>2. \A i \in Ids : db[i] \in Row \cup {Gone}
    BY <1>5, <1>6
  <2> QED BY <2>1, <2>2
<1>8. \A i \in Ids : i >= 2 => db[i] = Gone
  BY <1>5, PagesAssumption
<1>9. ParentsExist
  BY <1>2, <1>5, <1>6 DEF ParentsExist, Live
<1>10. Tree
  BY <1>7, <1>8, <1>9 DEF Tree, Init, Live
<1> QED BY <1>10, IdleGood DEF IInv, Init

\* Requests arrive.
LEMMA ArriveGood ==
    ASSUME IInv, NEW r \in Requests,
           View(r) \/ Create(r) \/ Update(r) \/ Delete(r) \/ Schedule(r) \/ Ingest(r)
    PROVE  IInv'
<1> USE DEF IInv
<1>0. Tree'
  BY SameTree DEF View, Create, Update, Delete, Schedule, Ingest
<1>1. /\ Idle \in Req /\ Idle.op = "view"
      /\ \A role \in Gates : /\ [Idle EXCEPT !.op = "view", !.role = role] \in Req
                             /\ [Idle EXCEPT !.op = "view", !.role = role].op = "view"
      /\ \A n \in Names : /\ [Idle EXCEPT !.op = "create", !.name = n] \in Req
                          /\ [Idle EXCEPT !.op = "create", !.name = n].op = "create"
      /\ \A f \in Form : /\ [Idle EXCEPT !.op = "update", !.form = f] \in Req
                         /\ [Idle EXCEPT !.op = "update", !.form = f].op = "update"
      /\ [Idle EXCEPT !.op = "delete"] \in Req
      /\ [Idle EXCEPT !.op = "delete"].op = "delete"
  BY IdleGood DEF GoodReq, Req, Ops
<1>2. CASE View(r)
  <2>1. PICK role \in Gates, p \in Paths :
          Set(r, Walk([Idle EXCEPT !.op = "view", !.role = role], p))
    BY <1>2 DEF View
  <2>2. Walk([Idle EXCEPT !.op = "view", !.role = role], p) \in GoodReq
    BY <1>1, PathFacts, WalkGood
  <2> QED BY <1>0, <2>1, <2>2, SetGood
<1>3. CASE Create(r)
  <2>1. PICK n \in Names, p \in Paths \cup {<<>>} :
          LET q == [Idle EXCEPT !.op = "create", !.name = n] IN
            Set(r, IF p = <<>> THEN [q EXCEPT !.pc = "insert"] ELSE Walk(q, p))
    BY <1>3 DEF Create
  <2> DEFINE q == [Idle EXCEPT !.op = "create", !.name = n]
  <2>2. q \in Req /\ q.op = "create"
    BY <1>1
  <2>3. CASE p = <<>>
    <3>1. [q EXCEPT !.pc = "insert"] \in GoodReq
      <4>1. [q EXCEPT !.pc = "insert"] \in Req
        BY <2>2 DEF Req, Pcs
      <4>2. [q EXCEPT !.pc = "insert"].pc = "insert" /\ [q EXCEPT !.pc = "insert"].op = "create"
        BY <2>2 DEF Req
      <4> QED BY <4>1, <4>2 DEF GoodReq, Ready
    <3> QED BY <1>0, <2>1, <2>3, <3>1, SetGood
  <2>4. CASE p # <<>>
    <3>1. Walk(q, p) \in GoodReq
      BY <2>2, <2>4, PathFacts, WalkGood
    <3> QED BY <1>0, <2>1, <2>4, <3>1, SetGood
  <2> QED BY <2>3, <2>4
<1>4. CASE Update(r)
  <2>1. PICK p \in Paths, f \in Form :
          Set(r, Walk([Idle EXCEPT !.op = "update", !.form = f], p))
    BY <1>4 DEF Update
  <2>2. Walk([Idle EXCEPT !.op = "update", !.form = f], p) \in GoodReq
    BY <1>1, PathFacts, WalkGood
  <2> QED BY <1>0, <2>1, <2>2, SetGood
<1>5. CASE Delete(r)
  <2>1. PICK p \in Paths : Set(r, Walk([Idle EXCEPT !.op = "delete"], p))
    BY <1>5 DEF Delete
  <2>2. Walk([Idle EXCEPT !.op = "delete"], p) \in GoodReq
    BY <1>1, PathFacts, WalkGood
  <2> QED BY <1>0, <2>1, <2>2, SetGood
<1>6. CASE Schedule(r)
  <2>1. PICK i \in Ids, op \in {"publish", "unpublish"} :
          Live(i) /\ Set(r, [Idle EXCEPT !.op = op, !.pc = "date", !.at = i, !.row = db[i]])
    BY <1>6 DEF Schedule
  <2> DEFINE q == [Idle EXCEPT !.op = op, !.pc = "date", !.at = i, !.row = db[i]]
  <2>2. q \in Req
    BY <1>1, ZenonT(40) DEF Req, Ops, Pcs, Tree
  <2>3. q.pc = "date" /\ q.at = i /\ q.op = op
    BY <1>1 DEF Req
  <2>4. q \in GoodReq
    BY <2>2, <2>3 DEF GoodReq, Ready
  <2> QED BY <1>0, <2>1, <2>4, SetGood
<1>7. CASE Ingest(r)
  <2>1. PICK f \in Files, n \in Names, s \in Children(0) :
          Set(r, [Idle EXCEPT !.op = "ingest", !.pc = "check", !.file = f,
                              !.name = n, !.series = s,
                              !.path = <<Library, db[s].name>>])
    BY <1>7 DEF Ingest
  <2> DEFINE q == [Idle EXCEPT !.op = "ingest", !.pc = "check", !.file = f,
                              !.name = n, !.series = s,
                              !.path = <<Library, db[s].name>>]
  <2>2. db[s].name \in Names /\ s \in Ids
    BY DEF Children, Live, Tree, Row
  <2>3. <<Library, db[s].name>> \in Seq(Names) /\ <<Library, db[s].name>> # <<>>
    BY <2>2, PagesAssumption
  <2>4. q \in Req
    BY <1>1, <2>2, <2>3, ZenonT(40) DEF Req, Ops, Pcs
  <2>5. q.pc = "check" /\ q.op = "ingest" /\ q.file = f
        /\ q.path = <<Library, db[s].name>>
    BY <1>1 DEF Req
  <2>6. q \in GoodReq
    BY <2>3, <2>4, <2>5 DEF GoodReq, Ready
  <2> QED BY <1>0, <2>1, <2>6, SetGood
<1> QED BY <1>2, <1>3, <1>4, <1>5, <1>6, <1>7

\* One query of find_by_path.
LEMMA ResolveGood ==
    ASSUME IInv, NEW r \in Requests, Resolve(r)
    PROVE  IInv'
<1>0. Tree'
  BY SameTree DEF IInv, Resolve
<1> DEFINE q == req[r]
<1>1. q \in Req /\ Ready(q) /\ q.pc = "walk" /\ q.todo \in Seq(Names)
      /\ q.ids \subseteq Ids
  BY DEF IInv, GoodReq, Resolve, At, Req
<1>2. Head(q.todo) \in Names /\ Tail(q.todo) \in Seq(Names)
  BY <1>1, SeqFacts DEF Ready
<1>3. CASE End(r)
  BY <1>0, <1>3, EndGood
<1>4. CASE ~End(r)
  <2> DEFINE step(i) == [q EXCEPT !.todo = Tail(@), !.at = i, !.row = db[i],
                                  !.ids = @ \cup {i}, !.shut = Shut(q, db[i])]
  <2>1. PICK i \in Named(q.at, Head(q.todo)) :
          Set(r, IF step(i).todo = <<>> THEN Found(step(i)) ELSE step(i))
    BY <1>4 DEF Resolve
  <2>2. i \in Ids /\ db[i] \in Row
    BY DEF Named, Children, Live, IInv, Tree
  <2>3. Shut(q, db[i]) \in BOOLEAN
    BY <1>1 DEF Shut, Visible, Req
  <2>4. step(i) \in Req
    BY <1>1, <1>2, <2>2, <2>3 DEF Req
  <2>5. /\ step(i).pc = "walk" /\ step(i).op = q.op /\ step(i).at = i
        /\ step(i).row = db[i] /\ step(i).file = q.file /\ step(i).path = q.path
    BY <1>1 DEF Req
  <2> HIDE DEF step
  <2>6. CASE step(i).todo = <<>>
    <3>1. Found(step(i)) \in GoodReq
      BY <1>1, <2>2, <2>4, <2>5, FoundGood DEF Ready
    <3> QED BY <1>0, <2>1, <2>6, <3>1, SetGood
  <2>7. CASE step(i).todo # <<>>
    <3>1. step(i) \in GoodReq
      BY <1>1, <2>4, <2>5, <2>7 DEF GoodReq, Ready
    <3> QED BY <1>0, <2>1, <2>7, <3>1, SetGood
  <2> QED BY <2>6, <2>7
<1> QED BY <1>3, <1>4

\* The row a form is folded into is a row.
LEMMA FormRow ==
    ASSUME NEW row \in Row, NEW f \in Form, NEW body \in Bodies
    PROVE  LET new == [row EXCEPT !.body = body, !.gate = ApplyWrite(@, f.gate),
                                  !.live = IF f.live = Keep THEN @ ELSE f.live] IN
             /\ new \in Row
             /\ new.gate = ApplyWrite(row.gate, f.gate)
             /\ new.live = IF f.live = Keep THEN row.live ELSE f.live
<1>1. /\ f.gate = Keep \/ f.gate \in Gates
      /\ f.live = Keep \/ f.live \in BOOLEAN
  BY DEF Form
<1>2. ApplyWrite(row.gate, f.gate) \in Gates
  BY <1>1 DEF ApplyWrite, Row
<1>3. (IF f.live = Keep THEN row.live ELSE f.live) \in BOOLEAN
  BY <1>1 DEF Row
<1> QED BY <1>2, <1>3 DEF Row

\* The statements that write.
LEMMA WriteGood ==
    ASSUME IInv, NEW r \in Requests,
           Insert(r) \/ Stamp(r) \/ Write(r) \/ Remove(r) \/ SetDate(r) \/ Rollback(r)
    PROVE  IInv'
<1> DEFINE q == req[r]
<1>1. q \in Req /\ Ready(q) /\ Tree
  BY DEF IInv, GoodReq
<1>2. CASE Insert(r)
  <2>1. q.at \in Ids \cup {Top} /\ q.name \in Names
    BY <1>1 DEF Req
  <2>2. CASE Taken(q.at, q.name) \/ ~ParentThere(q.at)
    BY <1>1, <1>2, <2>2, SameTree, EndGood DEF Insert
  <2>3. CASE ~(Taken(q.at, q.name) \/ ~ParentThere(q.at))
    <3> DEFINE row == NewRow(q.at, q.name, IF q.row = Gone THEN 0 ELSE q.row.gate)
               new == [q EXCEPT !.pc = "stamp", !.at = next,
                   !.row = NewRow(q.at, q.name, IF @ = Gone THEN 0 ELSE @.gate)]
    <3>1. /\ next \in Ids
          /\ db' = [db EXCEPT ![next] = NewRow(q.at, q.name, 0)]
          /\ next' = next + 1
          /\ Set(r, new)
      BY <1>2, <2>3 DEF Insert
    <3>2. Tree'
      BY <1>1, <2>1, <2>3, <3>1, InsertTree
    <3>3. (IF q.row = Gone THEN 0 ELSE q.row.gate) \in Gates
      BY <1>1, PagesAssumption DEF Req, Row, Gates
    <3>4. row \in Row
      BY <2>1, <3>3 DEF NewRow, Row, Bodies
    <3>5. new = [q EXCEPT !.pc = "stamp", !.at = next, !.row = row]
      BY <1>1 DEF Req
    <3> HIDE DEF row, new
    <3>6. new \in Req /\ new.pc = "stamp" /\ new.at = next /\ new.row = row
          /\ new.op = q.op /\ new.file = q.file /\ new.path = q.path
      BY <1>1, <3>1, <3>4, <3>5 DEF Req, Pcs
    <3>7. q.op # "view"
      BY <1>1, <1>2 DEF Insert, At, Ready
    <3>8. new \in GoodReq
      BY <1>1, <3>1, <3>4, <3>6, <3>7 DEF GoodReq, Ready
    <3> QED BY <3>1, <3>2, <3>8, SetGood
  <2> QED BY <2>2, <2>3
<1>3. CASE Stamp(r)
  <2>1. q.pc = "stamp" /\ q.at \in Ids /\ q.row \in Row /\ Save(q.at, q.row)
        /\ next' = next
    BY <1>1, <1>3 DEF Stamp, At, Ready
  <2>2. Tree'
    BY <1>1, <2>1, SaveTree
  <2>3. CASE q.op = "ingest" /\ CanSave(q.at, q.row)
    <3>1. Set(r, [q EXCEPT !.pc = "media"])
      BY <1>3, <2>3 DEF Stamp
    <3>2. [q EXCEPT !.pc = "media"] \in Req
      BY <1>1 DEF Req, Pcs
    <3>3. [q EXCEPT !.pc = "media"] \in GoodReq
      BY <1>1, <2>1, <2>3, <3>2 DEF GoodReq, Ready, Req
    <3> QED BY <2>2, <3>1, <3>3, SetGood
  <2>4. CASE ~(q.op = "ingest" /\ CanSave(q.at, q.row))
    <3>1. End(r)
      BY <1>3, <2>4 DEF Stamp, End
    <3> QED BY <2>2, <3>1, EndGood
  <2> QED BY <2>3, <2>4
<1>4. CASE Write(r)
  <2> DEFINE new(body) == [q.row EXCEPT !.body = body,
                                    !.gate = ApplyWrite(@, q.form.gate),
                                    !.live = IF q.form.live = Keep THEN @ ELSE q.form.live]
  <2>1. q.pc = "write" /\ q.at \in Ids /\ q.row \in Row /\ q.form \in Form
        /\ next' = next /\ End(r)
    BY <1>1, <1>4 DEF Write, At, Ready, Req
  <2>2. PICK body \in Markdown(q) : Save(q.at, new(body))
    BY <1>4 DEF Write
  <2>3. body \in Bodies
    BY <1>1, <2>1 DEF Markdown, Bodies, Ready, Row
  <2>4. new(body) \in Row
    BY <2>1, <2>3, FormRow
  <2> HIDE DEF new
  <2> QED BY <1>1, <2>1, <2>2, <2>4, SaveTree, EndGood
<1>5. CASE Remove(r) \/ Rollback(r)
  <2>1. q.at \in Ids
    BY <1>1, <1>5 DEF Remove, Rollback, At, Ready
  <2>2. DeleteRow(q.at) /\ End(r) /\ next' = next
    BY <1>5 DEF Remove, Rollback
  <2> QED BY <1>1, <2>1, <2>2, DeleteTree, EndGood
<1>6. CASE SetDate(r)
  <2>1. q.at \in Ids
    BY <1>1, <1>6 DEF SetDate, At, Ready
  <2>2. End(r) /\ next' = next
        /\ db' = IF Live(q.at) THEN WithDate(q.at, q.op = "publish") ELSE db
    BY <1>6 DEF SetDate
  <2>3. (q.op = "publish") \in BOOLEAN
    OBVIOUS
  <2>4. Tree'
    BY <1>1, <2>1, <2>2, <2>3, DateTree
  <2> QED BY <2>2, <2>4, EndGood
<1> QED BY <1>2, <1>3, <1>4, <1>5, <1>6

\* The steps that only move a request.
LEMMA MoveGood ==
    ASSUME IInv, NEW r \in Requests, Check(r) \/ Media(r) \/ Serve(r) \/ Abort(r)
    PROVE  IInv'
<1> DEFINE q == req[r]
<1>0. Tree'
  BY SameTree DEF IInv, Check, Media, Serve, Abort
<1>1. q \in Req /\ Ready(q) /\ q.path \in Seq(Names) /\ q.name \in Names
  BY DEF IInv, GoodReq, Req
<1>2. CASE Check(r)
  <2>1. q.op = "ingest" /\ q.file \in Files /\ q.path # <<>>
    BY <1>1, <1>2 DEF Check, At, Ready
  <2>2. Walk(q, q.path) \in GoodReq
    BY <1>1, <2>1, WalkGood
  <2>3. Set(r, Idle) \/ Set(r, Walk(q, q.path))
    BY <1>2 DEF Check
  <2> QED BY <1>0, <2>2, <2>3, IdleGood, SetGood
<1>3. CASE Media(r)
  <2> DEFINE path == q.path \o <<q.name>>
             q2 == [q EXCEPT !.path = path]
  <2>1. q.op = "ingest" /\ q.file \in Files /\ q.at \in Ids /\ q.path # <<>>
    BY <1>1, <1>3 DEF Media, At, Ready
  <2>2. path \in Seq(Names) /\ path # <<>>
    BY <1>1, SeqFacts
  <2> HIDE DEF path
  <2>3. q2 \in Req /\ q2.op = "ingest" /\ q2.file = q.file /\ q2.path = path
    BY <1>1, <2>1, <2>2 DEF Req
  <2>4. Walk(q2, path) \in GoodReq
    BY <2>1, <2>2, <2>3, WalkGood
  <2>5. [q EXCEPT !.pc = "rollback"] \in GoodReq
    <3>1. [q EXCEPT !.pc = "rollback"] \in Req
      BY <1>1 DEF Req, Pcs
    <3> QED BY <1>1, <2>1, <3>1 DEF GoodReq, Ready, Req
  <2>6. Set(r, Walk(q2, path)) \/ Set(r, [q EXCEPT !.pc = "rollback"])
    BY <1>3 DEF Media, path
  <2> QED BY <1>0, <2>4, <2>5, <2>6, SetGood
<1>4. CASE Serve(r) \/ Abort(r)
  BY <1>0, <1>4, EndGood DEF Serve, Abort
<1> QED BY <1>2, <1>3, <1>4

\* Every step.
LEMMA StepGood ==
    ASSUME IInv, [Next]_vars
    PROVE  IInv'
<1>1. CASE UNCHANGED vars
  BY <1>1, SameTree DEF vars, IInv
<1>2. ASSUME NEW r \in Writers, WriterStep(r)
      PROVE  IInv'
  BY <1>2, ArriveGood, ResolveGood, WriteGood, MoveGood DEF WriterStep, Requests
<1>3. ASSUME NEW r \in Readers, ReaderStep(r)
      PROVE  IInv'
  BY <1>3, ArriveGood, ResolveGood, MoveGood DEF ReaderStep, Requests
<1> QED BY <1>1, <1>2, <1>3 DEF Next

THEOREM Invariance == Spec => []IInv
<1>1. Init => IInv
  BY InitGood
<1>2. IInv /\ [Next]_vars => IInv'
  BY StepGood
<1> QED BY <1>1, <1>2, PTL DEF Spec

(***************************************************************************)
(* However creations, deletions and whole-row updates interleave, no page  *)
(* is left under a parent that is gone.                                    *)
(***************************************************************************)
THEOREM NoPageAstray == Spec => []ParentsExist
<1>1. IInv => ParentsExist
  BY DEF IInv, Tree
<1> QED BY <1>1, Invariance, PTL

-----------------------------------------------------------------------------

(***************************************************************************)
(* The history variables and the bound.                                    *)
(***************************************************************************)
History ==
    /\ allowed \in [Requests -> SUBSET Ids]
    /\ events \in 0 .. MaxEvents

\* Every action leaves the events in their bound.
LEMMA EventStep ==
    ASSUME events \in 0 .. MaxEvents, [Next]_vars
    PROVE  events' \in 0 .. MaxEvents
<1>1. \/ events' = events
      \/ events < MaxEvents /\ events' = events + 1
  BY DEF Next, WriterStep, ReaderStep, View, Create, Update, Delete, Schedule,
         Ingest, Resolve, Serve, Insert, Stamp, Write, Remove, SetDate, Check,
         Media, Rollback, Abort, Event, vars
<1> QED BY <1>1, PagesAssumption

\* What a view could have been shown is a set of pages.
LEMMA AllowedStep ==
    ASSUME allowed \in [Requests -> SUBSET Ids], [Next]_vars
    PROVE  allowed' \in [Requests -> SUBSET Ids]
<1>1. CASE UNCHANGED vars
  BY <1>1 DEF vars
<1>2. CASE Record
  BY <1>2 DEF Record
<1> QED BY <1>1, <1>2 DEF Next

\* The flag is a truth value.
LEMMA OverlapStep ==
    ASSUME overlap \in BOOLEAN, [Next]_vars
    PROVE  overlap' \in BOOLEAN
<1>1. CASE UNCHANGED vars
  BY <1>1 DEF vars
<1>2. CASE Record
  <2> DEFINE Two == \E r, s \in Writers : r # s /\ req'[r].pc # "idle"
                                                /\ req'[s].pc # "idle"
  <2>1. overlap' = (overlap \/ Two)
    BY <1>2 DEF Record
  <2> HIDE DEF Two
  <2> QED BY <2>1
<1> QED BY <1>1, <1>2 DEF Next

(***************************************************************************)
(* Every variable keeps its type, in every interleaving of the statements  *)
(* of any number of requests.                                              *)
(***************************************************************************)
THEOREM TypeCorrect == Spec => []TypeOK
<1>0. Init => overlap \in BOOLEAN
  BY DEF Init
<1>1. Init => History /\ overlap \in BOOLEAN
  <2>1. Init => History
    BY PagesAssumption DEF Init, History
  <2> QED BY <1>0, <2>1
<1>2. History /\ overlap \in BOOLEAN /\ [Next]_vars
        => History' /\ (overlap \in BOOLEAN)'
  <2> SUFFICES ASSUME History, overlap \in BOOLEAN, [Next]_vars
               PROVE  History' /\ overlap' \in BOOLEAN
    OBVIOUS
  <2>1. History'
    BY EventStep, AllowedStep DEF History
  <2>2. overlap' \in BOOLEAN
    BY OverlapStep
  <2> QED BY <2>1, <2>2
<1>3. IInv /\ History /\ overlap \in BOOLEAN => TypeOK
  BY DEF IInv, Tree, History, TypeOK, GoodReq
<1> QED BY <1>1, <1>2, <1>3, Invariance, PTL DEF Spec

-----------------------------------------------------------------------------

(***************************************************************************)
(* The gate of a path that is walked in several queries.                   *)
(***************************************************************************)

\* A view that has met no closed page has only met pages it was allowed.
OpenSoFar(q, pages) ==
    /\ q.pc = "served" => q.op = "view" /\ ~q.shut
    /\ q.op = "view" /\ q.pc \in {"walk", "served"} /\ ~q.shut => q.ids \subseteq pages

OpenWay == \A r \in Requests : OpenSoFar(req[r], allowed[r])

\* What a view could have been shown only grows while the view lasts.
LEMMA AllowedGrows ==
    ASSUME IInv, History, OpenWay, Record, NEW r \in Requests, NEW q \in GoodReq,
           Set(r, q),
           \/ q.pc # "served" /\ (q.op = "view" => q.pc = "idle" \/ q.ids = {} \/ q.shut)
           \/ /\ q.op = "view" /\ q.pc \in {"walk", "served"}
              /\ q.pc = "served" => ~q.shut
              /\ ~q.shut => q.ids \subseteq allowed[r] \cup
                     {i \in Ids : db'[i] # Gone /\ Visible(db'[i], q.role)}
    PROVE  OpenWay'
<1>1. \A s \in Requests : req'[s] = IF s = r THEN q ELSE req[s]
  BY DEF Set, IInv
<1>2. \A s \in Requests : allowed'[s] =
         IF req'[s].pc = "idle" \/ req'[s].op # "view" THEN {}
         ELSE allowed[s] \cup {i \in Ids : db'[i] # Gone
                                           /\ Visible(db'[i], req'[s].role)}
  BY DEF Record
<1> SUFFICES ASSUME NEW s \in Requests PROVE OpenSoFar(req'[s], allowed'[s])
  BY DEF OpenWay
<1>3. CASE s # r
  <2>1. req'[s] = req[s] /\ OpenSoFar(req[s], allowed[s])
    BY <1>1, <1>3 DEF OpenWay
  <2> QED BY <1>2, <2>1 DEF OpenSoFar
<1>4. CASE s = r
  <2>1. req'[s] = q
    BY <1>1, <1>4
  <2>2. CASE q.pc # "served" /\ (q.op = "view" => q.pc = "idle" \/ q.ids = {} \/ q.shut)
    BY <2>1, <2>2 DEF OpenSoFar
  <2>3. CASE /\ q.op = "view" /\ q.pc \in {"walk", "served"}
             /\ q.pc = "served" => ~q.shut
             /\ ~q.shut => q.ids \subseteq allowed[r] \cup
                     {i \in Ids : db'[i] # Gone /\ Visible(db'[i], q.role)}
    <3>1. allowed'[s] = allowed[r] \cup {i \in Ids : db'[i] # Gone /\ Visible(db'[i], q.role)}
      BY <1>2, <1>4, <2>1, <2>3
    <3> QED BY <2>1, <2>3, <3>1 DEF OpenSoFar
  <2> QED BY <2>2, <2>3
<1> QED BY <1>3, <1>4

\* A request that ends, or starts afresh.
LEMMA EndOpen ==
    ASSUME IInv, History, OpenWay, Record, NEW r \in Requests, End(r)
    PROVE  OpenWay'
BY IdleGood, AllowedGrows DEF End

\* The steps of a view, and those of other requests that look a path up.
LEMMA ResolveOpen ==
    ASSUME IInv, History, OpenWay, Record, NEW r \in Requests, Resolve(r)
    PROVE  OpenWay'
<1> DEFINE q == req[r]
           step(i) == [q EXCEPT !.todo = Tail(@), !.at = i, !.row = db[i],
                                !.ids = @ \cup {i}, !.shut = Shut(q, db[i])]
<1>1. q \in Req /\ Ready(q) /\ q.pc = "walk" /\ q.todo # <<>> /\ db' = db
      /\ q.shut \in BOOLEAN /\ OpenSoFar(q, allowed[r])
  BY DEF IInv, GoodReq, Resolve, At, Req, Ready, OpenWay
<1>2. CASE End(r)
  BY <1>2, EndOpen
<1>3. CASE ~End(r)
  <2>1. PICK i \in Named(q.at, Head(q.todo)) :
          Set(r, IF step(i).todo = <<>> THEN Found(step(i)) ELSE step(i))
    BY <1>3 DEF Resolve
  <2>2. i \in Ids /\ db[i] \in Row /\ db[i] # Gone
    BY DEF Named, Children, Live, IInv, Tree
  <2>3. IInv'
    BY ResolveGood
  <2>4. req'[r] \in GoodReq
    BY <2>3 DEF IInv
  <2>5. req'[r] = IF step(i).todo = <<>> THEN Found(step(i)) ELSE step(i)
    BY <2>1 DEF Set, IInv
  <2>6. Set(r, req'[r])
    BY <2>1, <2>5
  <2>7. /\ step(i).pc = "walk" /\ step(i).op = q.op /\ step(i).role = q.role
        /\ step(i).ids = q.ids \cup {i} /\ step(i).shut = Shut(q, db[i])
    BY <1>1 DEF Req
  <2>8. q.op = "view" /\ ~step(i).shut =>
          step(i).ids \subseteq allowed[r] \cup
             {j \in Ids : db'[j] # Gone /\ Visible(db'[j], q.role)}
    BY <1>1, <2>2, <2>7 DEF OpenSoFar, Shut
  <2> HIDE DEF step
  <2>9. CASE step(i).todo # <<>>
    <3>1. req'[r] = step(i)
      BY <2>5, <2>9
    <3> QED BY <2>4, <2>6, <2>7, <2>8, <3>1, AllowedGrows
  <2>10. CASE step(i).todo = <<>> /\ q.op = "view"
    <3>1. CASE step(i).shut \/ step(i).row.special
      <4>1. req'[r] = Idle
        BY <2>5, <2>7, <2>10, <3>1 DEF Found
      <4> QED BY <2>6, <4>1, EndOpen DEF End
    <3>2. CASE ~(step(i).shut \/ step(i).row.special)
      <4>0. step(i) \in Req
        BY <1>1, <2>2, SeqFacts DEF step, Req, Shut, Visible
      <4>1. req'[r] = [step(i) EXCEPT !.pc = "served"]
        BY <2>5, <2>7, <2>10, <3>2 DEF Found
      <4>2. /\ req'[r].pc = "served" /\ req'[r].op = "view"
            /\ req'[r].role = q.role /\ req'[r].shut = step(i).shut
            /\ req'[r].ids = step(i).ids
        BY <2>7, <2>10, <4>0, <4>1 DEF Req
      <4> QED BY <2>4, <2>6, <2>8, <2>10, <3>2, <4>2, AllowedGrows
    <3> QED BY <3>1, <3>2
  <2>11. CASE step(i).todo = <<>> /\ q.op # "view"
    <3>0. step(i) \in Req
      BY <1>1, <2>2, SeqFacts DEF step, Req, Shut, Visible
    <3>1. /\ req'[r].pc # "served"
          /\ req'[r].op = "view" => req'[r].pc = "idle"
      <4>1. \A pc \in Pcs : [step(i) EXCEPT !.pc = pc].pc = pc
                            /\ [step(i) EXCEPT !.pc = pc].op = q.op
        BY <2>7, <3>0 DEF Req
      <4>2. Idle.pc = "idle"
        BY IdleGood
      <4>3. q.op \in {"create", "update", "delete", "ingest"}
        BY <1>1, <2>11 DEF Ready
      <4>4. \/ req'[r] = Idle
            \/ \E pc \in {"insert", "write", "delete"} : req'[r] = [step(i) EXCEPT !.pc = pc]
        BY <2>5, <2>7, <2>11, <4>3 DEF Found
      <4>5. CASE req'[r] = Idle
        BY <4>2, <4>5
      <4>6. ASSUME NEW pc \in {"insert", "write", "delete"},
                   req'[r] = [step(i) EXCEPT !.pc = pc]
            PROVE  req'[r].pc # "served" /\ req'[r].op # "view"
        BY <2>11, <4>1, <4>6 DEF Pcs
      <4> QED BY <4>4, <4>5, <4>6
    <3> QED BY <2>4, <2>6, <3>1, AllowedGrows
  <2> QED BY <2>9, <2>10, <2>11
<1> QED BY <1>2, <1>3

\* The steps of requests that are no views, and a view's first and last.
LEMMA OtherOpen ==
    ASSUME IInv, History, OpenWay, Record, NEW r \in Requests,
           \/ View(r) \/ Create(r) \/ Update(r) \/ Delete(r) \/ Schedule(r)
           \/ Ingest(r) \/ Serve(r) \/ Insert(r) \/ Stamp(r) \/ Write(r)
           \/ Remove(r) \/ SetDate(r) \/ Check(r) \/ Media(r) \/ Rollback(r)
           \/ Abort(r)
    PROVE  OpenWay'
<1> DEFINE q == req'[r]
<1>1. IInv'
  BY ArriveGood, WriteGood, MoveGood
<1>2. q \in GoodReq
  BY <1>1 DEF IInv
<1>3. req[r] \in Req /\ Ready(req[r]) /\ r \in DOMAIN req
  BY DEF IInv, GoodReq
<1>4. Idle \in Req /\ Idle.pc = "idle"
  BY IdleGood DEF GoodReq
<1>5. Set(r, q)
  BY <1>3 DEF Set, End, View, Create, Update, Delete, Schedule, Ingest, Serve,
         Insert, Stamp, Write, Remove, SetDate, Check, Media, Rollback, Abort
<1>6. q.pc # "served" /\ (q.op = "view" => q.pc = "idle" \/ q.ids = {} \/ q.shut)
  <2>0. \A q0 \in Req : \A names :
            /\ Walk(q0, names).pc = "walk"
            /\ Walk(q0, names).op = q0.op
            /\ Walk(q0, names).ids = {}
    BY DEF Walk, Req
  <2>1. CASE View(r)
    <3>1. PICK role \in Gates, p \in Paths :
            q = Walk([Idle EXCEPT !.op = "view", !.role = role], p)
      BY <1>3, <2>1 DEF View, Set
    <3>2. [Idle EXCEPT !.op = "view", !.role = role] \in Req
      BY <1>4 DEF Req, Ops
    <3> QED BY <2>0, <3>1, <3>2
  <2>2. CASE Create(r)
    <3>1. PICK n \in Names, p \in Paths \cup {<<>>} :
            q = LET q0 == [Idle EXCEPT !.op = "create", !.name = n] IN
                  IF p = <<>> THEN [q0 EXCEPT !.pc = "insert"] ELSE Walk(q0, p)
      BY <1>3, <2>2 DEF Create, Set
    <3> DEFINE q0 == [Idle EXCEPT !.op = "create", !.name = n]
    <3>2. q0 \in Req /\ q0.op = "create"
      BY <1>4 DEF Req, Ops
    <3>3. [q0 EXCEPT !.pc = "insert"].pc = "insert" /\ [q0 EXCEPT !.pc = "insert"].op = "create"
      BY <3>2 DEF Req
    <3>4. Walk(q0, p).pc = "walk" /\ Walk(q0, p).op = "create"
      BY <2>0, <3>2
    <3> HIDE DEF q0
    <3>5. q = IF p = <<>> THEN [q0 EXCEPT !.pc = "insert"] ELSE Walk(q0, p)
      BY <3>1 DEF q0
    <3> QED BY <3>3, <3>4, <3>5
  <2>3. CASE Update(r) \/ Delete(r)
    <3>1. \E q0 \in Req, p \in Paths : q0.op \in {"update", "delete"} /\ q = Walk(q0, p)
      <4>1. CASE Update(r)
        <5>1. PICK p \in Paths, f \in Form :
                q = Walk([Idle EXCEPT !.op = "update", !.form = f], p)
          BY <1>3, <4>1 DEF Update, Set
        <5>2. [Idle EXCEPT !.op = "update", !.form = f] \in Req
              /\ [Idle EXCEPT !.op = "update", !.form = f].op = "update"
          BY <1>4 DEF Req, Ops
        <5> QED BY <5>1, <5>2
      <4>2. CASE Delete(r)
        <5>1. PICK p \in Paths : q = Walk([Idle EXCEPT !.op = "delete"], p)
          BY <1>3, <4>2 DEF Delete, Set
        <5>2. [Idle EXCEPT !.op = "delete"] \in Req
              /\ [Idle EXCEPT !.op = "delete"].op = "delete"
          BY <1>4 DEF Req, Ops
        <5> QED BY <5>1, <5>2
      <4> QED BY <2>3, <4>1, <4>2
    <3> QED BY <2>0, <3>1
  <2>4. CASE Schedule(r) \/ Ingest(r)
    <3>1. CASE Schedule(r)
      <4>1. PICK i \in Ids, op \in {"publish", "unpublish"} :
              q = [Idle EXCEPT !.op = op, !.pc = "date", !.at = i, !.row = db[i]]
        BY <1>3, <3>1 DEF Schedule, Set
      <4> QED BY <1>4, <4>1 DEF Req
    <3>2. CASE Ingest(r)
      <4>1. PICK f \in Files, n \in Names, s \in Children(0) :
              q = [Idle EXCEPT !.op = "ingest", !.pc = "check", !.file = f,
                               !.name = n, !.series = s,
                               !.path = <<Library, db[s].name>>]
        BY <1>3, <3>2, ZenonT(40) DEF Ingest, Set
      <4> QED BY <1>4, <4>1 DEF Req
    <3> QED BY <2>4, <3>1, <3>2
  <2>5. CASE Check(r)
    BY <1>3, <1>4, <2>5 DEF Check, Set, Walk, Req, Ready, At
  <2>6. CASE Media(r)
    <3>1. req[r].op = "ingest"
      BY <1>3, <2>6 DEF Media, At, Ready
    <3> DEFINE path == req[r].path \o <<req[r].name>>
               q0 == [req[r] EXCEPT !.path = path]
    <3>2. q = Walk(q0, path) \/ q = [req[r] EXCEPT !.pc = "rollback"]
      BY <1>3, <2>6 DEF Media, Set
    <3>3. q0.op = "ingest"
      BY <1>3, <3>1 DEF Req
    <3>4. Walk(q0, path).pc = "walk" /\ Walk(q0, path).op = "ingest"
      BY <1>3, <3>3 DEF Walk, Req
    <3>5. [req[r] EXCEPT !.pc = "rollback"].pc = "rollback"
          /\ [req[r] EXCEPT !.pc = "rollback"].op = "ingest"
      BY <1>3, <3>1 DEF Req
    <3> HIDE DEF path, q0
    <3> QED BY <3>2, <3>4, <3>5
  <2>7. CASE Insert(r) \/ Stamp(r)
    <3>1. \/ q = Idle
          \/ \E at, row : q = [req[r] EXCEPT !.pc = "stamp", !.at = at, !.row = row]
          \/ q = [req[r] EXCEPT !.pc = "media"] /\ req[r].op = "ingest"
      <4>1. CASE Insert(r)
        <5>1. q = Idle \/ q = [req[r] EXCEPT !.pc = "stamp", !.at = next,
                   !.row = NewRow(req[r].at, req[r].name, IF @ = Gone THEN 0 ELSE @.gate)]
          BY <1>3, <4>1 DEF Insert, Set, End
        <5> QED BY <5>1
      <4>2. CASE Stamp(r)
        BY <1>3, <4>2 DEF Stamp, Set
      <4> QED BY <2>7, <4>1, <4>2
    <3>2. req[r].op # "view"
      BY <1>3, <2>7 DEF Insert, Stamp, At, Ready
    <3>3. \A at, row : [req[r] EXCEPT !.pc = "stamp", !.at = at, !.row = row].pc = "stamp"
             /\ [req[r] EXCEPT !.pc = "stamp", !.at = at, !.row = row].op = req[r].op
      BY <1>3 DEF Req
    <3>4. [req[r] EXCEPT !.pc = "media"].pc = "media"
          /\ [req[r] EXCEPT !.pc = "media"].op = req[r].op
      BY <1>3 DEF Req
    <3>5. CASE q = Idle
      BY <1>4, <3>5
    <3>6. ASSUME NEW at, NEW row,
                 q = [req[r] EXCEPT !.pc = "stamp", !.at = at, !.row = row]
          PROVE  q.pc # "served" /\ q.op # "view"
      BY <3>2, <3>3, <3>6
    <3>7. CASE q = [req[r] EXCEPT !.pc = "media"]
      BY <3>2, <3>4, <3>7
    <3> QED BY <3>1, <3>5, <3>6, <3>7
  <2>8. CASE Serve(r) \/ Write(r) \/ Remove(r) \/ SetDate(r) \/ Rollback(r) \/ Abort(r)
    BY <1>3, <1>4, <2>8 DEF Serve, Write, Remove, SetDate, Rollback, Abort, End, Set
  <2> QED BY <2>1, <2>2, <2>3, <2>4, <2>5, <2>6, <2>7, <2>8
<1> QED BY <1>2, <1>5, <1>6, AllowedGrows

(***************************************************************************)
(* However writes interleave with the walk of a path, a page shown was     *)
(* reached through pages that were all open to the viewer during the       *)
(* request.                                                                *)
(***************************************************************************)
THEOREM OnlyAllowedServed == Spec => []ServedWasAllowed
<1>1. Init => History /\ OpenWay
  BY IdleGood, PagesAssumption DEF Init, History, OpenWay, OpenSoFar
<1>2. IInv /\ History /\ OpenWay /\ [Next]_vars => History' /\ OpenWay'
  <2> SUFFICES ASSUME IInv, History, OpenWay, [Next]_vars
               PROVE  History' /\ OpenWay'
    OBVIOUS
  <2>1. History'
    BY EventStep, AllowedStep DEF History
  <2>2. ASSUME UNCHANGED vars
        PROVE  OpenWay'
    <3>1. req' = req /\ allowed' = allowed
      BY <2>2 DEF vars
    <3> SUFFICES ASSUME NEW r \in Requests
                 PROVE  OpenSoFar(req'[r], allowed'[r])
      BY DEF OpenWay
    <3>2. OpenSoFar(req[r], allowed[r])
      BY DEF OpenWay
    <3> QED BY <3>1, <3>2
  <2>3. ASSUME NEW r \in Writers, WriterStep(r), Record
        PROVE  OpenWay'
    BY <2>3, ResolveOpen, OtherOpen DEF WriterStep, Requests
  <2>4. ASSUME NEW r \in Readers, ReaderStep(r), Record
        PROVE  OpenWay'
    BY <2>4, ResolveOpen, OtherOpen DEF ReaderStep, Requests
  <2>5. OpenWay'
    BY <2>2, <2>3, <2>4 DEF Next
  <2> QED BY <2>1, <2>5
<1>3. IInv /\ OpenWay => ServedWasAllowed
  BY DEF OpenWay, OpenSoFar, ServedWasAllowed
<1> QED BY <1>1, <1>2, <1>3, Invariance, PTL DEF Spec

-----------------------------------------------------------------------------

(***************************************************************************)
(* Who opens a page.                                                       *)
(***************************************************************************)

\* A row that keeps its gate and its date is not opened.
LEMMA SameNotOpened ==
    ASSUME IInv, NEW i \in Ids, Live(i), db'[i].gate = db[i].gate,
           db'[i].live = db[i].live
    PROVE  ~Opens(i)
<1>0. db[i] \in Row
  BY DEF IInv, Tree, Live
<1>1. db[i].gate \in Nat
  BY <1>0, PagesAssumption DEF Row, Gates
<1>2. ~(db'[i].gate < db[i].gate)
  BY <1>1
<1> QED BY <1>2 DEF Opens

\* The statements that write whole rows.
LEMMA SaveOpens ==
    ASSUME IInv, NEW r \in Writers, Stamp(r) \/ Write(r), NEW i \in Ids, Live(i),
           db'[i] # Gone, Opens(i)
    PROVE  Asked(i) \/ StaleRow(i)
<1> DEFINE q == req[r]
<1>1. /\ q \in Req /\ Ready(q) /\ q.at \in Ids /\ q.row \in Row
      /\ db \in [Ids -> Row \cup {Gone}] /\ db[i] \in Row
      /\ q.pc \in {"stamp", "write"}
  BY DEF IInv, Tree, Live, GoodReq, Ready, Stamp, Write, At, Requests
<1>2. CASE q.at # i
  <2>1. db'[i] = db[i]
    BY <1>1, <1>2 DEF Stamp, Write, Save
  <2> QED BY <2>1, SameNotOpened
<1>3. CASE q.at = i /\ Stamp(r)
  <2>1. q.pc = "stamp" /\ (db' = [db EXCEPT ![i] = q.row] \/ db' = db)
    BY <1>3 DEF Stamp, At, Save
  <2>2. CASE db[i] # [q.row EXCEPT !.gate = 0]
    BY <1>3, <2>1, <2>2 DEF StaleRow
  <2>3. CASE db[i] = [q.row EXCEPT !.gate = 0]
    <3>1. db'[i] = q.row \/ db'[i] = db[i]
      BY <1>1, <2>1
    <3>2. q.row.gate \in Nat /\ db[i].gate = 0 /\ db[i].live = q.row.live
      BY <1>1, <2>3, PagesAssumption DEF Row, Gates
    <3>3. ~(db'[i].gate < db[i].gate)
      BY <3>1, <3>2
    <3>4. db'[i].live = db[i].live
      BY <3>1, <3>2
    <3>5. ~Opens(i)
      BY <3>3, <3>4 DEF Opens
    <3> QED BY <3>5
  <2> QED BY <2>2, <2>3
<1>4. CASE q.at = i /\ Write(r)
  <2> DEFINE new(body) == [q.row EXCEPT !.body = body,
                                    !.gate = ApplyWrite(@, q.form.gate),
                                    !.live = IF q.form.live = Keep THEN @ ELSE q.form.live]
  <2>1. q.pc = "write" /\ q.form \in Form
    BY <1>1, <1>4 DEF Write, At, Req
  <2>2. PICK body \in Markdown(q) : Save(i, new(body))
    BY <1>4 DEF Write
  <2>3. body \in Bodies
    BY <1>1, <2>1 DEF Markdown, Bodies, Ready, Row
  <2>4. /\ new(body).gate = ApplyWrite(q.row.gate, q.form.gate)
        /\ new(body).live = IF q.form.live = Keep THEN q.row.live ELSE q.form.live
    <3>1. q.row \in Row /\ q.form \in Form
      BY <1>1, <2>1
    <3> HIDE DEF q
    <3> QED BY <2>3, <3>1, FormRow
  <2> HIDE DEF new
  <2>5. db'[i] = new(body) \/ db'[i] = db[i]
    BY <1>1, <2>2 DEF Save
  <2>6. CASE q.row # db[i]
    BY <1>4, <2>1, <2>6 DEF StaleRow
  <2>7. CASE q.row = db[i] /\ db'[i] = db[i]
    BY <2>7, SameNotOpened
  <2>8. CASE q.row = db[i] /\ db'[i] = new(body)
    <3>1. CASE db'[i].gate < db[i].gate
      <4>1. db[i].gate \in Nat
        BY <1>1, PagesAssumption DEF Row, Gates
      <4>2. q.form.gate # Keep
        BY <2>4, <2>8, <3>1, <4>1 DEF ApplyWrite
      <4>3. q.form.gate = db'[i].gate
        BY <2>4, <2>8, <4>2 DEF ApplyWrite
      <4> QED BY <1>4, <2>1, <3>1, <4>3 DEF Asked
    <3>2. CASE ~db[i].live /\ db'[i].live
      <4>1. q.form.live # Keep
        BY <2>4, <2>8, <3>2
      <4>2. q.form.live \in BOOLEAN /\ db'[i].live = q.form.live
        BY <2>1, <2>4, <2>8, <4>1 DEF Form
      <4>3. q.form.live = TRUE
        BY <3>2, <4>2
      <4> QED BY <1>4, <2>1, <4>3 DEF Asked
    <3> QED BY <3>1, <3>2 DEF Opens
  <2> QED BY <2>5, <2>6, <2>7, <2>8
<1> QED BY <1>2, <1>3, <1>4

\* The statements that write less.
LEMMA OtherOpens ==
    ASSUME IInv, NEW r \in Writers,
           Insert(r) \/ Remove(r) \/ Rollback(r) \/ SetDate(r),
           NEW i \in Ids, Live(i), db'[i] # Gone, Opens(i)
    PROVE  Asked(i) \/ StaleRow(i)
<1> DEFINE q == req[r]
<1>1. /\ q \in Req /\ Ready(q)
      /\ db \in [Ids -> Row \cup {Gone}] /\ db[i] \in Row
      /\ next \in Nat /\ ~(i >= next)
  BY DEF IInv, Tree, Live, GoodReq, Requests
<1>2. CASE Insert(r)
  <2>1. db' = db \/ db' = [db EXCEPT ![next] = NewRow(q.at, q.name, 0)]
    BY <1>2 DEF Insert
  <2>2. i # next
    BY <1>1
  <2>3. db'[i] = db[i]
    BY <1>1, <2>1, <2>2
  <2> QED BY <2>3, SameNotOpened
<1>3. CASE Remove(r) \/ Rollback(r)
  <2>1. DeleteRow(q.at)
    BY <1>3 DEF Remove, Rollback
  <2>2. db'[i] = db[i] \/ db'[i] = [db[i] EXCEPT !.parent = Top]
    BY <2>1 DEF DeleteRow
  <2>3. db'[i].gate = db[i].gate /\ db'[i].live = db[i].live
    BY <1>1, <2>2, RowFacts
  <2> QED BY <2>3, SameNotOpened
<1>4. CASE SetDate(r)
  <2>1. q.at \in Ids /\ q.pc = "date"
    BY <1>1, <1>4 DEF SetDate, At, Ready
  <2>2. db' = db \/ db' = WithDate(q.at, q.op = "publish")
    BY <1>4 DEF SetDate
  <2>3. CASE db'[i] = db[i]
    BY <2>3, SameNotOpened
  <2>4. CASE db'[i] # db[i]
    <3>1. q.at = i /\ db'[i] = [db[i] EXCEPT !.live = (q.op = "publish")]
      BY <1>1, <2>1, <2>2, <2>4 DEF WithDate
    <3>2. db'[i].gate = db[i].gate /\ db'[i].live = (q.op = "publish")
      BY <1>1, <3>1 DEF Row
    <3>3. db[i].gate \in Nat
      BY <1>1, PagesAssumption DEF Row, Gates
    <3>4. ~(db'[i].gate < db[i].gate)
      BY <3>2, <3>3
    <3>5. db'[i].live
      BY <3>4 DEF Opens
    <3>6. q.op = "publish"
      BY <3>2, <3>5
    <3> QED BY <2>1, <3>1, <3>6 DEF Asked
  <2> QED BY <2>3, <2>4
<1> QED BY <1>2, <1>3, <1>4

(***************************************************************************)
(* No page becomes visible to more people except by a request that asks    *)
(* for it or by a whole-row update from an outdated read, for any number   *)
(* of requests: the service's other statements never open a page.          *)
(***************************************************************************)
THEOREM OpenedByRequest == Spec => OpenedOnlyByStaleRow
<1>1. IInv /\ [Next]_vars =>
        [\A i \in Ids : Live(i) /\ db'[i] # Gone /\ Opens(i) => Asked(i) \/ StaleRow(i)]_vars
  <2> SUFFICES ASSUME IInv, Next, NEW i \in Ids, Live(i), db'[i] # Gone, Opens(i)
               PROVE  Asked(i) \/ StaleRow(i)
    BY DEF vars
  <2>1. db' # db
    <3>1. db' = db => db'[i].gate = db[i].gate /\ db'[i].live = db[i].live
      OBVIOUS
    <3> QED BY <3>1, SameNotOpened
  <2>2. \E r \in Writers : \/ Stamp(r) \/ Write(r)
                           \/ Insert(r) \/ Remove(r) \/ Rollback(r) \/ SetDate(r)
    BY <2>1 DEF Next, WriterStep, ReaderStep, View, Create, Update, Delete,
        Schedule, Ingest, Resolve, Serve, Check, Media, Abort
  <2> QED BY <2>2, SaveOpens, OtherOpens
<1> QED BY <1>1, Invariance, PTL DEF Spec, OpenedOnlyByStaleRow

-----------------------------------------------------------------------------

(***************************************************************************)
(* A batch that runs alone.  From its check on, the series holds no volume *)
(* of its file; its path leads to that series or to a page that is in no   *)
(* series; and what it writes back is what it read.                        *)
(***************************************************************************)
Busy(r) == req[r].pc # "idle"

\* The page is as it was read.
AsRead(i, row) ==
    /\ Live(i) /\ db[i].parent = row.parent /\ db[i].name = row.name
    /\ db[i].body = row.body

UniqueNames ==
    \A i, j \in Ids :
      /\ Live(i) /\ Live(j) /\ db[i].parent # Top
      /\ db[i].parent = db[j].parent /\ db[i].name = db[j].name
      => i = j

\* The series is reached, or a page that is no series.
Reaches(q, i) == i = q.series \/ i \notin Children(0)

Short(q) == q.path = <<Library, db[q.series].name>>
Long(q)  == q.path = <<Library, db[q.series].name, q.name>>

\* How far an ingest has come with its path.
OnPath(q) ==
    \/ q.at = Top /\ q.todo = q.path
    \/ /\ q.at \in Ids /\ Live(q.at) /\ db[q.at].parent = Top
       /\ q.todo = Tail(q.path)
    \/ q.at \in Ids /\ Reaches(q, q.at) /\ Long(q) /\ q.todo = <<q.name>>

Errand(q) ==
    /\ q.pc \in {"write", "stamp"} => AsRead(q.at, q.row)
    /\ q.op = "ingest" /\ q.pc # "idle" =>
         /\ q.series \in Children(0)
         /\ q.pc \in {"check", "insert", "stamp", "media"} => Short(q)
         /\ q.pc = "walk" => (Short(q) \/ Long(q)) /\ OnPath(q)
         /\ q.pc = "insert" => Reaches(q, q.at)
         /\ q.pc = "write" => Reaches(q, q.row.parent)
         /\ q.pc # "check" => \A i \in Children(q.series) : db[i].body # q.file

\* A batch that runs alone keeps no volume of its file from the check on.
Single ==
    /\ \A r, t \in Writers : Busy(r) /\ Busy(t) => r = t
    /\ UniqueNames
    /\ \A r \in Writers : Errand(req[r])

VInv == ~overlap => Single /\ VolumeOnce

LEMMA IdleErrand == Errand(Idle)
BY DEF Errand, Idle

LEMMA VolumesFirst == Init => VInv
<1> SUFFICES ASSUME Init PROVE Single /\ VolumeOnce
  BY DEF VInv
<1>1. PICK n \in Names : \A i \in Ids :
        db[i] = CASE i = 0 -> [NewRow(Top, Library, Admin - 1) EXCEPT !.special = TRUE]
                  [] i = 1 -> NewRow(0, n, Admin - 1)
                  [] OTHER -> Gone
  BY DEF Init
<1>2. \A i \in Ids : Live(i) =>
         db[i].body = "empty" /\ (db[i].parent = Top \/ i = 1)
  BY <1>1, PagesAssumption DEF Live, NewRow
<1>3. UniqueNames
  BY <1>2 DEF UniqueNames
<1>4. VolumeOnce
  BY <1>2, PagesAssumption DEF VolumeOnce, Children
<1>5. \A r \in Writers : req[r] = Idle
  BY DEF Init, Requests
<1>6. Idle.pc = "idle"
  BY DEF Idle
<1> QED BY <1>3, <1>4, <1>5, <1>6, IdleErrand DEF Single, Busy

\* A writer steps while no two are at work: it alone counts.
LEMMA OneSteps ==
    ASSUME IInv, VInv, ~overlap, ~overlap', Record, NEW r \in Writers, NEW q, Set(r, q),
           db' = db \/ Busy(r),
           UniqueNames', Errand(q)', VolumeOnce'
    PROVE  VInv'
<1>1. req'[r] = q /\ \A t \in Writers \ {r} : req'[t] = req[t]
  BY DEF Set, IInv, Requests
<1>2. (\A s, t \in Writers : Busy(s) /\ Busy(t) => s = t)'
  BY DEF Record, Busy
<1>3. ASSUME NEW t \in Writers PROVE Errand(req[t])'
  <2>1. CASE t = r
    BY <2>1, <1>1
  <2>2. CASE t # r /\ db' = db
    BY <2>2, <1>1 DEF VInv, Single, Errand, AsRead, Live, Children, Reaches, Short, Long, OnPath
  <2>3. CASE t # r /\ Busy(r)
    <3>1. req[t].pc = "idle" /\ req'[t] = req[t]
      BY <2>3, <1>1 DEF VInv, Single, Busy
    <3> QED BY <3>1 DEF Errand
  <2> QED BY <2>1, <2>2, <2>3
<1> QED BY <1>2, <1>3 DEF VInv, Single

\* What keeps the pages, their places and their names keeps the errand.
SameShape ==
    \A i \in Ids : /\ Live(i)' <=> Live(i)
                   /\ Live(i) => db'[i].parent = db[i].parent /\ db'[i].name = db[i].name

LEMMA ShapeKept ==
    ASSUME SameShape
    PROVE  /\ \A p : Children(p)' = Children(p)
           /\ UniqueNames => UniqueNames'
           /\ \A q : Reaches(q, q.at)' <=> Reaches(q, q.at)
<1>1. \A p : Children(p)' = Children(p)
  BY DEF SameShape, Children
<1>2. UniqueNames => UniqueNames'
  BY DEF SameShape, UniqueNames
<1> QED BY <1>1, <1>2 DEF Reaches

\* A whole-row UPDATE of a row as it was read.
LEMMA SaveShape ==
    ASSUME Tree, NEW i \in Ids, NEW row \in Row, Save(i, row), Live(i),
           row.parent = db[i].parent, row.name = db[i].name
    PROVE  /\ SameShape
           /\ \A j \in Ids : j # i => db'[j] = db[j]
           /\ db'[i] = row
<1>1. db[i] \in Row
  BY DEF Tree, Live
<1>2. CanSave(i, row)
  BY <1>1, RowFacts DEF CanSave, ParentThere, Tree, ParentsExist
<1>3. db' = [db EXCEPT ![i] = row]
  BY <1>2 DEF Save
<1> QED BY <1>3, RowFacts DEF Tree, SameShape, Live

\* A step of one writer that writes nothing.
LEMMA Moves ==
    ASSUME IInv, VInv, ~overlap, ~overlap', Record, NEW r \in Writers, NEW q, Set(r, q),
           db' = db, Errand(q)
    PROVE  VInv'
<1>1. UniqueNames' /\ VolumeOnce'
  BY DEF VInv, Single, UniqueNames, VolumeOnce, Children, Live
<1>2. Errand(q)'
  BY DEF Errand, AsRead, Live, Children, Reaches, Short, Long, OnPath
<1> QED BY <1>1, <1>2, OneSteps

\* A request that only moves, for a batch or for others.
LEMMA Arrivals ==
    ASSUME IInv, VInv, ~overlap, ~overlap', Record, NEW r \in Writers,
           Create(r) \/ Update(r) \/ Delete(r) \/ Schedule(r) \/ Ingest(r) \/ Abort(r)
    PROVE  VInv'
<1>0. db' = db
  BY DEF Create, Update, Delete, Schedule, Ingest, Abort
<1>1. CASE Create(r) \/ Update(r) \/ Delete(r)
  <2> DEFINE made(n) == [Idle EXCEPT !.op = "create", !.name = n]
             sent(f) == [Idle EXCEPT !.op = "update", !.form = f]
             gone    == [Idle EXCEPT !.op = "delete"]
  <2>1. /\ \A n \in Names : made(n) \in Req /\ made(n).op = "create"
        /\ \A f \in Form : sent(f) \in Req /\ sent(f).op = "update"
        /\ gone \in Req /\ gone.op = "delete"
    BY IdleGood DEF GoodReq, Req, Ops
  <2>2. \A q \in Req : \A p : Walk(q, p).op = q.op /\ Walk(q, p).pc = "walk"
    BY DEF Walk, Req
  <2>3. \A q \in Req : [q EXCEPT !.pc = "insert"].op = q.op /\ [q EXCEPT !.pc = "insert"].pc = "insert"
    BY DEF Req
  <2>4. PICK q : /\ Set(r, q) /\ q.op \in {"create", "update", "delete"}
                 /\ q.pc \in {"walk", "insert"}
    <3>1. CASE Create(r)
      <4>1. PICK n \in Names, p \in Paths \cup {<<>>} :
              Set(r, IF p = <<>> THEN [made(n) EXCEPT !.pc = "insert"] ELSE Walk(made(n), p))
        BY <3>1 DEF Create
      <4> HIDE DEF made
      <4>2. CASE p = <<>>
        <5>1. Set(r, [made(n) EXCEPT !.pc = "insert"])
          BY <4>1, <4>2
        <5>2. [made(n) EXCEPT !.pc = "insert"].op = "create" /\ [made(n) EXCEPT !.pc = "insert"].pc = "insert"
          BY <2>1, <2>3
        <5>3. PICK q : q = [made(n) EXCEPT !.pc = "insert"]
          OBVIOUS
        <5>4. Set(r, q) /\ q.op = "create" /\ q.pc = "insert"
          BY <5>1, <5>2, <5>3
        <5> QED BY <5>4
      <4>3. CASE p # <<>>
        <5>1. Set(r, Walk(made(n), p))
          BY <4>1, <4>3
        <5>2. Walk(made(n), p).op = "create" /\ Walk(made(n), p).pc = "walk"
          <6>1. made(n) \in Req /\ made(n).op = "create"
            BY <2>1
          <6> QED BY <6>1, <2>2
        <5>3. PICK q : q = Walk(made(n), p)
          OBVIOUS
        <5>4. Set(r, q) /\ q.op = "create" /\ q.pc = "walk"
          BY <5>1, <5>2, <5>3
        <5> QED BY <5>4
      <4> QED BY <4>2, <4>3
    <3>2. CASE Update(r)
      <4>1. PICK p \in Paths, f \in Form : Set(r, Walk(sent(f), p))
        BY <3>2 DEF Update
      <4> HIDE DEF sent
      <4>2. Walk(sent(f), p).op = "update" /\ Walk(sent(f), p).pc = "walk"
        <5>1. sent(f) \in Req /\ sent(f).op = "update"
          BY <2>1
        <5> QED BY <5>1, <2>2
      <4>3. PICK q : q = Walk(sent(f), p)
        OBVIOUS
      <4>4. Set(r, q) /\ q.op = "update" /\ q.pc = "walk"
        BY <4>1, <4>2, <4>3
      <4> QED BY <4>4
    <3>3. CASE Delete(r)
      <4>1. PICK p \in Paths : Set(r, Walk(gone, p))
        BY <3>3 DEF Delete
      <4> HIDE DEF gone
      <4>2. Walk(gone, p).op = "delete" /\ Walk(gone, p).pc = "walk"
        BY <2>1, <2>2
      <4>3. PICK q : q = Walk(gone, p)
        OBVIOUS
      <4>4. Set(r, q) /\ q.op = "delete" /\ q.pc = "walk"
        BY <4>1, <4>2, <4>3
      <4> QED BY <4>4
    <3> QED BY <1>1, <3>1, <3>2, <3>3
  <2>5. Errand(q)
    BY <2>4 DEF Errand
  <2> QED BY <1>0, <2>4, <2>5, Moves
<1>2. CASE Schedule(r)
  <2>1. PICK i \in Ids, op \in {"publish", "unpublish"} :
          Set(r, [Idle EXCEPT !.op = op, !.pc = "date", !.at = i, !.row = db[i]])
    BY <1>2 DEF Schedule
  <2> DEFINE q == [Idle EXCEPT !.op = op, !.pc = "date", !.at = i, !.row = db[i]]
  <2>2. q.op = op /\ q.pc = "date"
    BY IdleGood DEF GoodReq, Req
  <2> HIDE DEF q
  <2>3. Errand(q)
    BY <2>2 DEF Errand
  <2> QED BY <1>0, <2>1, <2>3, Moves DEF q
<1>3. CASE Ingest(r)
  <2>1. PICK f \in Files, n \in Names, s \in Children(0) :
          Set(r, [Idle EXCEPT !.op = "ingest", !.pc = "check", !.file = f, !.name = n,
                              !.series = s, !.path = <<Library, db[s].name>>])
    BY <1>3 DEF Ingest
  <2> DEFINE path == <<Library, db[s].name>>
             q == [Idle EXCEPT !.op = "ingest", !.pc = "check", !.file = f, !.name = n,
                               !.series = s, !.path = path]
  <2>2. Set(r, q)
    BY <2>1
  <2>3. path = <<Library, db[s].name>>
    OBVIOUS
  <2> HIDE DEF path
  <2>4. q.op = "ingest" /\ q.pc = "check" /\ q.series = s /\ q.path = path
    BY IdleGood DEF GoodReq, Req
  <2> HIDE DEF q
  <2>5. Errand(q)
    BY <2>3, <2>4 DEF Errand, Short
  <2> QED BY <1>0, <2>2, <2>5, Moves
<1>4. CASE Abort(r)
  BY <1>0, <1>4, IdleErrand, Moves DEF Abort, End
<1> QED BY <1>1, <1>2, <1>3, <1>4

\* What a request holds, and what an ingest's errand says of it.
LEMMA Holds ==
    ASSUME IInv, VInv, ~overlap, NEW r \in Writers
    PROVE  req[r] \in Req /\ Ready(req[r]) /\ Errand(req[r]) /\ r \in Requests
BY DEF IInv, GoodReq, VInv, Single, Requests

LEMMA WalkFields ==
    ASSUME NEW q \in Req, NEW p \in Seq(Names)
    PROVE  LET w == Walk(q, p) IN
             /\ w.op = q.op /\ w.pc = "walk" /\ w.todo = p /\ w.at = Top /\ w.series = q.series
             /\ w.path = q.path /\ w.name = q.name /\ w.file = q.file
BY DEF Walk, Req

LEMMA ShortPaths ==
    ASSUME NEW a \in Names, NEW b \in Names, NEW c \in Names
    PROVE  /\ <<a, b>> \in Seq(Names) /\ <<a, b, c>> \in Seq(Names) /\ <<c>> \in Seq(Names)
           /\ <<a, b>> \o <<c>> = <<a, b, c>>
           /\ Len(<<a, b>>) # 3 /\ Len(<<a, b, c>>) = 3
           /\ Tail(<<a, b>>) = <<b>> /\ Tail(<<a, b, c>>) = <<b, c>>
           /\ Tail(<<b>>) = <<>> /\ Tail(<<c>>) = <<>> /\ Tail(<<b, c>>) = <<c>>
           /\ <<b>> # <<>> /\ <<b, c>> # <<>> /\ <<c>> # <<>>
           /\ Head(<<b>>) = b /\ Head(<<b, c>>) = b
<1>1. <<a, b>> \in Seq(Names) /\ <<a, b, c>> \in Seq(Names) /\ <<c>> \in Seq(Names)
  OBVIOUS
<1>2. <<a, b>> \o <<c>> = <<a, b, c>>
  <2> DEFINE s == <<a, b>> \o <<c>>
  <2>1. s \in Seq(Names) /\ Len(s) = 3 /\ s[1] = a /\ s[2] = b /\ s[3] = c
    OBVIOUS
  <2> HIDE DEF s
  <2>2. s = <<a, b, c>>
    BY <2>1
  <2> QED BY <2>2 DEF s
<1>3. Len(<<a, b>>) # 3 /\ Len(<<a, b, c>>) = 3
  OBVIOUS
<1>4. Tail(<<a, b>>) = <<b>> /\ Tail(<<b>>) = <<>> /\ Tail(<<c>>) = <<>> /\ Tail(<<b, c>>) = <<c>>
  OBVIOUS
<1>5. Tail(<<a, b, c>>) = <<b, c>>
  OBVIOUS
<1>6. <<b>> # <<>> /\ <<b, c>> # <<>> /\ <<c>> # <<>> /\ Head(<<b>>) = b /\ Head(<<b, c>>) = b
  OBVIOUS
<1> QED BY <1>1, <1>2, <1>3, <1>4, <1>5, <1>6

\* The check finds no volume of the file in the series.
LEMMA Checks ==
    ASSUME IInv, VInv, ~overlap, ~overlap', Record, NEW r \in Writers, Check(r)
    PROVE  VInv'
<1> DEFINE q == req[r]
           w == Walk(q, q.path)
<1>1. q \in Req /\ Ready(q) /\ Errand(q) /\ q.pc = "check" /\ q.op = "ingest" /\ db' = db
      /\ q.path \in Seq(Names)
  BY Holds DEF Check, At, Ready, Req
<1>2. CASE HasVolume(q.series, q)
  BY <1>1, <1>2, IdleErrand, Moves DEF Check
<1>3. CASE ~HasVolume(q.series, q)
  <2>1. Set(r, w)
    BY <1>3 DEF Check
  <2>2. /\ w.op = "ingest" /\ w.pc = "walk" /\ w.todo = q.path /\ w.at = Top
        /\ w.series = q.series /\ w.path = q.path /\ w.name = q.name /\ w.file = q.file
    BY <1>1, WalkFields
  <2> HIDE DEF w
  <2>3. Short(w)
    BY <1>1, <2>2 DEF Errand, Short
  <2>4. \A i \in Children(q.series) : db[i].body # q.file
    BY <1>3 DEF HasVolume
  <2>5. q.series \in Children(0)
    BY <1>1 DEF Errand
  <2>6. Errand(w)
    BY <2>2, <2>3, <2>4, <2>5 DEF Errand, OnPath
  <2> QED BY <1>1, <2>1, <2>6, Moves
<1> QED BY <1>2, <1>3

\* The page is to be looked up by its path, or deleted again.
LEMMA LooksUp ==
    ASSUME IInv, VInv, ~overlap, ~overlap', Record, NEW r \in Writers, Media(r)
    PROVE  VInv'
<1> DEFINE q == req[r]
           path == q.path \o <<q.name>>
           p == [q EXCEPT !.path = path]
           w == Walk(p, path)
           back == [q EXCEPT !.pc = "rollback"]
<1>1. q \in Req /\ Ready(q) /\ Errand(q) /\ q.pc = "media" /\ q.op = "ingest" /\ db' = db
      /\ q.path \in Seq(Names) /\ q.name \in Names
  BY Holds DEF Media, At, Ready, Req
<1>2. Set(r, w) \/ Set(r, back)
  BY DEF Media
<1>3. Short(q) /\ q.series \in Children(0) /\ \A i \in Children(q.series) : db[i].body # q.file
  BY <1>1 DEF Errand
<1>4. path = <<Library, db[q.series].name, q.name>> /\ path \in Seq(Names)
  <2>1. db[q.series].name \in Names /\ Library \in Names
    BY <1>3, PagesAssumption DEF Children, Live, IInv, Tree, Row
  <2>2. q.path = <<Library, db[q.series].name>>
    BY <1>3 DEF Short
  <2> DEFINE name == db[q.series].name
  <2>3. name \in Names /\ q.path = <<Library, name>>
    BY <2>1, <2>2
  <2> HIDE DEF name
  <2>4. <<Library, name>> \o <<q.name>> = <<Library, name, q.name>> /\ <<Library, name, q.name>> \in Seq(Names)
    BY <1>1, <2>1, <2>3, ShortPaths
  <2>5. PICK short, last : short = <<Library, name>> /\ last = <<q.name>>
    OBVIOUS
  <2>6. short \o last = <<Library, name, q.name>> /\ q.path \o last = short \o last
    BY <2>3, <2>4, <2>5
  <2> QED BY <2>4, <2>5, <2>6 DEF name, path
<1> HIDE DEF path
<1>5. p \in Req /\ p.op = "ingest" /\ p.series = q.series /\ p.path = path /\ p.name = q.name
      /\ p.file = q.file
  BY <1>1, <1>4 DEF Req
<1> HIDE DEF p
<1>6. /\ w.op = "ingest" /\ w.pc = "walk" /\ w.todo = path /\ w.at = Top
      /\ w.series = q.series /\ w.path = path /\ w.name = q.name /\ w.file = q.file
  BY <1>4, <1>5, WalkFields
<1> HIDE DEF w
<1>7. Errand(w)
  BY <1>3, <1>4, <1>6 DEF Errand, OnPath, Long
<1>8. Errand(back)
  <2>1. back.pc = "rollback" /\ back.series = q.series /\ back.file = q.file
    BY <1>1 DEF Req
  <2> HIDE DEF back
  <2> QED BY <1>3, <2>1 DEF Errand
<1> QED BY <1>1, <1>2, <1>7, <1>8, Moves

\* A segment of the path: an ingest comes to its series, or to no series.
LEMMA Resolves ==
    ASSUME IInv, VInv, ~overlap, ~overlap', Record, NEW r \in Writers, Resolve(r)
    PROVE  VInv'
<1> DEFINE q == req[r]
           step(i) == [q EXCEPT !.todo = Tail(@), !.at = i, !.row = db[i],
                                !.ids = @ \cup {i}, !.shut = Shut(q, db[i])]
<1>1. q \in Req /\ Ready(q) /\ Errand(q) /\ q.pc = "walk" /\ db' = db /\ q.todo \in Seq(Names)
      /\ q.todo # <<>> /\ q.path \in Seq(Names) /\ q.name \in Names
  BY Holds DEF Resolve, At, Ready, Req
<1>2. CASE End(r)
  BY <1>1, <1>2, IdleErrand, Moves DEF End
<1>3. CASE ~End(r)
  <2>1. PICK i \in Named(q.at, Head(q.todo)) :
          Set(r, IF step(i).todo = <<>> THEN Found(step(i)) ELSE step(i))
    BY <1>3 DEF Resolve
  <2>2. /\ i \in Ids /\ Live(i) /\ db[i] \in Row
        /\ db[i].parent = q.at /\ db[i].name = Head(q.todo)
    BY DEF Named, Children, Live, IInv, Tree
  <2>3. PICK w : w = step(i)
    OBVIOUS
  <2>4. PICK ids, shut : ids = q.ids \cup {i} /\ shut = Shut(q, db[i])
    OBVIOUS
  <2>5. w = [q EXCEPT !.todo = Tail(q.todo), !.at = i, !.row = db[i], !.ids = ids, !.shut = shut]
    BY <2>3, <2>4
  <2>6. /\ w.pc = "walk" /\ w.op = q.op /\ w.at = i /\ w.row = db[i] /\ w.todo = Tail(q.todo)
        /\ w.series = q.series /\ w.path = q.path /\ w.name = q.name /\ w.file = q.file
        /\ \A pc : LET f == [w EXCEPT !.pc = pc] IN
             /\ f.pc = pc /\ f.op = q.op /\ f.at = i /\ f.row = db[i]
             /\ f.series = q.series /\ f.path = q.path /\ f.name = q.name /\ f.file = q.file
    BY <1>1, <2>5 DEF Req
  <2>7. Set(r, IF w.todo = <<>> THEN Found(w) ELSE w)
    BY <2>1, <2>3
  <2> HIDE DEF step
  <2>8. AsRead(i, db[i])
    BY <2>2 DEF AsRead
  <2>9. CASE q.op # "ingest"
    <3>1. Errand(w)
      BY <2>6, <2>9 DEF Errand
    <3>2. \A pc : Errand([w EXCEPT !.pc = pc])
      BY <2>6, <2>8, <2>9 DEF Errand
    <3>3. Found(w) = Idle \/ \E pc : Found(w) = [w EXCEPT !.pc = pc]
      BY <1>1, <2>6, <2>9 DEF Found, Ready
    <3>4. Errand(IF w.todo = <<>> THEN Found(w) ELSE w)
      BY <3>1, <3>2, <3>3, IdleErrand
    <3> QED BY <1>1, <2>7, <3>4, Moves
  <2>10. CASE q.op = "ingest"
    <3> DEFINE name == db[q.series].name
    <3>1. /\ q.series \in Children(0) /\ (Short(q) \/ Long(q)) /\ OnPath(q)
          /\ \A j \in Children(q.series) : db[j].body # q.file
      BY <1>1, <2>10 DEF Errand
    <3>2. q.series \in Ids /\ Live(q.series) /\ db[q.series].parent = 0
          /\ name \in Names /\ Library \in Names
      BY <3>1, PagesAssumption DEF Children, Live, IInv, Tree, Row
    <3>3. 0 \in Ids /\ Top \notin Ids /\ UniqueNames
      BY PagesAssumption DEF VInv, Single
    <3>4. Short(w) <=> Short(q)
      BY <2>6 DEF Short
    <3>5. Long(w) <=> Long(q)
      BY <2>6 DEF Long
    <3>6. \A j : Reaches(w, j) <=> Reaches(q, j)
      BY <2>6 DEF Reaches
    <3>7. Short(q) => q.path = <<Library, name>>
      BY DEF Short
    <3>8. Long(q) => q.path = <<Library, name, q.name>>
      BY DEF Long
    <3> HIDE DEF name
    <3>12. PICK short, long, one, two, last :
             /\ short = <<Library, name>> /\ long = <<Library, name, q.name>>
             /\ one = <<name>> /\ two = <<name, q.name>> /\ last = <<q.name>>
      OBVIOUS
    <3>13. /\ Len(short) # 3 /\ Len(long) = 3 /\ Tail(short) = one /\ Tail(long) = two
           /\ Tail(one) = <<>> /\ Tail(two) = last /\ Tail(last) = <<>>
           /\ one # <<>> /\ two # <<>> /\ last # <<>> /\ Head(one) = name /\ Head(two) = name
      BY <1>1, <3>2, <3>12, ShortPaths
    <3>14. (Short(q) => q.path = short) /\ (Long(q) => q.path = long)
      BY <3>7, <3>8, <3>12
    <3>15. w.todo = Tail(q.todo)
      BY <2>6
    <3>9. CASE q.at = Top /\ q.todo = q.path
      <4>1. w.todo = Tail(q.path) /\ w.todo # <<>>
        <5>1. w.todo = Tail(q.path)
          BY <3>9, <3>15
        <5>2. Tail(q.path) = one \/ Tail(q.path) = two
          BY <3>1, <3>13, <3>14
        <5> QED BY <5>1, <5>2, <3>13
      <4>2. OnPath(w)
        BY <4>1, <2>2, <2>6, <3>9 DEF OnPath
      <4>3. Errand(w)
        BY <2>6, <3>1, <3>4, <3>5, <4>2 DEF Errand
      <4> QED BY <1>1, <2>7, <4>1, <4>3, Moves
    <3>10. CASE /\ q.at \in Ids /\ Live(q.at) /\ db[q.at].parent = Top
                /\ q.todo = Tail(q.path)
      <4>1. Head(q.todo) = name
        BY <3>1, <3>2, <3>7, <3>8, <3>10, <1>1, <3>12, <3>13
      <4>2. Reaches(q, i)
        <5> SUFFICES ASSUME i \in Children(0) PROVE i = q.series
          BY DEF Reaches
        <5>1. db[i].parent = 0 /\ db[i].name = name
          BY <4>1, <2>2 DEF Children
        <5> QED BY <5>1, <2>2, <3>2, <3>3 DEF UniqueNames, name
      <4>3. CASE Short(q)
        <5>1. w.todo = <<>>
          <6>1. q.todo = one
            BY <4>3, <3>10, <3>13, <3>14
          <6> QED BY <6>1, <3>13, <3>15
        <5>2. Len(w.path) # 3
          BY <4>3, <3>7, <2>6, <3>2, <3>12, <3>13
        <5>3. Found(w) = [w EXCEPT !.pc = "insert"]
          BY <5>2, <2>6, <2>10 DEF Found
        <5>4. Short([w EXCEPT !.pc = "insert"]) /\ Reaches([w EXCEPT !.pc = "insert"], i)
          BY <4>2, <4>3, <2>6 DEF Short, Reaches
        <5>5. Errand([w EXCEPT !.pc = "insert"])
          BY <5>4, <2>6, <3>1 DEF Errand
        <5> QED BY <1>1, <2>7, <5>1, <5>3, <5>5, Moves
      <4>4. CASE Long(q)
        <5>1. w.todo = <<q.name>> /\ w.todo # <<>>
          <6>1. q.todo = two
            BY <4>4, <3>10, <3>13, <3>14
          <6>2. w.todo = last
            BY <6>1, <3>13, <3>15
          <6> QED BY <6>2, <3>12, <3>13
        <5>2. OnPath(w)
          BY <5>1, <4>2, <4>4, <2>2, <2>6, <3>5, <3>6 DEF OnPath
        <5>3. Errand(w)
          BY <2>6, <3>1, <3>4, <3>5, <5>2 DEF Errand
        <5> QED BY <1>1, <2>7, <5>1, <5>3, Moves
      <4> QED BY <3>1, <4>3, <4>4
    <3>11. CASE q.at \in Ids /\ Reaches(q, q.at) /\ Long(q) /\ q.todo = <<q.name>>
      <4>1. w.todo = <<>>
        BY <3>11, <2>6, <1>1, <3>12, <3>13
      <4>2. Len(w.path) = 3
        BY <3>11, <3>8, <2>6, <3>2, <3>12, <3>13
      <4>3. Found(w) = [w EXCEPT !.pc = "write"]
        BY <4>2, <2>6, <2>10 DEF Found
      <4>4. Reaches([w EXCEPT !.pc = "write"], db[i].parent)
        BY <3>11, <2>2, <2>6 DEF Reaches
      <4>5. Errand([w EXCEPT !.pc = "write"])
        BY <4>4, <2>6, <2>8, <3>1 DEF Errand
      <4> QED BY <1>1, <2>7, <4>1, <4>3, <4>5, Moves
    <3> QED BY <3>1, <3>9, <3>10, <3>11 DEF OnPath
  <2> QED BY <2>9, <2>10
<1> QED BY <1>2, <1>3

\* The end of a request that leaves the pages, their names and their volumes.
LEMMA EndsAlike ==
    ASSUME IInv, VInv, ~overlap, ~overlap', Record, NEW r \in Writers, Busy(r), End(r), SameShape,
           \A j \in Ids : Live(j) => db'[j].body \in {db[j].body, "text"}
    PROVE  VInv'
<1>1. UniqueNames' /\ \A p : Children(p)' = Children(p)
  BY ShapeKept DEF VInv, Single
<1>2. VolumeOnce'
  <2> SUFFICES ASSUME NEW s \in Children(0), NEW i \in Children(s), NEW j \in Children(s),
                      i # j, db'[i].body \in Files
               PROVE  db'[i].body # db'[j].body
    BY <1>1 DEF VolumeOnce
  <2>1. i \in Ids /\ j \in Ids /\ Live(i) /\ Live(j)
    BY DEF Children
  <2>2. db'[i].body = db[i].body
    BY <2>1, PagesAssumption
  <2> QED BY <2>1, <2>2, PagesAssumption DEF VInv, VolumeOnce
<1>3. Errand(Idle)'
  BY DEF Errand, Idle
<1> QED BY <1>1, <1>2, <1>3, OneSteps DEF End

\* Pages go, or go to the top.
LEMMA Deletes ==
    ASSUME IInv, VInv, ~overlap, ~overlap', Record, NEW r \in Writers, Remove(r) \/ Rollback(r)
    PROVE  VInv'
<1>1. Busy(r) /\ End(r) /\ DeleteRow(req[r].at)
  BY DEF Remove, Rollback, At, Busy
<1>2. \A j \in Children(req[r].at) : db[j] \in Row
  BY DEF Children, Live, IInv, Tree
<1>3. \A j \in Ids : Live(j)' => /\ Live(j) /\ db'[j].parent \in {db[j].parent, Top}
                                 /\ db'[j].name = db[j].name /\ db'[j].body = db[j].body
  <2>1. \A row \in Row : LET top == [row EXCEPT !.parent = Top] IN
          top.parent = Top /\ top.name = row.name /\ top.body = row.body
    BY DEF Row
  <2>2. \A j \in Ids : db'[j] = IF j = req[r].at THEN Gone
                                ELSE IF j \in Children(req[r].at) THEN [db[j] EXCEPT !.parent = Top]
                                ELSE db[j]
    BY <1>1 DEF DeleteRow
  <2> QED BY <1>2, <2>1, <2>2 DEF Live, Children
<1>4. \A p \in Ids : Children(p)' \subseteq Children(p)
  BY <1>3, PagesAssumption DEF Children
<1>5. UniqueNames'
  BY <1>3 DEF VInv, Single, UniqueNames
<1>6. VolumeOnce'
  <2> SUFFICES ASSUME NEW s \in Children(0)', NEW i \in Children(s)', NEW j \in Children(s)',
                      i # j, db'[i].body \in Files
               PROVE  db'[i].body # db'[j].body
    BY DEF VolumeOnce
  <2>1. s \in Children(0) /\ s \in Ids
    BY <1>4, PagesAssumption DEF Children
  <2>2. i \in Children(s) /\ j \in Children(s) /\ Live(i)' /\ Live(j)' /\ i \in Ids /\ j \in Ids
    BY <2>1, <1>4 DEF Children
  <2> QED BY <2>1, <2>2, <1>3 DEF VInv, VolumeOnce
<1>7. Errand(Idle)'
  BY DEF Errand, Idle
<1> QED BY <1>1, <1>5, <1>6, <1>7, OneSteps DEF End

LEMMA DateShape ==
    ASSUME Tree, NEW i \in Ids, NEW live \in BOOLEAN,
           db' = IF Live(i) THEN WithDate(i, live) ELSE db
    PROVE  SameShape /\ \A j \in Ids : Live(j) => db'[j].body = db[j].body
<1>1. CASE Live(i)
  <2>1. PICK row, new : row = db[i] /\ new = [row EXCEPT !.live = live]
    OBVIOUS
  <2>2. row \in Row /\ new.parent = row.parent /\ new.name = row.name /\ new.body = row.body
        /\ new \in Row
    BY <1>1, <2>1 DEF Tree, Live, Row
  <2>3. db' = [db EXCEPT ![i] = new]
    BY <1>1, <2>1 DEF WithDate
  <2> QED BY <1>1, <2>1, <2>2, <2>3, GoneAssumption DEF SameShape, Live, Tree
<1>2. CASE ~Live(i)
  BY <1>2 DEF SameShape, Live
<1> QED BY <1>1, <1>2

LEMMA Dates ==
    ASSUME IInv, VInv, ~overlap, ~overlap', Record, NEW r \in Writers, SetDate(r)
    PROVE  VInv'
<1>1. /\ Busy(r) /\ End(r) /\ req[r].at \in Ids
      /\ db' = IF Live(req[r].at) THEN WithDate(req[r].at, req[r].op = "publish") ELSE db
  BY Holds DEF SetDate, At, Busy, Ready
<1>2. (req[r].op = "publish") \in BOOLEAN
  OBVIOUS
<1>3. SameShape /\ \A j \in Ids : Live(j) => db'[j].body = db[j].body
  BY <1>1, <1>2, DateShape DEF IInv
<1> QED BY <1>1, <1>3, EndsAlike

\* A new page is empty, and nobody's namesake.
LEMMA Inserts ==
    ASSUME IInv, VInv, ~overlap, ~overlap', Record, NEW r \in Writers, Insert(r)
    PROVE  VInv'
<1> DEFINE q == req[r]
<1>1. q \in Req /\ Ready(q) /\ Errand(q) /\ q.pc = "insert" /\ Busy(r) /\ q.name \in Names
      /\ q.at \in Ids \cup {Top}
  BY Holds DEF Insert, At, Busy, Req
<1>2. CASE Taken(q.at, q.name) \/ ~ParentThere(q.at)
  BY <1>2, IdleErrand, Moves DEF Insert, End
<1>3. CASE ~(Taken(q.at, q.name) \/ ~ParentThere(q.at))
  <2> DEFINE new == NewRow(q.at, q.name, 0)
  <2>1. PICK row : row = NewRow(q.at, q.name, IF q.row = Gone THEN 0 ELSE q.row.gate)
    OBVIOUS
  <2>2. PICK w, id : id = next /\ w = [q EXCEPT !.pc = "stamp", !.at = id, !.row = row]
    OBVIOUS
  <2>3. Set(r, w) /\ id \in Ids /\ db' = [db EXCEPT ![id] = new]
    BY <1>3, <2>1, <2>2 DEF Insert
  <2>4. /\ new.parent = q.at /\ new.name = q.name /\ new.body = "empty" /\ new \in Row
        /\ row.parent = q.at /\ row.name = q.name /\ row.body = "empty"
    BY <1>1, <2>1, PagesAssumption DEF NewRow, Row, Gates, Bodies
  <2>5. /\ w.pc = "stamp" /\ w.at = id /\ w.row = row /\ w.op = q.op /\ w.series = q.series
        /\ w.path = q.path /\ w.name = q.name /\ w.file = q.file
    BY <1>1, <2>2 DEF Req
  <2> HIDE DEF new
  <2>6. ~Live(id) /\ \A j \in Ids : Live(j) => db[j].parent # id
    <3>1. ~Live(id)
      BY <2>2, <2>3, PagesAssumption DEF IInv, Tree
    <3> QED BY <3>1, <2>3, PagesAssumption DEF IInv, Tree, ParentsExist
  <2>7. /\ \A j \in Ids : Live(j)' <=> (Live(j) \/ j = id)
        /\ \A j \in Ids \ {id} : db'[j] = db[j]
        /\ db'[id] = new
    BY <2>3, <2>4, <2>6, GoneAssumption DEF Live, IInv, Tree
  <2>8. q.at # id
    BY <1>3, <2>3, <2>6, PagesAssumption DEF ParentThere
  <2>9. UniqueNames'
    <3> SUFFICES ASSUME NEW i \in Ids, NEW j \in Ids, Live(i)', Live(j)', db'[i].parent # Top,
                        db'[i].parent = db'[j].parent, db'[i].name = db'[j].name
                 PROVE  i = j
      BY DEF UniqueNames
    <3>1. q.at # Top => \A k \in Ids : ~(Live(k) /\ db[k].parent = q.at /\ db[k].name = q.name)
      BY <1>3 DEF Taken, Named, Children
    <3>2. CASE i = id \/ j = id
      BY <2>4, <2>7, <3>1, <3>2
    <3>3. CASE i # id /\ j # id
      BY <2>7, <3>3 DEF VInv, Single, UniqueNames
    <3> QED BY <3>2, <3>3
  <2>10. \A p : /\ Children(p) \subseteq Children(p)'
                /\ Children(p)' \subseteq Children(p) \cup {id}
    BY <2>7, <2>6 DEF Children
  <2>11. VolumeOnce'
    <3> SUFFICES ASSUME NEW s \in Children(0)', NEW i \in Children(s)', NEW j \in Children(s)',
                        i # j, db'[i].body \in Files
                 PROVE  db'[i].body # db'[j].body
      BY DEF VolumeOnce
    <3>1. i # id /\ i \in Ids /\ j \in Ids
      BY <2>4, <2>7, PagesAssumption DEF Children
    <3>2. s # id
      <4>1. i \in Children(s)
        BY <3>1, <2>10
      <4> QED BY <4>1, <2>6 DEF Children
    <3>3. CASE j = id
      BY <3>3, <2>4, <2>7, PagesAssumption
    <3>4. CASE j # id
      BY <3>1, <3>2, <3>4, <2>7, <2>10 DEF VInv, VolumeOnce
    <3> QED BY <3>3, <3>4
  <2>12. Errand(w)'
    <3>1. AsRead(id, row)'
      BY <2>3, <2>4, <2>7 DEF AsRead
    <3>2. ASSUME q.op = "ingest"
          PROVE  /\ w.series \in Children(0)' /\ Short(w)'
                 /\ \A i \in Children(w.series)' : db'[i].body # w.file
      <4>1. /\ q.series \in Children(0) /\ Short(q)
            /\ \A i \in Children(q.series) : db[i].body # q.file
        BY <1>1, <3>2 DEF Errand
      <4>2. q.series \in Ids /\ q.series # id
        BY <4>1, <2>6 DEF Children
      <4>3. q.file \in Files
        BY <1>1, <3>2 DEF Ready
      <4>4. ASSUME NEW i \in Children(w.series)' PROVE db'[i].body # w.file
        <5>1. i \in Children(q.series) \cup {id} /\ w.file = q.file
          BY <2>5, <2>10
        <5>2. i \in Ids
          BY <5>1, <2>3 DEF Children
        <5> QED BY <5>1, <5>2, <4>1, <4>3, <2>4, <2>7, <2>6, PagesAssumption DEF Children
      <4>5. Short(w)'
        BY <4>1, <4>2, <2>5, <2>7 DEF Short
      <4>6. q.series \in Children(0)'
        BY <4>1, <2>10
      <4>7. w.series \in Children(0)'
        BY <4>6, <2>5
      <4> QED BY <4>4, <4>5, <4>7
    <3> QED BY <3>1, <3>2, <2>5 DEF Errand
  <2> QED BY <1>1, <2>3, <2>9, <2>11, <2>12, OneSteps
<1> QED BY <1>2, <1>3

\* The new page gets its title and its gate.
LEMMA StampsRow ==
    ASSUME IInv, VInv, ~overlap, ~overlap', Record, NEW r \in Writers, Stamp(r)
    PROVE  VInv'
<1> DEFINE q == req[r]
<1>1. /\ q \in Req /\ Ready(q) /\ Errand(q) /\ q.pc = "stamp" /\ Busy(r) /\ q.at \in Ids
      /\ q.row \in Row /\ Save(q.at, q.row) /\ AsRead(q.at, q.row)
  BY Holds DEF Stamp, At, Busy, Ready, Errand
<1>2. /\ SameShape /\ \A j \in Ids : j # q.at => db'[j] = db[j]
      /\ db'[q.at] = q.row
  BY <1>1, SaveShape DEF AsRead, IInv
<1>3. \A j \in Ids : Live(j) => db'[j].body = db[j].body
  BY <1>1, <1>2 DEF AsRead
<1>4. CASE ~(q.op = "ingest" /\ CanSave(q.at, q.row))
  <2>1. End(r)
    BY <1>4 DEF Stamp, End
  <2> QED BY <1>1, <1>2, <1>3, <2>1, EndsAlike
<1>5. CASE q.op = "ingest" /\ CanSave(q.at, q.row)
  <2>1. PICK w : w = [q EXCEPT !.pc = "media"]
    OBVIOUS
  <2>2. Set(r, w)
    BY <1>5, <2>1 DEF Stamp
  <2>3. /\ w.pc = "media" /\ w.op = q.op /\ w.series = q.series /\ w.path = q.path
        /\ w.name = q.name /\ w.file = q.file
    BY <1>1, <2>1 DEF Req
  <2>4. UniqueNames' /\ \A p : Children(p)' = Children(p)
    BY <1>2, ShapeKept DEF VInv, Single
  <2>5. VolumeOnce'
    BY <1>3, <2>4 DEF VInv, VolumeOnce, Children
  <2>6. /\ q.series \in Children(0) /\ Short(q)
        /\ \A i \in Children(q.series) : db[i].body # q.file
    BY <1>1, <1>5 DEF Errand
  <2>7. Short(w)'
    BY <1>2, <2>3, <2>6 DEF Short, SameShape, Children
  <2>8. /\ w.series \in Children(0)'
        /\ \A i \in Children(w.series)' : db'[i].body # w.file
    BY <1>3, <2>3, <2>4, <2>6 DEF Children
  <2>9. Errand(w)'
    BY <2>3, <2>7, <2>8 DEF Errand
  <2> QED BY <1>1, <2>2, <2>4, <2>5, <2>9, OneSteps
<1> QED BY <1>4, <1>5

\* The volume comes into the series, which had none of its file, or elsewhere.
LEMMA WritesBack ==
    ASSUME IInv, VInv, ~overlap, ~overlap', Record, NEW r \in Writers, Write(r)
    PROVE  VInv'
<1> DEFINE q == req[r]
           new(body) == [q.row EXCEPT !.body = body,
                                    !.gate = ApplyWrite(@, q.form.gate),
                                    !.live = IF q.form.live = Keep THEN @ ELSE q.form.live]
<1>1. /\ q \in Req /\ Ready(q) /\ Errand(q) /\ q.pc = "write" /\ Busy(r) /\ q.at \in Ids
      /\ q.row \in Row /\ AsRead(q.at, q.row) /\ End(r) /\ q.form \in Form
  BY Holds DEF Write, At, Busy, Ready, Errand, Req
<1>2. PICK body \in Markdown(q) : Save(q.at, new(body))
  BY DEF Write
<1>3. body \in Bodies
  BY <1>1 DEF Markdown, Bodies, Ready, Row
<1>4. new(body) \in Row
  BY <1>1, <1>3, FormRow
<1>5. new(body).parent = q.row.parent /\ new(body).name = q.row.name /\ new(body).body = body
  BY <1>1 DEF Row
<1>6. PICK row : row = new(body)
  OBVIOUS
<1> HIDE DEF new
<1>7. /\ row \in Row /\ row.parent = q.row.parent /\ row.name = q.row.name /\ row.body = body
      /\ Save(q.at, row)
  BY <1>2, <1>4, <1>5, <1>6
<1>8. SameShape /\ (\A j \in Ids : j # q.at => db'[j] = db[j]) /\ db'[q.at] = row
  BY <1>1, <1>7, SaveShape DEF AsRead, IInv
<1>9. CASE q.op # "ingest"
  <2>1. body \in {"text", db[q.at].body}
    BY <1>1, <1>2, <1>9 DEF Markdown, AsRead
  <2> QED BY <1>1, <1>7, <1>8, <2>1, EndsAlike
<1>10. CASE q.op = "ingest"
  <2>1. /\ body = q.file /\ Reaches(q, db[q.at].parent)
        /\ \A i \in Children(q.series) : db[i].body # q.file
    BY <1>1, <1>2, <1>10 DEF Markdown, Errand, AsRead
  <2>2. UniqueNames' /\ \A p : Children(p)' = Children(p)
    BY <1>8, ShapeKept DEF VInv, Single
  <2>3. VolumeOnce'
    <3> SUFFICES ASSUME NEW s \in Children(0), NEW i \in Children(s), NEW j \in Children(s),
                        i # j, db'[i].body \in Files
                 PROVE  db'[i].body # db'[j].body
      BY <2>2 DEF VolumeOnce
    <3>1. i \in Ids /\ j \in Ids /\ db[i].parent = s /\ db[j].parent = s
      BY DEF Children
    <3>2. CASE i # q.at /\ j # q.at
      BY <1>8, <3>1, <3>2 DEF VInv, VolumeOnce
    <3>3. CASE i = q.at \/ j = q.at
      <4>1. s = q.series
        BY <2>1, <3>1, <3>3 DEF Reaches
      <4> QED BY <1>7, <1>8, <2>1, <3>1, <3>3, <4>1
    <3> QED BY <3>2, <3>3
  <2>4. Errand(Idle)'
    BY DEF Errand, Idle
  <2> QED BY <1>1, <2>2, <2>3, <2>4, OneSteps DEF End
<1> QED BY <1>9, <1>10

\* A view, and a step that changes nothing, leave the writers alone.
LEMMA OthersMove ==
    ASSUME VInv, ~overlap, db' = db, \A w \in Writers : req'[w] = req[w]
    PROVE  VInv'
<1>1. Single'
  BY DEF VInv, Single, Busy, UniqueNames, Errand, AsRead, Live, Children, Reaches, Short, Long, OnPath
<1>2. VolumeOnce'
  BY DEF VInv, VolumeOnce, Children, Live
<1> QED BY <1>1, <1>2 DEF VInv

\* A batch that runs alone is idempotent, whatever the pages, their names and
\* their namesakes, and whatever was aborted or renamed before.
THEOREM BatchAloneAddsOnce == Spec => []VolumeOnce
<1>1. IInv /\ VInv /\ [Next]_vars => VInv'
  <2> SUFFICES ASSUME IInv, VInv, [Next]_vars, ~overlap' PROVE VInv'
    BY DEF VInv
  <2>1. CASE UNCHANGED vars
    BY <2>1, OthersMove DEF vars
  <2>2. ASSUME Record PROVE ~overlap
    BY <2>2 DEF Record
  <2>3. ASSUME NEW r \in Writers, WriterStep(r), Record PROVE VInv'
    BY <2>2, <2>3, Arrivals, Resolves, Inserts, StampsRow, WritesBack, Deletes, Dates, Checks,
       LooksUp DEF WriterStep
  <2>4. ASSUME NEW r \in Readers, ReaderStep(r), Record PROVE VInv'
    <3>1. db' = db /\ \E q : Set(r, q)
      BY <2>4 DEF ReaderStep, View, Resolve, Serve, Abort, End
    <3>2. \A w \in Writers : req'[w] = req[w]
      BY <3>1, PagesAssumption DEF Set, IInv, Requests
    <3> QED BY <2>2, <2>4, <3>1, <3>2, OthersMove
  <2> QED BY <2>1, <2>3, <2>4 DEF Next
<1>2. VInv => VolumeOnce
  BY DEF VInv, VolumeOnce
<1> QED BY VolumesFirst, <1>1, <1>2, Invariance, PTL DEF Spec

-----------------------------------------------------------------------------

(***************************************************************************)
(* Maxima and orders.                                                      *)
(***************************************************************************)

LEMMA LeastOf ==
    ASSUME NEW S, S \subseteq Nat, S # {}
    PROVE  \E m \in S : \A k \in S : m <= k
<1>1. IsWellFoundedOn(OpToRel(<, Nat), Nat)
  BY NatLessThanWellFounded
<1>2. PICK m \in S : \A k \in S : ~ (<<k, m>> \in OpToRel(<, Nat))
  BY <1>1, WFMin, Zenon
<1>3. \A k \in S : ~ (k < m)
  BY <1>2 DEF OpToRel
<1> QED BY <1>3

\* A bounded set of numbers has a greatest.
LEMMA MaxOf ==
    ASSUME NEW b \in Nat, NEW S, S \subseteq 0 .. b, S # {}
    PROVE  Max(S) \in S /\ \A x \in S : x <= Max(S)
<1> DEFINE Gaps == {n \in Nat : \E x \in S : b - x = n}
<1>1. Gaps \subseteq Nat /\ Gaps # {}
  <2>1. PICK x \in S : TRUE
    OBVIOUS
  <2>2. b - x \in Nat /\ x \in Nat
    BY <2>1
  <2>3. b - x \in Gaps
    BY <2>1, <2>2
  <2> QED BY <2>3
<1>2. PICK m \in Gaps : \A k \in Gaps : m <= k
  <2> HIDE DEF Gaps
  <2> QED BY <1>1, LeastOf
<1>3. PICK x \in S : b - x = m
  BY <1>2
<1>4. \A y \in S : x >= y
  <2> SUFFICES ASSUME NEW y \in S PROVE x >= y
    OBVIOUS
  <2>1. b - y \in Nat /\ y \in Nat /\ x \in Nat
    OBVIOUS
  <2>2. b - y \in Gaps
    BY <2>1
  <2>3. b - x <= b - y
    BY <1>2, <1>3, <2>2
  <2> QED BY <2>1, <2>3
<1>5. Max(S) \in S /\ \A y \in S : Max(S) >= y
  BY <1>4 DEF Max
<1>6. Max(S) \in Nat /\ \A y \in S : y \in Nat
  <2> HIDE DEF Gaps
  <2>1. \A y \in S : y \in Nat
    OBVIOUS
  <2> QED BY <1>5, <2>1
<1> QED BY <1>5, <1>6

\* R puts the elements of S in a line.
InLine(R, S) ==
    /\ \A a \in S : <<a, a>> \notin R
    /\ \A a, b \in S : a # b => <<a, b>> \in R \/ <<b, a>> \in R
    /\ \A a, b, c \in S : <<a, b>> \in R /\ <<b, c>> \in R => <<a, c>> \in R

\* How many stand before each.
Rank(R, S) == [i \in S |-> Cardinality({j \in S : <<j, i>> \in R})]

\* Every place in the line is taken, by just one element.
LEMMA Places ==
    ASSUME NEW S, IsFiniteSet(S), NEW R, InLine(R, S)
    PROVE  /\ Cardinality(S) \in Nat
           /\ \A i \in S : Rank(R, S)[i] \in Nat /\ Rank(R, S)[i] + 1 \in 1 .. Cardinality(S)
           /\ \A i, j \in S : Rank(R, S)[i] = Rank(R, S)[j] => i = j
           /\ \A n \in 1 .. Cardinality(S) : \E i \in S : Rank(R, S)[i] = n - 1
<1> DEFINE rank == Rank(R, S)
<1> DEFINE Ahead(i) == {j \in S : <<j, i>> \in R}
           c == Cardinality(S)
<1>1. c \in Nat
  BY FS_CardinalityType
<1>2. ASSUME NEW i \in S PROVE IsFiniteSet(Ahead(i)) /\ rank[i] = Cardinality(Ahead(i))
                                /\ rank[i] \in Nat /\ rank[i] < c
  <2>1. IsFiniteSet(Ahead(i)) /\ Cardinality(Ahead(i)) <= c
        /\ (Cardinality(S) = Cardinality(Ahead(i)) => S = Ahead(i))
    BY FS_Subset, Ahead(i) \in SUBSET S
  <2>2. Ahead(i) # S
    BY i \notin Ahead(i) DEF InLine
  <2>3. Cardinality(Ahead(i)) \in Nat
    BY <2>1, FS_CardinalityType
  <2>4. rank[i] = Cardinality(Ahead(i))
    BY DEF Rank
  <2> HIDE DEF Ahead, rank
  <2> QED BY <1>1, <2>1, <2>2, <2>3, <2>4
<1>3. ASSUME NEW i \in S, NEW j \in S, <<i, j>> \in R PROVE rank[i] < rank[j]
  <2>1. Ahead(i) \in SUBSET Ahead(j)
    BY <1>3 DEF InLine
  <2>2. i \in Ahead(j) /\ i \notin Ahead(i)
    BY <1>3 DEF InLine
  <2>3. IsFiniteSet(Ahead(j)) /\ IsFiniteSet(Ahead(i)) /\ rank[i] \in Nat /\ rank[j] \in Nat
        /\ rank[i] = Cardinality(Ahead(i)) /\ rank[j] = Cardinality(Ahead(j))
    BY <1>2
  <2> HIDE DEF Ahead, rank
  <2>4. Cardinality(Ahead(i)) <= Cardinality(Ahead(j))
        /\ (Cardinality(Ahead(j)) = Cardinality(Ahead(i)) => Ahead(j) = Ahead(i))
    BY <2>1, <2>3, FS_Subset
  <2> QED BY <2>2, <2>3, <2>4
<1>4. \A i, j \in S : rank[i] = rank[j] => i = j
  <2> SUFFICES ASSUME NEW i \in S, NEW j \in S, rank[i] = rank[j], i # j PROVE FALSE
    OBVIOUS
  <2>1. rank[i] < rank[j] \/ rank[j] < rank[i]
    BY <1>3 DEF InLine
  <2>2. rank[i] \in Nat /\ rank[j] \in Nat
    BY <1>2
  <2> QED BY <2>1, <2>2
<1>5. rank \in Injection(S, 0 .. c - 1)
  <2>1. rank \in [S -> 0 .. c - 1]
    <3>1. \A i \in S : rank[i] \in 0 .. c - 1
      <4> SUFFICES ASSUME NEW i \in S PROVE rank[i] \in 0 .. c - 1
        OBVIOUS
      <4>1. rank[i] \in Nat /\ rank[i] < c
        BY <1>2
      <4> HIDE DEF c
      <4> QED BY <1>1, <4>1
    <3> QED BY <3>1 DEF Rank
  <2> QED BY <2>1, <1>4 DEF Injection, IsInjective
<1>6. IsFiniteSet(0 .. c - 1) /\ Cardinality(0 .. c - 1) = c
  BY <1>1, FS_Interval
<1>7. rank \in Surjection(S, 0 .. c - 1)
  BY <1>5, <1>6, FS_Injection
<1>8. \A n \in 1 .. c : \E i \in S : rank[i] = n - 1
  BY <1>1, <1>7 DEF Surjection
<1>9. \A i \in S : rank[i] \in Nat /\ rank[i] + 1 \in 1 .. c
  <2> SUFFICES ASSUME NEW i \in S PROVE rank[i] \in Nat /\ rank[i] + 1 \in 1 .. c
    OBVIOUS
  <2>1. rank[i] \in Nat /\ rank[i] < c
    BY <1>2
  <2> HIDE DEF c
  <2> QED BY <1>1, <2>1
<1> QED BY <1>1, <1>4, <1>8, <1>9
\* What ORDER BY gives: every element, once.
Lists(q, S) == /\ q \in Seq(S) /\ Len(q) = Cardinality(S) /\ Cardinality(S) \in Nat
               /\ Range(q) = S

LEMMA Ordered ==
    ASSUME NEW S, IsFiniteSet(S), NEW R, InLine(R, S), NEW T,
           NEW q, q \in [1 .. Cardinality(S) -> T],
           \A n \in 1 .. Cardinality(S) :
             (\E i \in S : Rank(R, S)[i] = n - 1) => q[n] \in S /\ Rank(R, S)[q[n]] = n - 1
    PROVE  Lists(q, S)
<1> SUFFICES ASSUME NEW c, c = Cardinality(S) PROVE Lists(q, S)
  OBVIOUS
<1> DEFINE rank == Rank(R, S)
<1>1. /\ c \in Nat
      /\ \A i \in S : rank[i] \in Nat /\ rank[i] + 1 \in 1 .. c
      /\ \A i, j \in S : rank[i] = rank[j] => i = j
      /\ \A n \in 1 .. c : \E i \in S : rank[i] = n - 1
  BY Places
<1>2. \A n \in 1 .. c : q[n] \in S /\ rank[q[n]] = n - 1
  BY <1>1
<1>4. q \in Seq(S) /\ Len(q) = c /\ DOMAIN q = 1 .. c
  <2>1. q \in [1 .. c -> S]
    BY <1>2
  <2>2. c \in Nat
    BY <1>1
  <2> QED BY <2>1, <2>2
<1>5. ASSUME NEW i \in S PROVE rank[i] + 1 \in 1 .. c /\ q[rank[i] + 1] = i
  <2>1. rank[i] \in Nat /\ rank[i] + 1 \in 1 .. c
    BY <1>1
  <2>2. q[rank[i] + 1] \in S /\ rank[q[rank[i] + 1]] = (rank[i] + 1) - 1
    BY <1>2, <2>1
  <2>3. rank[q[rank[i] + 1]] = rank[i]
    BY <2>1, <2>2
  <2> QED BY <1>1, <2>1, <2>2, <2>3
<1>6. Range(q) = S
  <2>1. Range(q) = {q[n] : n \in 1 .. c}
    BY <1>4 DEF Range
  <2> QED BY <1>2, <1>5, <2>1
<1> QED BY <1>1, <1>4, <1>6 DEF Lists

-----------------------------------------------------------------------------

CatTypes ==
    /\ rows \in [Nodes -> PageRow \cup {NoRow}]
    /\ \A i \in Specials : There(i) /\ rows[i].parent = Root
    /\ unused \subseteq PageIds
    /\ second \in 1 .. LastSecond
    /\ \A i \in Nodes : There(i) => rows[i].edited <= second

Rows == {i \in Nodes : There(i)}

LEMMA RowsAre ==
    ASSUME CatTypes
    PROVE  /\ IsFiniteSet(Nodes) /\ Nodes \subseteq Nat /\ Root \notin Nodes /\ IsFiniteSet(Rows)
           /\ Specials \subseteq Nodes /\ PageIds \subseteq Nodes
           /\ \A i \in Rows : rows[i] \in PageRow /\ i \in Nat
                              /\ rows[i].date \in Nat /\ rows[i].order \in Nat
<1>1. IsFiniteSet(Nodes) /\ Nodes \subseteq Nat /\ Root \notin Nodes
  <2>1. IsFiniteSet(Specials)
    BY FS_Interval, 1 \in Int, 5 \in Int DEF Specials
  <2>2. IsFiniteSet(Specials \cup PageIds)
    BY <2>1, FS_Union, CatalogueAssumption
  <2>3. Specials \subseteq Nat /\ 0 \notin Specials
    BY DEF Specials
  <2>4. PageIds \subseteq Nat /\ 0 \notin PageIds
    BY CatalogueAssumption
  <2> QED BY <2>2, <2>3, <2>4 DEF Nodes, Root
<1>2. IsFiniteSet(Rows)
  BY <1>1, FS_Subset DEF Rows
<1>3. \A i \in Rows : rows[i] \in PageRow /\ i \in Nat
  BY <1>1 DEF CatTypes, Rows, There
<1>4. \A i \in Rows : rows[i].date \in Nat /\ rows[i].order \in Nat
  <2>1. \A r \in PageRow : r.date \in 0 .. Never /\ r.order \in Nat
    BY DEF PageRow
  <2> QED BY <1>3, <2>1
<1> QED BY <1>1, <1>2, <1>3, <1>4 DEF Nodes

LEMMA NewestLists ==
    ASSUME CatTypes, NEW S, S \subseteq Rows
    PROVE  Lists(Newest(S), S)
<1> DEFINE R == {p \in S \X S : Later(p[1], p[2])}
<1>1. IsFiniteSet(S) /\ \A i \in S : i \in Nat /\ rows[i].date \in Nat
  BY RowsAre, FS_Subset
<1>2. \A a, b \in S : <<a, b>> \in R <=> Later(a, b)
  OBVIOUS
<1> DEFINE rank == Rank(R, S)
           q == Newest(S)
<1>3. /\ q \in [1 .. Cardinality(S) -> {q[n] : n \in 1 .. Cardinality(S)}]
      /\ \A n \in 1 .. Cardinality(S) :
           (\E i \in S : rank[i] = n - 1) => q[n] \in S /\ rank[q[n]] = n - 1
  <2>1. ASSUME NEW i \in S PROVE rank[i] = Cardinality({j \in S : Later(j, i)})
    <3>1. {j \in S : <<j, i>> \in R} = {j \in S : Later(j, i)}
      BY <1>2
    <3> QED BY <3>1 DEF Rank
  <2>2. q = [n \in 1 .. Cardinality(S) |->
               CHOOSE i \in S : Cardinality({j \in S : Later(j, i)}) = n - 1]
    BY DEF Newest, OrderBy
  <2> HIDE DEF rank, q
  <2>3. ASSUME NEW n \in 1 .. Cardinality(S), NEW i \in S, rank[i] = n - 1
        PROVE  q[n] \in S /\ rank[q[n]] = n - 1
    <3>1. \E k \in S : Cardinality({j \in S : Later(j, k)}) = n - 1
      BY <2>1, <2>3
    <3>2. q[n] \in S /\ Cardinality({j \in S : Later(j, q[n])}) = n - 1
      BY <2>2, <3>1
    <3> QED BY <2>1, <3>2
  <2>4. q \in [1 .. Cardinality(S) -> {q[n] : n \in 1 .. Cardinality(S)}]
    BY <2>2
  <2> QED BY <2>3, <2>4
<1>4. InLine(R, S)
  <2> HIDE DEF R
  <2> QED BY <1>1, <1>2 DEF Later, InLine
<1> HIDE DEF R, q
<1>5. Lists(q, S)
  <2>1. IsFiniteSet(S) /\ InLine(R, S)
    BY <1>1, <1>4
  <2>2. PICK T : q \in [1 .. Cardinality(S) -> T]
    BY <1>3
  <2>3. \A n \in 1 .. Cardinality(S) :
          (\E i \in S : Rank(R, S)[i] = n - 1) => q[n] \in S /\ Rank(R, S)[q[n]] = n - 1
    BY <1>3
  <2> QED BY <2>1, <2>2, <2>3, Ordered, Zenon
<1> QED BY <1>5 DEF q

LEMMA InOrderLists ==
    ASSUME CatTypes, NEW S, S \subseteq Rows
    PROVE  Lists(InOrder(S), S)
<1> DEFINE R == {p \in S \X S : Before(p[1], p[2])}
<1>1. IsFiniteSet(S) /\ \A i \in S : i \in Nat /\ rows[i].order \in Nat
  BY RowsAre, FS_Subset
<1>2. \A a, b \in S : <<a, b>> \in R <=> Before(a, b)
  OBVIOUS
<1> DEFINE rank == Rank(R, S)
           q == InOrder(S)
<1>3. /\ q \in [1 .. Cardinality(S) -> {q[n] : n \in 1 .. Cardinality(S)}]
      /\ \A n \in 1 .. Cardinality(S) :
           (\E i \in S : rank[i] = n - 1) => q[n] \in S /\ rank[q[n]] = n - 1
  <2>1. ASSUME NEW i \in S PROVE rank[i] = Cardinality({j \in S : Before(j, i)})
    <3>1. {j \in S : <<j, i>> \in R} = {j \in S : Before(j, i)}
      BY <1>2
    <3> QED BY <3>1 DEF Rank
  <2>2. q = [n \in 1 .. Cardinality(S) |->
               CHOOSE i \in S : Cardinality({j \in S : Before(j, i)}) = n - 1]
    BY DEF InOrder, OrderBy
  <2> HIDE DEF rank, q
  <2>3. ASSUME NEW n \in 1 .. Cardinality(S), NEW i \in S, rank[i] = n - 1
        PROVE  q[n] \in S /\ rank[q[n]] = n - 1
    <3>1. \E k \in S : Cardinality({j \in S : Before(j, k)}) = n - 1
      BY <2>1, <2>3
    <3>2. q[n] \in S /\ Cardinality({j \in S : Before(j, q[n])}) = n - 1
      BY <2>2, <3>1
    <3> QED BY <2>1, <3>2
  <2>4. q \in [1 .. Cardinality(S) -> {q[n] : n \in 1 .. Cardinality(S)}]
    BY <2>2
  <2> QED BY <2>3, <2>4
<1>4. InLine(R, S)
  <2> HIDE DEF R
  <2> QED BY <1>1, <1>2 DEF Before, InLine
<1> HIDE DEF R, q
<1>5. Lists(q, S)
  <2>1. IsFiniteSet(S) /\ InLine(R, S)
    BY <1>1, <1>4
  <2>2. PICK T : q \in [1 .. Cardinality(S) -> T]
    BY <1>3
  <2>3. \A n \in 1 .. Cardinality(S) :
          (\E i \in S : Rank(R, S)[i] = n - 1) => q[n] \in S /\ Rank(R, S)[q[n]] = n - 1
    BY <1>3
  <2> QED BY <2>1, <2>2, <2>3, Ordered, Zenon
<1> QED BY <1>5 DEF q

LEMMA PinnedLists ==
    ASSUME CatTypes, NEW S, S \subseteq Rows
    PROVE  Lists(Pinned(S), {i \in S : rows[i].pinned})
<1> DEFINE P == {i \in S : rows[i].pinned}
           R == {p \in P \X P : BandOrder(p[1], p[2])}
<1>1. IsFiniteSet(P) /\ \A i \in P : i \in Nat /\ rows[i].order \in Nat /\ rows[i].date \in Nat
  <2>1. P \subseteq Rows
    OBVIOUS
  <2> HIDE DEF P
  <2> QED BY <2>1, RowsAre, FS_Subset
<1>2. \A a, b \in P : <<a, b>> \in R <=> BandOrder(a, b)
  OBVIOUS
<1> DEFINE rank == Rank(R, P)
           q == Pinned(S)
<1>3. /\ q \in [1 .. Cardinality(P) -> {q[n] : n \in 1 .. Cardinality(P)}]
      /\ \A n \in 1 .. Cardinality(P) :
           (\E i \in P : rank[i] = n - 1) => q[n] \in P /\ rank[q[n]] = n - 1
  <2>1. ASSUME NEW i \in P PROVE rank[i] = Cardinality({j \in P : BandOrder(j, i)})
    <3>1. {j \in P : <<j, i>> \in R} = {j \in P : BandOrder(j, i)}
      BY <1>2
    <3> HIDE DEF R, P
    <3> QED BY <3>1 DEF Rank
  <2>2. q = [n \in 1 .. Cardinality(P) |->
               CHOOSE i \in P : Cardinality({j \in P : BandOrder(j, i)}) = n - 1]
    BY DEF Pinned, OrderBy
  <2> HIDE DEF rank, q, P
  <2>3. ASSUME NEW n \in 1 .. Cardinality(P), NEW i \in P, rank[i] = n - 1
        PROVE  q[n] \in P /\ rank[q[n]] = n - 1
    <3>1. \E k \in P : Cardinality({j \in P : BandOrder(j, k)}) = n - 1
      BY <2>1, <2>3
    <3>2. q[n] \in P /\ Cardinality({j \in P : BandOrder(j, q[n])}) = n - 1
      BY <2>2, <3>1
    <3> QED BY <2>1, <3>2
  <2>4. q \in [1 .. Cardinality(P) -> {q[n] : n \in 1 .. Cardinality(P)}]
    BY <2>2
  <2> QED BY <2>3, <2>4
<1>4. InLine(R, P)
  <2> HIDE DEF R, P
  <2> QED BY <1>1, <1>2 DEF BandOrder, Later, InLine
<1>5. Lists(Pinned(S), P)
  <2> HIDE DEF R, P, q
  <2>1. IsFiniteSet(P) /\ InLine(R, P)
    BY <1>1, <1>4
  <2>2. PICK T : q \in [1 .. Cardinality(P) -> T]
    BY <1>3
  <2>3. \A n \in 1 .. Cardinality(P) :
          (\E i \in P : Rank(R, P)[i] = n - 1) => q[n] \in P /\ Rank(R, P)[q[n]] = n - 1
    BY <1>3
  <2>4. Lists(q, P)
    BY <2>1, <2>2, <2>3, Ordered, Zenon
  <2> QED BY <2>4 DEF q
<1> QED BY <1>5

\* LIMIT takes from the list, and all of one that is not longer.
LEMMA FirstOfLists ==
    ASSUME NEW q, NEW S, Lists(q, S), NEW n \in Nat
    PROVE  /\ Range(FirstOf(q, n)) \subseteq S
           /\ Cardinality(S) <= n => Range(FirstOf(q, n)) = S
<1> DEFINE m == IF n < Len(q) THEN n ELSE Len(q)
           f == SubSeq(q, 1, m)
<1>1. Len(q) \in Nat /\ m \in Nat /\ m <= Len(q) /\ q \in Seq(S) /\ DOMAIN q = 1 .. Len(q)
  BY DEF Lists
<1>2. DOMAIN f = 1 .. m /\ \A k \in 1 .. m : f[k] = q[k]
  <2> HIDE DEF m
  <2> QED BY <1>1
<1>3. FirstOf(q, n) = f
  BY DEF FirstOf
<1> HIDE DEF f
<1>4. Range(FirstOf(q, n)) \subseteq S
  <2> HIDE DEF m
  <2> QED BY <1>1, <1>2, <1>3 DEF Range
<1>5. ASSUME Cardinality(S) <= n PROVE Range(f) = S
  <2>1. m = Len(q)
    BY <1>5, <1>1 DEF Lists
  <2>2. Range(f) = Range(q)
    BY <2>1, <1>1, <1>2 DEF Range
  <2> QED BY <2>2 DEF Lists
<1> QED BY <1>3, <1>4, <1>5
-----------------------------------------------------------------------------

(***************************************************************************)
(* The feed.                                                               *)
(***************************************************************************)

\* All that a section has for everybody, whether the feed has room for it or not.
Open(s) == IF SectionOpen(s, 0) THEN SeenBy(Under(s), 0) ELSE {}
Fed(s)  == {Entry(i) : i \in Open(s)}

Entries == [id : Nodes, date : 0 .. Never, edited : 0 .. Never, text : Texts]

StampOf(e) == IF e.edited >= e.date THEN e.edited ELSE e.date

\* It has the room.
Room(s) == Cardinality(Open(s)) <= FeedLimit

\* The feed takes no more than that, and all of it if it has the room.
LEMMA SectionIs ==
    ASSUME CatTypes, NEW s \in Sections
    PROVE  /\ SectionEntries(s) \subseteq Fed(s) /\ IsFiniteSet(SectionEntries(s))
           /\ Room(s) => SectionEntries(s) = Fed(s)
           /\ ~Crowded => Room(s)
<1> DEFINE V == SeenBy(Under(s), 0)
           F == FirstOf(Newest(V), FeedLimit)
<1>1. V \subseteq Rows /\ V = {i \in Under(s) : VisibleAs(i, 0)}
  BY DEF SeenBy, Under, Rows
<1>2. CASE ~SectionOpen(s, 0)
  <2>1. Open(s) = {} /\ SectionEntries(s) = {} /\ Fed(s) = {}
    BY <1>2 DEF SectionEntries, Fed, Open
  <2>2. Cardinality(Open(s)) = 0 /\ IsFiniteSet(SectionEntries(s))
    BY <2>1, FS_EmptySet
  <2> QED BY <2>1, <2>2, CatalogueAssumption DEF Room
<1>3. CASE SectionOpen(s, 0)
  <2>1. SectionEntries(s) = {Entry(i) : i \in Range(F)} /\ Fed(s) = {Entry(i) : i \in V}
    BY <1>3 DEF SectionEntries, Fed, Open
  <2>2. Lists(Newest(V), V) /\ FeedLimit \in Nat
    BY <1>1, NewestLists, CatalogueAssumption
  <2>3. Range(F) \subseteq V /\ (Cardinality(V) <= FeedLimit => Range(F) = V)
    <3> HIDE DEF V
    <3> QED BY <2>2, FirstOfLists
  <2>4. Cardinality(V) \in Nat /\ IsFiniteSet(Range(F))
    BY <1>1, <2>2, <2>3, RowsAre, FS_Subset DEF Lists
  <2>5. IsFiniteSet({Entry(i) : i \in Range(F)})
    <3> DEFINE R == Range(F)
               f == [i \in R |-> Entry(i)]
               E == {Entry(i) : i \in R}
    <3>1. f \in [R -> E] /\ \A e \in E : \E i \in R : f[i] = e
      <4> HIDE DEF R
      <4> QED OBVIOUS
    <3>2. f \in Surjection(R, E)
      <4> HIDE DEF R, f, E
      <4> QED BY <3>1 DEF Surjection
    <3>3. IsFiniteSet(E)
      <4> HIDE DEF f, E
      <4> QED BY <3>2, <2>4, FS_Surjection
    <3> QED BY <3>3
  <2>6. ~Crowded => Cardinality(V) <= FeedLimit
    BY <1>1, <2>4, CatalogueAssumption DEF Crowded, Sections
  <2>7. Room(s) <=> Cardinality(V) <= FeedLimit
    BY <1>3 DEF Room, Open
  <2> HIDE DEF V, F
  <2> QED BY <2>1, <2>3, <2>5, <2>6, <2>7
<1> QED BY <1>2, <1>3

\* Updated is the latest stamp.
LEMMA UpdatedIs ==
    ASSUME CatalogueAssumption, NEW E, E \subseteq Entries
    PROVE  /\ Updated(E) \in 0 .. Never
           /\ \A e \in E : StampOf(e) <= Updated(E)
           /\ Updated(E) = 0 \/ \E e \in E : Updated(E) = StampOf(e)
<1> DEFINE S == {0} \cup {Max({e.edited, e.date}) : e \in E}
<1>1. Never \in Nat
  BY DEF CatalogueAssumption, Never
<1>2. ASSUME NEW e \in E PROVE Max({e.edited, e.date}) = StampOf(e) /\ StampOf(e) \in 0 .. Never
  <2>1. e.edited \in 0 .. Never /\ e.date \in 0 .. Never
    BY DEF Entries
  <2>2. e.edited \in Nat /\ e.date \in Nat
    BY <2>1, <1>1
  <2>3. Max({e.edited, e.date}) \in {e.edited, e.date}
        /\ \A x \in {e.edited, e.date} : x <= Max({e.edited, e.date})
    <3> DEFINE P == {e.edited, e.date}
    <3>1. P \subseteq 0 .. Never /\ P # {}
      BY <2>1
    <3> HIDE DEF P
    <3>2. Max(P) \in P /\ \A x \in P : x <= Max(P)
      BY <1>1, <3>1, MaxOf
    <3> QED BY <3>2 DEF P
  <2> QED BY <2>1, <2>2, <2>3 DEF StampOf
<1>3. S \subseteq 0 .. Never /\ S # {} /\ \A e \in E : StampOf(e) \in S
  <2>1. 0 \in 0 .. Never
    BY <1>1
  <2> QED BY <1>2, <2>1
<1>4. \A x \in S : x = 0 \/ \E e \in E : x = StampOf(e)
  BY <1>2
<1>5. Updated(E) = Max(S)
  BY DEF Updated
<1> HIDE DEF S
<1>6. Max(S) \in S /\ \A x \in S : x <= Max(S)
  BY <1>1, <1>3, MaxOf
<1> QED BY <1>3, <1>4, <1>5, <1>6

(***************************************************************************)
(* What is collected or held was stamped before now, and in this second    *)
(* only if something is known to have changed in it; what has come since   *)
(* a copy was collected bears a later stamp.                               *)
(***************************************************************************)
Past(e) == /\ e.edited <= second /\ e.date <= second
           /\ second \in {e.edited, e.date} => busy

FeedTypes ==
    /\ fetch \in [todo : {<<>>, <<BlogPage, ProjectsPage>>, <<ProjectsPage>>},
                  got : SUBSET Entries, cond : {"none", "etag", "date"}, torn : BOOLEAN]
    /\ copy.entries \subseteq Entries /\ copy.etag = Etag(copy.entries)
    /\ IsFiniteSet(fetch.got) /\ IsFiniteSet(copy.entries)
    /\ busy \in BOOLEAN

Dated == /\ \A i \in PageIds : There(i) /\ second \in {rows[i].edited, rows[i].date} => busy
         /\ \A e \in fetch.got \cup copy.entries : Past(e)

Whole ==
    /\ fetch.todo # <<ProjectsPage>> => fetch.got = {}
    /\ fetch.todo = <<ProjectsPage>> /\ ~fetch.torn /\ Room(BlogPage) => fetch.got = Fed(BlogPage)
    /\ copy = NoCopy /\ fetch.todo # <<>> => fetch.cond = "none"

Newer ==
    copy # NoCopy /\ since = {} =>
      \A e \in fetch.got \cup Fed(BlogPage) \cup Fed(ProjectsPage) :
        e \in copy.entries \/ copy.etag[1] < StampOf(e)

FeedInv == CatTypes /\ FeedTypes /\ Dated /\ Whole /\ Newer

-----------------------------------------------------------------------------

LEMMA MinOf ==
    ASSUME NEW S, S \subseteq Nat, S # {}
    PROVE  Min(S) \in S /\ \A x \in S : Min(S) <= x
<1>1. \E m \in S : \A k \in S : m <= k
  BY LeastOf
<1> QED BY <1>1 DEF Min

\* What a row loses without being stamped: nothing, or itself, or its parent.
Lighter(new) ==
    /\ new \in [Nodes -> PageRow \cup {NoRow}]
    /\ \A i \in Specials : new[i] # NoRow /\ new[i].parent = Root
    /\ \A i \in Nodes : new[i] # NoRow =>
         /\ There(i) /\ new[i].gate = rows[i].gate /\ new[i].date = rows[i].date
         /\ new[i].edited = rows[i].edited /\ new[i].text = rows[i].text
         /\ \/ new[i].parent = Root
            \/ new[i].parent = rows[i].parent /\ new[new[i].parent] # NoRow
               /\ There(new[i].parent)

\* The row is written where it is, or a new one under a page that is there.
Placed(i, row) ==
    \/ There(i) /\ row.parent = rows[i].parent /\ unused' = unused
    \/ /\ i \in unused /\ unused' = unused \ {i} /\ \A k \in unused : i <= k
       /\ row.parent = Root \/ row.parent \in Rows

\* No id is above the ones to come, no page above its parent.
Rooted ==
    /\ \A i \in Nodes : There(i) => \/ rows[i].parent = Root
                                    \/ rows[i].parent \in Rows /\ rows[i].parent < i
    /\ \A i \in unused, j \in Nodes : There(j) => j < i

LEMMA CreateIs ==
    ASSUME CatTypes, NEW i \in PageIds, NEW p \in Nodes \cup {Root}, CreatePage(i, p)
    PROVE  \E row \in PageRow : Stamps(i, row) /\ Placed(i, row)
<1> DEFINE row == NewNode(p, IF p = Root THEN 0 ELSE rows[p].gate)
<1>1. row \in PageRow /\ row.parent = p
  <2>1. (IF p = Root THEN 0 ELSE rows[p].gate) \in Ladder
    <3>1. CASE p = Root
      BY <3>1, CatalogueAssumption DEF Ladder
    <3>2. CASE p # Root
      <4>1. p \in Rows
        BY <3>2 DEF CreatePage, Rows
      <4> QED BY <3>2, <4>1, RowsAre DEF PageRow
    <3> QED BY <3>1, <3>2
  <2>2. second \in 0 .. Never /\ 0 \in Nat /\ "plain" \in Texts
    BY CatalogueAssumption DEF CatTypes, Never
  <2> QED BY <2>1, <2>2 DEF NewNode, PageRow
<1>2. p = Root \/ p \in Rows
  BY DEF CreatePage, Rows
<1>3. i \in unused /\ \A k \in unused : i <= k
  <2>1. unused \subseteq Nat /\ unused # {}
    BY CatalogueAssumption DEF CreatePage, CatTypes
  <2>2. Min(unused) \in unused /\ \A k \in unused : Min(unused) <= k
    BY <2>1, MinOf
  <2> QED BY <2>2 DEF CreatePage
<1>4. Stamps(i, row) /\ unused' = unused \ {i}
  BY DEF CreatePage
<1> HIDE DEF row
<1> QED BY <1>1, <1>2, <1>3, <1>4 DEF Placed

LEMMA UpdateIs ==
    ASSUME CatTypes, NEW i \in Nodes, UpdatePage(i) \/ SetDateOf(i)
    PROVE  \E row \in PageRow : Stamps(i, row) /\ Placed(i, row)
<1>1. There(i) /\ unused' = unused /\ rows[i] \in PageRow
  BY RowsAre DEF UpdatePage, SetDateOf, Rows
<1>2. second \in 0 .. Never /\ second + 1 \in 0 .. Never /\ Never \in 0 .. Never /\ 0 \in 0 .. Never
  BY CatalogueAssumption DEF CatTypes, Never
<1>3. ASSUME NEW g \in Ladder PROVE [rows[i] EXCEPT !.gate = g] \in PageRow
                                    /\ [rows[i] EXCEPT !.gate = g].parent = rows[i].parent
  BY <1>1 DEF PageRow
<1>4. ASSUME NEW d \in 0 .. Never PROVE [rows[i] EXCEPT !.date = d] \in PageRow
                                    /\ [rows[i] EXCEPT !.date = d].parent = rows[i].parent
  BY <1>1 DEF PageRow
<1>5. ASSUME NEW t \in Texts PROVE [rows[i] EXCEPT !.text = t] \in PageRow
                                    /\ [rows[i] EXCEPT !.text = t].parent = rows[i].parent
  BY <1>1 DEF PageRow
<1>6. \/ \E g \in Ladder : Stamps(i, [rows[i] EXCEPT !.gate = g])
      \/ \E d \in 0 .. Never : Stamps(i, [rows[i] EXCEPT !.date = d])
      \/ \E t \in Texts : Stamps(i, [rows[i] EXCEPT !.text = t])
  <2>1. CASE UpdatePage(i)
    BY <2>1, <1>2 DEF UpdatePage
  <2>2. CASE SetDateOf(i)
    BY <2>2, <1>2 DEF SetDateOf
  <2> QED BY <2>1, <2>2
<1> QED BY <1>1, <1>3, <1>4, <1>5, <1>6 DEF Placed

LEMMA PinIs ==
    ASSUME CatTypes, Rooted, NEW i \in Nodes, PinPage(i)
    PROVE  \E new : Silent(new) /\ Lighter(new)
<1> DEFINE new == [rows EXCEPT ![i].pinned = ~@]
<1>1. There(i) /\ rows[i] \in PageRow /\ rows \in [Nodes -> PageRow \cup {NoRow}] /\ Silent(new)
  BY RowsAre DEF PinPage, Rows, CatTypes
<1>2. PICK row : row = [rows[i] EXCEPT !.pinned = ~@]
  OBVIOUS
<1>3. /\ row \in PageRow /\ row.parent = rows[i].parent /\ row.gate = rows[i].gate
      /\ row.date = rows[i].date /\ row.edited = rows[i].edited /\ row.text = rows[i].text
  BY <1>1, <1>2 DEF PageRow
<1>4. new = [rows EXCEPT ![i] = row]
  BY <1>2
<1>5. row # NoRow
  BY <1>3, CatalogueAssumption
<1>6. new \in [Nodes -> PageRow \cup {NoRow}]
  BY <1>1, <1>3, <1>4
<1>7. new[i] = row /\ \A j \in Nodes \ {i} : new[j] = rows[j]
  BY <1>1, <1>4
<1> HIDE DEF new
<1>8. \A j \in Nodes : (new[j] # NoRow <=> There(j)) /\
        (There(j) => /\ new[j].parent = rows[j].parent /\ new[j].gate = rows[j].gate
                     /\ new[j].date = rows[j].date /\ new[j].edited = rows[j].edited
                     /\ new[j].text = rows[j].text)
  BY <1>1, <1>3, <1>5, <1>7 DEF There
<1>9. \A j \in Specials : j \in Nodes /\ There(j) /\ rows[j].parent = Root
  BY DEF CatTypes, Nodes
<1>10. \A j \in Nodes : There(j) =>
         rows[j].parent = Root \/ (rows[j].parent \in Nodes /\ There(rows[j].parent))
  BY DEF Rooted, Rows
<1>11. Lighter(new)
  BY <1>6, <1>8, <1>9, <1>10 DEF Lighter
<1> QED BY <1>1, <1>11

\* Where an element stands in a list that has it.
LEMMA PlaceIn ==
    ASSUME NEW S, NEW q \in Seq(S), NEW x \in Range(q)
    PROVE  (CHOOSE m \in DOMAIN q : q[m] = x) - 1 \in Nat
<1>1. DOMAIN q = 1 .. Len(q) /\ Len(q) \in Nat
  OBVIOUS
<1>2. \E m \in DOMAIN q : q[m] = x
  BY DEF Range
<1>3. (CHOOSE m \in DOMAIN q : q[m] = x) \in DOMAIN q
  BY <1>2
<1> QED BY <1>1, <1>3

LEMMA ReorderIs ==
    ASSUME CatTypes, Rooted, NEW i \in Nodes, ReorderPages(i)
    PROVE  \E new : Silent(new) /\ Lighter(new)
<1> DEFINE rest == InOrder(Under(rows[i].parent) \ {i})
<1>1. rest \in Seq(Nodes)
  <2> DEFINE S == Under(rows[i].parent) \ {i}
  <2>1. S \subseteq Rows
    BY DEF Under, Rows
  <2>2. Lists(InOrder(S), S)
    <3> HIDE DEF S
    <3> QED BY <2>1, InOrderLists
  <2> QED BY <2>1, <2>2 DEF Lists, Rows
<1>2. PICK q \in {<<i>> \o rest, Append(rest, i)} :
        Silent([j \in Nodes |-> IF j \in Range(q)
                                THEN [rows[j] EXCEPT !.order =
                                        (CHOOSE m \in DOMAIN q : q[m] = j) - 1]
                                ELSE rows[j]])
  BY DEF ReorderPages
<1>3. q \in Seq(Nodes)
  <2> HIDE DEF rest
  <2>1. <<i>> \in Seq(Nodes)
    OBVIOUS
  <2>2. <<i>> \o rest \in Seq(Nodes)
    BY <1>1, <2>1
  <2>3. Append(rest, i) \in Seq(Nodes)
    BY <1>1
  <2> QED BY <1>2, <2>2, <2>3
<1>4. PICK new : new = [j \in Nodes |-> IF j \in Range(q)
                                THEN [rows[j] EXCEPT !.order =
                                        (CHOOSE m \in DOMAIN q : q[m] = j) - 1]
                                ELSE rows[j]]
  OBVIOUS
<1>5. Silent(new)
  BY <1>2, <1>4
<1>6. \A j \in Range(q) : There(j)
  <2>1. Range(rest) \subseteq Rows
    <3> DEFINE S == Under(rows[i].parent) \ {i}
    <3>1. S \subseteq Rows
      BY DEF Under, Rows
    <3>2. Lists(InOrder(S), S)
      <4> HIDE DEF S
      <4> QED BY <3>1, InOrderLists
    <3> QED BY <3>1, <3>2 DEF Lists
  <2>2. There(i)
    BY DEF ReorderPages
  <2>3. Range(q) \subseteq Range(rest) \cup {i}
    <3> HIDE DEF rest
    <3>1. CASE q = <<i>> \o rest
      <4>1. \A n \in DOMAIN q : q[n] = i \/ (n - 1 \in DOMAIN rest /\ q[n] = rest[n - 1])
        BY <1>1, <3>1
      <4> QED BY <4>1 DEF Range
    <3>2. CASE q = Append(rest, i)
      <4>1. \A n \in DOMAIN q : q[n] = i \/ (n \in DOMAIN rest /\ q[n] = rest[n])
        BY <1>1, <3>2
      <4> QED BY <4>1 DEF Range
    <3> QED BY <3>1, <3>2
  <2> QED BY <2>1, <2>2, <2>3 DEF Rows
<1>7. ASSUME NEW j \in Nodes
      PROVE  /\ new[j] # NoRow <=> There(j)
             /\ new[j] \in PageRow \cup {NoRow}
             /\ There(j) => /\ new[j].parent = rows[j].parent /\ new[j].gate = rows[j].gate
                            /\ new[j].date = rows[j].date /\ new[j].edited = rows[j].edited
                            /\ new[j].text = rows[j].text
  <2>1. CASE j \notin Range(q)
    BY <2>1, <1>4 DEF CatTypes, There
  <2>2. CASE j \in Range(q)
    <3>1. There(j) /\ rows[j] \in PageRow
      BY <2>2, <1>6, RowsAre DEF Rows
    <3>2. PICK n \in Nat : n = (CHOOSE m \in DOMAIN q : q[m] = j) - 1
      BY <2>2, <1>3, PlaceIn
    <3>3. new[j] = [rows[j] EXCEPT !.order = n]
      BY <2>2, <1>4, <3>2
    <3>4. /\ new[j] \in PageRow /\ new[j].parent = rows[j].parent /\ new[j].gate = rows[j].gate
          /\ new[j].date = rows[j].date /\ new[j].edited = rows[j].edited
          /\ new[j].text = rows[j].text
      BY <3>1, <3>3 DEF PageRow
    <3>5. new[j] # NoRow
      BY <3>4, CatalogueAssumption
    <3> QED BY <3>1, <3>4, <3>5
  <2> QED BY <2>1, <2>2
<1>8. new \in [Nodes -> PageRow \cup {NoRow}]
  BY <1>4, <1>7
<1>9. \A j \in Specials : j \in Nodes /\ There(j) /\ rows[j].parent = Root
  BY DEF CatTypes, Nodes
<1>10. \A j \in Nodes : There(j) =>
         rows[j].parent = Root \/ (rows[j].parent \in Nodes /\ There(rows[j].parent))
  BY DEF Rooted, Rows
<1>11. Lighter(new)
  BY <1>7, <1>8, <1>9, <1>10 DEF Lighter
<1> QED BY <1>5, <1>11

LEMMA DeleteIs ==
    ASSUME CatTypes, Rooted, NEW i \in Nodes, DeletePage(i)
    PROVE  \E new : Silent(new) /\ Lighter(new)
<1>1. PICK new : new = [j \in Nodes |-> IF j = i THEN NoRow
                                 ELSE IF j \in Under(i) THEN [rows[j] EXCEPT !.parent = Root]
                                 ELSE rows[j]]
  OBVIOUS
<1>2. Silent(new) /\ i \in PageIds /\ i \notin Specials
  BY <1>1, CatalogueAssumption DEF DeletePage, Specials
<1>3. ASSUME NEW j \in Nodes
      PROVE  /\ new[j] # NoRow <=> There(j) /\ j # i
             /\ new[j] \in PageRow \cup {NoRow}
             /\ There(j) /\ j # i =>
                  /\ new[j].gate = rows[j].gate
                  /\ new[j].date = rows[j].date /\ new[j].edited = rows[j].edited
                  /\ new[j].text = rows[j].text
                  /\ new[j].parent = IF rows[j].parent = i THEN Root ELSE rows[j].parent
  <2>1. CASE j = i
    BY <2>1, <1>1
  <2>2. CASE j # i /\ ~(There(j) /\ rows[j].parent = i)
    BY <2>2, <1>1 DEF CatTypes, There, Under
  <2>3. CASE j # i /\ There(j) /\ rows[j].parent = i
    <3>1. rows[j] \in PageRow
      BY <2>3, RowsAre DEF Rows
    <3>2. new[j] = [rows[j] EXCEPT !.parent = Root]
      BY <2>3, <1>1 DEF Under
    <3>3. /\ new[j] \in PageRow /\ new[j].parent = Root /\ new[j].gate = rows[j].gate
          /\ new[j].date = rows[j].date /\ new[j].edited = rows[j].edited
          /\ new[j].text = rows[j].text
      BY <3>1, <3>2 DEF PageRow
    <3>4. new[j] # NoRow
      BY <3>3, CatalogueAssumption
    <3> QED BY <2>3, <3>3, <3>4
  <2> QED BY <2>1, <2>2, <2>3
<1>4. new \in [Nodes -> PageRow \cup {NoRow}]
  BY <1>1, <1>3
<1>5. \A j \in Specials : j \in Nodes /\ There(j) /\ rows[j].parent = Root /\ j # i
  BY <1>2 DEF CatTypes, Nodes
<1>6. \A j \in Nodes : There(j) =>
         rows[j].parent = Root \/ (rows[j].parent \in Nodes /\ There(rows[j].parent))
  BY DEF Rooted, Rows
<1>7. i # Root
  BY <1>2, CatalogueAssumption DEF Root
<1>8. \A j \in Specials : new[j] # NoRow /\ new[j].parent = Root
  BY <1>3, <1>5, <1>7
<1>9. ASSUME NEW j \in Nodes, new[j] # NoRow
      PROVE  new[j].parent = Root \/ (/\ new[j].parent = rows[j].parent
                                      /\ new[new[j].parent] # NoRow /\ There(new[j].parent))
  BY <1>3, <1>6, <1>9
<1>10. Lighter(new)
  BY <1>3, <1>4, <1>8, <1>9 DEF Lighter
<1> QED BY <1>2, <1>10

\* What a step does to the rows.
LEMMA StepsAre ==
    ASSUME CatTypes, Rooted, [CatalogueNext]_catalogueVars
    PROVE  \/ \E i \in Nodes, row \in PageRow : Stamps(i, row) /\ Placed(i, row)
           \/ \E new : Silent(new) /\ Lighter(new)
           \/ NextSecond
           \/ (\E cond \in {"none", "etag", "date"} : AskFeed(cond)) \/ ReadSection \/ AnswerFeed
           \/ UNCHANGED catalogueVars
<1>1. ASSUME NEW i \in PageIds, NEW p \in Nodes \cup {Root}, CreatePage(i, p)
      PROVE  \E j \in Nodes, row \in PageRow : Stamps(j, row) /\ Placed(j, row)
  BY <1>1, CreateIs DEF Nodes
<1>2. ASSUME NEW i \in Nodes, UpdatePage(i) \/ SetDateOf(i)
      PROVE  \E j \in Nodes, row \in PageRow : Stamps(j, row) /\ Placed(j, row)
  BY <1>2, UpdateIs
<1>3. ASSUME NEW i \in Nodes, PinPage(i) \/ ReorderPages(i) \/ DeletePage(i)
      PROVE  \E new : Silent(new) /\ Lighter(new)
  BY <1>3, PinIs, ReorderIs, DeleteIs
<1> QED BY <1>1, <1>2, <1>3 DEF CatalogueNext

LEMMA StampLeaves ==
    ASSUME CatTypes, NEW i \in Nodes, NEW row \in PageRow, Stamps(i, row)
    PROVE  /\ rows' \in [Nodes -> PageRow \cup {NoRow}]
           /\ There(i)' /\ rows'[i] \in PageRow /\ rows'[i].parent = row.parent
           /\ rows'[i].edited = second
           /\ \A j \in Nodes \ {i} : rows'[j] = rows[j]
<1>1. PICK new : new = [row EXCEPT !.edited = second]
  OBVIOUS
<1>2. second \in 0 .. Never
  BY CatalogueAssumption DEF CatTypes, Never
<1>3. new \in PageRow /\ new.parent = row.parent /\ new.edited = second
  BY <1>1, <1>2 DEF PageRow
<1>4. rows' = [rows EXCEPT ![i] = new] /\ rows \in [Nodes -> PageRow \cup {NoRow}]
  BY <1>1 DEF Stamps, CatTypes
<1>5. new # NoRow
  BY <1>3, CatalogueAssumption
<1> QED BY <1>3, <1>4, <1>5 DEF There

Aged == \A i \in Nodes : There(i) => rows[i].edited = 0 /\ rows[i].date = 0

LEMMA RootedInit == CatalogueInit => CatTypes /\ Rooted /\ Aged
<1> SUFFICES ASSUME CatalogueInit PROVE CatTypes /\ Rooted /\ Aged
  OBVIOUS
<1>1. PICK old : old = [NewNode(Root, 0) EXCEPT !.date = 0, !.edited = 0]
  OBVIOUS
<1>2. second = 1 /\ 1 \in 0 .. Never /\ 0 \in 0 .. Never /\ 1 \in 1 .. LastSecond
  BY CatalogueAssumption DEF CatalogueInit, Never
<1>3. /\ old \in PageRow /\ old.parent = Root /\ old.date = 0 /\ old.edited = 0
  <2>1. PICK fresh : fresh = NewNode(Root, 0)
    OBVIOUS
  <2>2. fresh \in PageRow /\ fresh.parent = Root
    BY <1>2, <2>1, CatalogueAssumption DEF NewNode, PageRow, Ladder
  <2>3. old = [fresh EXCEPT !.date = 0, !.edited = 0]
    BY <1>1, <2>1
  <2> QED BY <1>2, <2>2, <2>3 DEF PageRow
<1>4. PICK o1 : o1 = Min(PageIds)
  OBVIOUS
<1>5. PICK o2 : o2 = Min(PageIds \ {o1})
  OBVIOUS
<1>6. /\ PageIds \subseteq Nat /\ PageIds # {} /\ PageIds \ {o1} # {}
      /\ \A k \in PageIds : k \notin Specials /\ k # Root /\ k > 5
  BY CatalogueAssumption DEF Specials, Root
<1>7. o1 \in PageIds /\ \A k \in PageIds : o1 <= k
  BY <1>4, <1>6, MinOf
<1>8. o2 \in PageIds \ {o1} /\ \A k \in PageIds \ {o1} : o2 <= k
  BY <1>5, <1>6, MinOf
<1>9. PICK p \in Specials \cup {Root, o1} :
        /\ rows = [i \in Nodes |->
                          CASE i = LibraryPage -> [old EXCEPT !.gate = TopRank - 1]
                            [] i = o1 -> [old EXCEPT !.parent = BlogPage]
                            [] i = o2 -> [old EXCEPT !.parent = p]
                            [] i \in Specials \ {LibraryPage} -> old
                            [] OTHER -> NoRow]
        /\ unused = PageIds \ {o1, o2}
  BY <1>1, <1>4, <1>5 DEF CatalogueInit
<1>10. PICK lib, b1, b2 : /\ lib = [old EXCEPT !.gate = TopRank - 1]
                          /\ b1 = [old EXCEPT !.parent = BlogPage]
                          /\ b2 = [old EXCEPT !.parent = p]
  OBVIOUS
<1>11. TopRank - 1 \in Ladder /\ BlogPage \in Nodes /\ p \in Nodes \cup {Root}
       /\ LibraryPage \in Specials /\ BlogPage \in Specials /\ Specials \subseteq Nodes
  BY <1>7, CatalogueAssumption DEF Ladder, BlogPage, LibraryPage, Nodes, Specials
<1>12. /\ lib \in PageRow /\ lib.parent = Root /\ lib.edited = 0 /\ lib.date = 0
       /\ b1 \in PageRow /\ b1.parent = BlogPage /\ b1.edited = 0 /\ b1.date = 0
       /\ b2 \in PageRow /\ b2.parent = p /\ b2.edited = 0 /\ b2.date = 0
  BY <1>3, <1>10, <1>11 DEF PageRow
<1>13. NoRow \notin PageRow
  BY CatalogueAssumption
<1>14. /\ rows[LibraryPage] = lib /\ rows[o1] = b1 /\ rows[o2] = b2
       /\ \A i \in Specials \ {LibraryPage} : rows[i] = old
       /\ \A i \in Nodes \ (Specials \cup {o1, o2}) : rows[i] = NoRow
  <2>1. /\ o1 # LibraryPage /\ o2 # LibraryPage /\ o2 # o1 /\ o1 \in Nodes /\ o2 \in Nodes
        /\ o1 \notin Specials /\ o2 \notin Specials
    BY <1>6, <1>7, <1>8, <1>11 DEF Nodes
  <2>2. rows[LibraryPage] = lib
    <3>1. LibraryPage \in Nodes
      BY <1>11
    <3>2. rows[LibraryPage] = [old EXCEPT !.gate = TopRank - 1]
      BY <1>9, <1>11, <2>1, <3>1
    <3> QED BY <1>10, <3>2
  <2>3. rows[o1] = b1
    BY <1>9, <1>10, <2>1
  <2>4. rows[o2] = b2
    BY <1>9, <1>10, <2>1
  <2>5. ASSUME NEW i \in Specials \ {LibraryPage} PROVE rows[i] = old
    BY <1>9, <1>11, <2>1
  <2>6. ASSUME NEW i \in Nodes \ (Specials \cup {o1, o2}) PROVE rows[i] = NoRow
    BY <1>9, <1>11
  <2> QED BY <2>2, <2>3, <2>4, <2>5, <2>6
<1>15. \A i \in Nodes : i = LibraryPage \/ i = o1 \/ i = o2 \/ i \in Specials \ {LibraryPage}
                        \/ i \in Nodes \ (Specials \cup {o1, o2})
  OBVIOUS
<1>16. \A i \in Nodes : rows[i] \in PageRow \cup {NoRow}
  BY <1>3, <1>12, <1>14, <1>15
<1>17. rows \in [Nodes -> PageRow \cup {NoRow}]
  <2>1. rows = [i \in Nodes |-> rows[i]]
    BY <1>9
  <2> QED BY <1>16, <2>1
<1>18. \A i \in Nodes : There(i) <=> i \in Specials \cup {o1, o2}
  BY <1>3, <1>7, <1>8, <1>11, <1>12, <1>13, <1>14, <1>15 DEF There, Nodes
<1>19. CatTypes
  <2>1. \A i \in Specials : There(i) /\ rows[i].parent = Root
    BY <1>3, <1>11, <1>12, <1>14, <1>18
  <2>2. \A i \in Nodes : There(i) => rows[i].edited <= second
    BY <1>2, <1>3, <1>12, <1>14, <1>18
  <2> QED BY <1>2, <1>9, <1>17, <2>1, <2>2 DEF CatTypes
<1>20. BlogPage < o1 /\ (p = Root \/ p < o2) /\ (p = Root \/ p \in Rows) /\ BlogPage \in Rows
  <2>1. p \in Specials => p < o2
    BY <1>6, <1>8 DEF Specials
  <2>2. o1 < o2
    BY <1>6, <1>7, <1>8
  <2>3. BlogPage < o1
    BY <1>6, <1>7 DEF BlogPage
  <2>4. p \in Specials => p \in Rows
    BY <1>11, <1>18 DEF Rows
  <2> QED BY <2>1, <2>2, <2>3, <2>4, <1>7, <1>11, <1>18 DEF Rows, Nodes
<1>21. Rooted
  <2>1. \A i \in Nodes : There(i) => \/ rows[i].parent = Root
                                     \/ rows[i].parent \in Rows /\ rows[i].parent < i
    BY <1>3, <1>12, <1>14, <1>18, <1>20
  <2>2. ASSUME NEW i \in unused, NEW j \in Nodes, There(j) PROVE j < i
    <3>1. i \in PageIds /\ o1 <= i /\ o2 <= i /\ i # o1 /\ i # o2 /\ i > 5 /\ i \in Nat
          /\ o1 \in Nat /\ o2 \in Nat
      BY <1>6, <1>7, <1>8, <1>9
    <3>2. CASE j \in Specials
      BY <3>1, <3>2 DEF Specials
    <3>3. CASE j \in {o1, o2}
      BY <3>1, <3>3
    <3> QED BY <2>2, <3>2, <3>3, <1>18
  <2> QED BY <2>1, <2>2 DEF Rooted
<1>22. Aged
  BY <1>3, <1>12, <1>14, <1>18 DEF Aged
<1> QED BY <1>19, <1>21, <1>22

LEMMA RootedStep == CatTypes /\ Rooted /\ [CatalogueNext]_catalogueVars => CatTypes' /\ Rooted'
<1> SUFFICES ASSUME CatTypes, Rooted, [CatalogueNext]_catalogueVars PROVE CatTypes' /\ Rooted'
  OBVIOUS
<1>0. /\ IsFiniteSet(Nodes) /\ Nodes \subseteq Nat /\ Root \notin Nodes
      /\ Specials \subseteq Nodes /\ PageIds \subseteq Nodes
      /\ Specials \cap PageIds = {} /\ NoRow \notin PageRow /\ second \in 1 .. LastSecond
  BY RowsAre, CatalogueAssumption DEF Specials, CatTypes
<1>1. ASSUME NEW i \in Nodes, NEW row \in PageRow, Stamps(i, row), Placed(i, row)
      PROVE  CatTypes' /\ Rooted'
  <2>1. /\ rows' \in [Nodes -> PageRow \cup {NoRow}]
        /\ There(i)' /\ rows'[i] \in PageRow /\ rows'[i].parent = row.parent
        /\ rows'[i].edited = second
        /\ \A j \in Nodes \ {i} : rows'[j] = rows[j]
    BY <1>1, StampLeaves
  <2>2. second' = second
    BY <1>1 DEF Stamps, Edit
  <2>3. unused' \subseteq unused
    BY <1>1 DEF Placed
  <2>4. \A j \in Specials : There(j)' /\ rows'[j].parent = Root
    <3> SUFFICES ASSUME NEW j \in Specials PROVE There(j)' /\ rows'[j].parent = Root
      OBVIOUS
    <3>1. j \in Nodes /\ There(j) /\ rows[j].parent = Root
      BY <1>0 DEF CatTypes
    <3>2. CASE j = i
      <4>1. i \notin unused
        BY <3>2, <1>0 DEF CatTypes
      <4>2. row.parent = Root
        BY <4>1, <3>1, <3>2, <1>1 DEF Placed
      <4> QED BY <2>1, <3>2, <4>2
    <3>3. CASE j # i
      BY <2>1, <3>1, <3>3 DEF There
    <3> QED BY <3>2, <3>3
  <2>5. \A j \in Nodes : There(j)' => rows'[j].edited <= second'
    BY <1>0, <2>1, <2>2 DEF CatTypes, There
  <2>6. CatTypes'
    BY <2>1, <2>2, <2>3, <2>4, <2>5 DEF CatTypes
  <2>7. Rows \subseteq Rows'
    BY <2>1 DEF Rows, There
  <2>8. \A j \in Nodes : There(j)' => There(j) \/ j = i
    BY <2>1 DEF There
  <2>9. ASSUME NEW j \in Nodes, There(j)'
        PROVE  rows'[j].parent = Root \/ (rows'[j].parent \in Rows' /\ rows'[j].parent < j)
    <3>1. CASE j # i
      BY <2>1, <2>7, <2>8, <2>9, <3>1 DEF Rooted
    <3>2. CASE j = i /\ There(i) /\ row.parent = rows[i].parent
      BY <2>1, <2>7, <3>2 DEF Rooted
    <3>3. CASE j = i /\ i \in unused /\ (row.parent = Root \/ row.parent \in Rows)
      <4>1. row.parent \in Rows => row.parent < i
        BY <3>3 DEF Rooted, Rows
      <4> QED BY <2>1, <2>7, <3>3, <4>1
    <3> QED BY <1>1, <3>1, <3>2, <3>3 DEF Placed
  <2>10. ASSUME NEW k \in unused', NEW j \in Nodes, There(j)' PROVE j < k
    <3>1. CASE There(j)
      BY <2>3, <3>1 DEF Rooted
    <3>2. CASE j = i /\ ~There(i)
      <4>1. i \in unused /\ unused' = unused \ {i} /\ \A m \in unused : i <= m
        BY <1>1, <3>2 DEF Placed
      <4>2. i <= k /\ i # k /\ i \in Nat /\ k \in Nat
        BY <4>1, <1>0 DEF CatTypes
      <4> QED BY <3>2, <4>2
    <3> QED BY <2>8, <2>10, <3>1, <3>2
  <2> QED BY <2>6, <2>9, <2>10 DEF Rooted
<1>2. ASSUME NEW new, Silent(new), Lighter(new) PROVE CatTypes' /\ Rooted'
  <2>1. rows' = new /\ second' = second /\ unused' = unused
    BY <1>2 DEF Silent, Edit
  <2>2. \A j \in Nodes : There(j)' => /\ There(j) /\ rows'[j].edited = rows[j].edited
                            /\ \/ rows'[j].parent = Root
                               \/ /\ rows'[j].parent = rows[j].parent
                                  /\ rows'[rows'[j].parent] # NoRow
    BY <1>2, <2>1 DEF Lighter, There
  <2>3. CatTypes'
    BY <1>0, <1>2, <2>1, <2>2 DEF CatTypes, Lighter, There
  <2>4. Rooted'
    <3>1. ASSUME NEW j \in Nodes, There(j)'
          PROVE  rows'[j].parent = Root \/ (rows'[j].parent \in Rows' /\ rows'[j].parent < j)
      <4>1. CASE rows'[j].parent # Root
        <5>1. There(j) /\ rows'[j].parent = rows[j].parent /\ rows'[rows[j].parent] # NoRow
          BY <2>2, <3>1, <4>1
        <5>2. rows[j].parent \in Nodes /\ rows[j].parent < j
          BY <4>1, <5>1 DEF Rooted, Rows
        <5> QED BY <5>1, <5>2 DEF Rows, There
      <4> QED BY <4>1
    <3>2. \A k \in unused', j \in Nodes : There(j)' => j < k
      BY <2>1, <2>2 DEF Rooted
    <3> QED BY <3>1, <3>2 DEF Rooted
  <2> QED BY <2>3, <2>4
<1>3. ASSUME rows' = rows, unused' = unused, second' \in second .. LastSecond
      PROVE  CatTypes' /\ Rooted'
  <2>1. second <= second' /\ second' \in 1 .. LastSecond
    BY <1>0, <1>3, CatalogueAssumption
  <2>2. \A j \in Nodes : There(j)' => rows'[j].edited <= second'
    <3> SUFFICES ASSUME NEW j \in Nodes, There(j) PROVE rows[j].edited <= second'
      BY <1>3 DEF There
    <3>1. rows[j].edited <= second
      BY DEF CatTypes
    <3>2. rows[j].edited \in 0 .. Never
      BY RowsAre DEF Rows, PageRow
    <3>3. rows[j].edited \in Nat /\ second \in Nat /\ second' \in Nat
      BY <2>1, <1>0, <3>2, CatalogueAssumption DEF Never
    <3> QED BY <2>1, <3>1, <3>3
  <2> QED BY <1>3, <2>1, <2>2 DEF CatTypes, Rooted, Rows, There
<1>4. ASSUME NextSecond PROVE CatTypes' /\ Rooted'
  BY <1>0, <1>3, <1>4, CatalogueAssumption DEF NextSecond
<1>5. ASSUME UNCHANGED <<rows, unused, second>> PROVE CatTypes' /\ Rooted'
  BY <1>0, <1>3, <1>5, CatalogueAssumption
<1>6. ASSUME (\E cond \in {"none", "etag", "date"} : AskFeed(cond)) \/ ReadSection \/ AnswerFeed
             \/ UNCHANGED catalogueVars
      PROVE  UNCHANGED <<rows, unused, second>>
  BY <1>6 DEF AskFeed, ReadSection, AnswerFeed, catalogueVars
<1> QED BY <1>1, <1>2, <1>4, <1>5, <1>6, StepsAre

-----------------------------------------------------------------------------

LEMMA OpenIs ==
    ASSUME CatTypes, NEW s \in Sections
    PROVE  /\ s \in Specials /\ s # Root /\ Open(s) \subseteq Rows \cap PageIds
           /\ Open(s) = {i \in PageIds : /\ There(i) /\ rows[i].parent = s
                                         /\ rows[i].date <= second /\ rows[i].gate <= 0
                                         /\ rows[s].gate <= 0}
<1>1. s \in Specials /\ s # Root /\ There(s) /\ Nodes = Specials \cup PageIds
  BY DEF Sections, BlogPage, ProjectsPage, Specials, Root, CatTypes, Nodes
<1>2. TopRank # 0
  BY CatalogueAssumption
<1>3. \A i \in Nodes : There(i) /\ rows[i].parent = s => i \in PageIds /\ i \notin Specials
  BY <1>1 DEF CatTypes
<1>4. second \in Nat /\ \A i \in Rows : rows[i].date \in Nat
  <2>1. second \in Nat
    BY CatalogueAssumption DEF CatTypes
  <2> QED BY <2>1, RowsAre
<1>5. SectionOpen(s, 0) <=> rows[s].gate <= 0
  BY <1>1 DEF SectionOpen, VisibleAs
<1>6. \A i \in PageIds : There(i) => (~Scheduled(i) <=> rows[i].date <= second)
  BY <1>1, <1>4 DEF Scheduled, Rows
<1>7. Open(s) = {i \in PageIds : /\ There(i) /\ rows[i].parent = s
                                 /\ rows[i].date <= second /\ rows[i].gate <= 0
                                 /\ rows[s].gate <= 0}
  BY <1>1, <1>2, <1>3, <1>5, <1>6 DEF Open, SeenBy, Under, VisibleAs
<1> QED BY <1>1, <1>7 DEF Rows

LEMMA FedIs ==
    ASSUME CatTypes, Dated, NEW s \in Sections
    PROVE  Fed(s) \subseteq Entries /\ \A e \in Fed(s) : Past(e)
<1> SUFFICES ASSUME NEW i \in Open(s) PROVE Entry(i) \in Entries /\ Past(Entry(i))
  BY DEF Fed
<1>1. i \in Rows /\ i \in PageIds /\ rows[i].date <= second
  BY OpenIs
<1>2. rows[i] \in PageRow
  BY <1>1, RowsAre
<1>3. Entry(i) \in Entries
  BY <1>1, <1>2 DEF Entry, Entries, PageRow, Rows
<1>4. rows[i].edited <= second /\ (second \in {rows[i].edited, rows[i].date} => busy)
  BY <1>1 DEF CatTypes, Dated, Rows
<1> QED BY <1>1, <1>3, <1>4 DEF Past, Entry

FedWell == \A s \in Sections : Fed(s) \subseteq Entries

LEMMA FedThen == CatTypes' /\ Dated' => FedWell'
<1>1. CatTypes /\ Dated => FedWell
  BY FedIs DEF FedWell
<1> QED BY <1>1, PTL

\* A stamp is at most now, and in this second only if it was busy.
LEMMA StampIs ==
    ASSUME CatTypes, NEW e \in Entries, Past(e)
    PROVE  StampOf(e) \in Nat /\ StampOf(e) <= second /\ (StampOf(e) = second => busy)
<1>1. e.edited \in Nat /\ e.date \in Nat
  BY CatalogueAssumption DEF Entries, Never
<1> QED BY <1>1 DEF StampOf, Past

LEMMA CollectedIs ==
    ASSUME CatTypes, FeedTypes, Dated, fetch.todo # <<>>
    PROVE  /\ Collected \subseteq Entries /\ IsFiniteSet(Collected) /\ \A e \in Collected : Past(e)
           /\ Collected \subseteq fetch.got \cup Fed(BlogPage) \cup Fed(ProjectsPage)
<1>1. PICK s \in Sections : s = Head(fetch.todo)
  BY DEF FeedTypes, Sections
<1>2. /\ SectionEntries(s) \subseteq Fed(s) /\ IsFiniteSet(SectionEntries(s))
      /\ Fed(s) \subseteq Entries /\ \A e \in Fed(s) : Past(e)
  BY SectionIs, FedIs
<1>3. Collected = fetch.got \cup SectionEntries(s)
  BY <1>1 DEF Collected
<1>4. fetch.got \subseteq Entries /\ IsFiniteSet(fetch.got) /\ \A e \in fetch.got : Past(e)
  BY DEF FeedTypes, Dated
<1>5. IsFiniteSet(Collected)
  BY <1>2, <1>3, <1>4, FS_Union
<1> QED BY <1>2, <1>3, <1>4, <1>5 DEF Sections

Public(s) == Open(s) = {i \in PageIds : /\ There(i) /\ rows[i].parent = s
                                        /\ rows[i].date <= second /\ rows[i].gate <= 0
                                        /\ rows[s].gate <= 0}

AllPublic == \A s \in Sections : Public(s)

LEMMA OpenThen == CatTypes' => AllPublic'
<1>1. CatTypes => AllPublic
  BY OpenIs DEF Public, AllPublic
<1> QED BY <1>1, PTL

\* What is open to all after a stamp was open before, or bears it.
LEMMA FedStamped ==
    ASSUME CatTypes, Rooted, CatTypes', NEW i \in PageIds, NEW row \in PageRow, Stamps(i, row),
           NEW s \in Sections
    PROVE  \A e \in Fed(s)' : e \in Fed(s) \/ e.edited = second
<1>1. /\ There(i)' /\ rows'[i].edited = second /\ second' = second
      /\ \A j \in Nodes \ {i} : rows'[j] = rows[j]
  BY StampLeaves DEF Nodes, Stamps, Edit
<1>2. Open(s)' = {k \in PageIds : /\ There(k)' /\ rows'[k].parent = s
                                  /\ rows'[k].date <= second' /\ rows'[k].gate <= 0
                                  /\ rows'[s].gate <= 0}
  BY OpenThen DEF AllPublic, Public
<1>3. s \in Nodes \ {i}
  BY OpenIs, CatalogueAssumption DEF Nodes, Specials
<1>4. ASSUME NEW k \in Open(s)', k # i PROVE k \in Open(s) /\ Entry(k)' = Entry(k)
  <2>1. rows'[k] = rows[k] /\ rows'[s] = rows[s] /\ (There(k)' <=> There(k)) /\ k \in PageIds
    BY <1>1, <1>2, <1>3, <1>4 DEF Nodes, There
  <2>2. k \in Open(s)
    BY <1>1, <1>2, <1>4, <2>1, OpenIs
  <2> QED BY <2>1, <2>2 DEF Entry
<1>5. Entry(i)'.edited = second
  BY <1>1 DEF Entry
<1> QED BY <1>4, <1>5 DEF Fed

\* Nothing opens without a stamp.
LEMMA FedSilent ==
    ASSUME CatTypes, Rooted, CatTypes', NEW new, Silent(new), Lighter(new), NEW s \in Sections
    PROVE  Fed(s)' \subseteq Fed(s)
<1>1. /\ rows' = new /\ second' = second
      /\ Open(s)' = {k \in PageIds : /\ There(k)' /\ rows'[k].parent = s
                                  /\ rows'[k].date <= second' /\ rows'[k].gate <= 0
                                  /\ rows'[s].gate <= 0}
  BY OpenThen DEF AllPublic, Public, Silent, Edit
<1>2. s \in Nodes /\ new[s] # NoRow /\ s # Root
  BY OpenIs DEF Lighter, Nodes
<1>3. ASSUME NEW k \in Open(s)' PROVE k \in Open(s) /\ Entry(k)' = Entry(k)
  <2>1. k \in PageIds /\ k \in Nodes /\ new[k] # NoRow /\ new[k].parent = s
    BY <1>1, <1>3 DEF There, Nodes
  <2>2. /\ There(k) /\ new[k].gate = rows[k].gate /\ new[k].date = rows[k].date
        /\ new[k].edited = rows[k].edited /\ new[k].text = rows[k].text
        /\ rows[k].parent = s /\ new[s].gate = rows[s].gate
    BY <1>2, <2>1 DEF Lighter
  <2>3. k \in Open(s)
    BY <1>1, <1>3, <2>1, <2>2, OpenIs
  <2> QED BY <1>1, <2>2, <2>3 DEF Entry
<1> QED BY <1>3 DEF Fed

\* What opens by the clock bears the second in which it does.
LEMMA FedLater ==
    ASSUME CatTypes, Rooted, CatTypes', NextSecond, NEW s \in Sections
    PROVE  /\ \A e \in Fed(s)' : e \in Fed(s) \/ e.date = second'
           /\ ~busy' => Fed(s)' = Fed(s) /\ Room(s)' = Room(s)
<1>1. /\ rows' = rows /\ second' = second + 1 /\ second \in Nat
      /\ Open(s)' = {k \in PageIds : /\ There(k)' /\ rows'[k].parent = s
                                  /\ rows'[k].date <= second' /\ rows'[k].gate <= 0
                                  /\ rows'[s].gate <= 0}
  BY OpenThen, CatalogueAssumption DEF AllPublic, Public, NextSecond, CatTypes
<1>2. \A k \in PageIds : There(k) => rows[k].date \in Nat
  BY RowsAre DEF Rows
<1>3. ASSUME NEW k \in PageIds, There(k), rows[k].date <= second + 1
      PROVE  rows[k].date <= second \/ rows[k].date = second + 1
  BY <1>1, <1>2, <1>3
<1>4. ASSUME NEW k \in Open(s)' PROVE (k \in Open(s) \/ rows[k].date = second')
                                      /\ Entry(k)' = Entry(k)
  BY <1>1, <1>3, <1>4, OpenIs DEF There, Entry
<1>5. \A e \in Fed(s)' : e \in Fed(s) \/ e.date = second'
  BY <1>1, <1>4 DEF Fed, Entry
<1>6. ASSUME ~busy' PROVE Fed(s)' = Fed(s) /\ Room(s)' = Room(s)
  <2>1. ~ \E k \in PageIds : There(k) /\ rows[k].date = second + 1
    BY <1>6 DEF NextSecond
  <2>2. \A k \in PageIds : There(k) => (rows[k].date <= second + 1 <=> rows[k].date <= second)
    BY <1>1, <1>2, <2>1
  <2>3. Open(s)' = Open(s)
    BY <1>1, <2>2, OpenIs DEF There
  <2>4. \A k : Entry(k)' = Entry(k)
    BY <1>1 DEF Entry
  <2> QED BY <2>3, <2>4 DEF Fed, Room
<1> QED BY <1>5, <1>6

\* The copy's Updated was a stamp, too.
LEMMA CopyIs ==
    ASSUME CatTypes, FeedTypes, Dated
    PROVE  /\ copy.etag[1] \in Nat /\ copy.etag[1] <= second
           /\ copy.etag[1] = second => busy
<1>1. copy.etag[1] = Updated(copy.entries) /\ copy.entries \subseteq Entries
      /\ \A e \in copy.entries : Past(e)
  BY DEF FeedTypes, Etag, Dated
<1>2. /\ Updated(copy.entries) \in 0 .. Never
      /\ Updated(copy.entries) = 0 \/ \E e \in copy.entries : Updated(copy.entries) = StampOf(e)
  BY <1>1, UpdatedIs, CatalogueAssumption
<1>3. Never \in Nat /\ second \in Nat /\ second >= 1
  BY CatalogueAssumption DEF Never, CatTypes
<1>4. \A e \in copy.entries : StampOf(e) \in Nat /\ StampOf(e) <= second
                              /\ (StampOf(e) = second => busy)
  BY <1>1, StampIs
<1> QED BY <1>1, <1>2, <1>3, <1>4

\* What was stamped in the past stays there as the clock goes on.
LEMMA PastStays ==
    ASSUME CatTypes, NEW e \in Entries, Past(e),
           \/ second' = second /\ (busy => busy')
           \/ second' = second + 1
    PROVE  Past(e)'
<1>1. e.edited \in Nat /\ e.date \in Nat /\ second \in Nat
  BY CatalogueAssumption DEF Entries, Never, CatTypes
<1> QED BY <1>1 DEF Past

\* A write tears the feed that is being collected.
LEMMA FetchTorn ==
    ASSUME FeedTypes, Whole, Disturb, UNCHANGED copy, busy' \in BOOLEAN
    PROVE  FeedTypes' /\ Whole' /\ fetch'.got = fetch.got
<1>1. PICK t : t = Reading
  OBVIOUS
<1>2. t \in BOOLEAN /\ fetch' = [fetch EXCEPT !.torn = t] /\ (t <=> fetch.todo # <<>>)
  BY <1>1 DEF Disturb, Reading
<1>3. /\ fetch' \in [todo : {<<>>, <<BlogPage, ProjectsPage>>, <<ProjectsPage>>},
                     got : SUBSET Entries, cond : {"none", "etag", "date"}, torn : BOOLEAN]
      /\ fetch'.todo = fetch.todo /\ fetch'.got = fetch.got /\ fetch'.cond = fetch.cond
      /\ fetch'.torn = t
  BY <1>2 DEF FeedTypes
<1>4. FeedTypes'
  BY <1>3 DEF FeedTypes
<1>5. <<ProjectsPage>> # <<>>
  OBVIOUS
<1>6. Whole'
  BY <1>2, <1>3, <1>5 DEF Whole
<1> QED BY <1>3, <1>4, <1>6

LEMMA FeedAfterStamp ==
    ASSUME FeedInv, Rooted, CatTypes', NEW i \in Nodes, NEW row \in PageRow, Stamps(i, row)
    PROVE  FeedInv'
<1>1. FeedTypes' /\ Whole' /\ fetch'.got = fetch.got /\ copy' = copy /\ second' = second /\ busy'
  BY FetchTorn DEF FeedInv, Stamps, Edit
<1>2. \A e \in fetch.got \cup copy.entries : Past(e)'
  BY <1>1, PastStays DEF FeedInv, FeedTypes, Dated
<1>3. Dated'
  BY <1>1, <1>2 DEF Dated
<1>4. Newer'
  <2> SUFFICES ASSUME copy # NoCopy, since' = {},
                      NEW e \in (fetch.got \cup Fed(BlogPage)' \cup Fed(ProjectsPage)')
               PROVE  e \in copy.entries \/ copy.etag[1] < StampOf(e)
    BY <1>1 DEF Newer
  <2>1. since = {} /\ ~busy /\ i \in PageIds
    BY DEF Stamps, Edited, Nodes
  <2>2. CASE e \in fetch.got \cup Fed(BlogPage) \cup Fed(ProjectsPage)
    BY <2>1, <2>2 DEF FeedInv, Newer
  <2>3. CASE e \notin fetch.got \cup Fed(BlogPage) \cup Fed(ProjectsPage)
    <3>1. e.edited = second
      BY <2>1, <2>3, FedStamped DEF Sections, FeedInv
    <3>2. e \in Entries
      <4>1. PICK s \in Sections : e \in Fed(s)'
        BY <2>3 DEF Sections
      <4>2. Dated' => (\A x \in Sections : Fed(x)' \subseteq Entries)
        BY FedThen DEF FedWell
      <4> QED BY <1>3, <4>1, <4>2
    <3>3. copy.etag[1] \in Nat /\ copy.etag[1] < second /\ second \in Nat
      BY <2>1, CopyIs, CatalogueAssumption DEF FeedInv, CatTypes
    <3>4. e.edited \in Nat /\ e.date \in Nat
      BY <3>2, CatalogueAssumption DEF Entries, Never
    <3> QED BY <3>1, <3>3, <3>4 DEF StampOf
  <2> QED BY <2>2, <2>3
<1> QED BY <1>1, <1>3, <1>4 DEF FeedInv

LEMMA FeedAfterSilent ==
    ASSUME FeedInv, Rooted, CatTypes', NEW new, Silent(new), Lighter(new)
    PROVE  FeedInv'
<1>1. FeedTypes' /\ Whole' /\ fetch'.got = fetch.got /\ copy' = copy /\ second' = second
      /\ busy' = busy /\ since' = since
  BY FetchTorn DEF FeedInv, FeedTypes, Silent, Edit, Edited
<1>2. \A e \in fetch.got \cup copy.entries : Past(e)'
  BY <1>1, PastStays DEF FeedInv, FeedTypes, Dated
<1>3. \A k \in PageIds : There(k)' => There(k) /\ rows'[k].edited = rows[k].edited
                                      /\ rows'[k].date = rows[k].date
  BY DEF Lighter, Silent, There, Nodes
<1>4. Dated'
  BY <1>1, <1>2, <1>3 DEF Dated, FeedInv
<1>5. Fed(BlogPage)' \subseteq Fed(BlogPage) /\ Fed(ProjectsPage)' \subseteq Fed(ProjectsPage)
  BY FedSilent DEF Sections, FeedInv
<1>6. Newer'
  BY <1>1, <1>5 DEF Newer, FeedInv
<1> QED BY <1>1, <1>4, <1>6 DEF FeedInv

LEMMA FeedAfterSecond ==
    ASSUME FeedInv, Rooted, CatTypes', NextSecond
    PROVE  FeedInv'
<1>1. /\ copy' = copy /\ second' = second + 1 /\ since' = since /\ rows' = rows
      /\ busy' \in BOOLEAN /\ second \in Nat
  BY CatalogueAssumption DEF NextSecond, Edited, FeedInv, CatTypes
<1>2. FeedTypes' /\ Whole' /\ fetch'.got = fetch.got
  <2>1. CASE busy'
    <3>1. Disturb
      BY <2>1 DEF NextSecond, Disturb
    <3> QED BY <1>1, <3>1, FetchTorn DEF FeedInv
  <2>2. CASE ~busy'
    <3>1. fetch' = fetch
      BY <2>2 DEF NextSecond
    <3>2. Fed(BlogPage)' = Fed(BlogPage) /\ Room(BlogPage)' = Room(BlogPage)
      BY <2>2, FedLater DEF Sections, FeedInv
    <3> QED BY <1>1, <3>1, <3>2 DEF FeedInv, FeedTypes, Whole
  <2> QED BY <2>1, <2>2
<1>3. \A e \in fetch.got \cup copy.entries : Past(e)'
  BY <1>1, PastStays DEF FeedInv, FeedTypes, Dated
<1>4. ASSUME NEW k \in PageIds, There(k)', second' \in {rows'[k].edited, rows'[k].date} PROVE busy'
  <2>1. There(k) /\ rows'[k] = rows[k] /\ k \in Rows
    BY <1>1, <1>4 DEF There, Rows, Nodes
  <2>2. rows[k].edited <= second /\ rows[k].edited \in 0 .. Never
    BY <2>1, RowsAre DEF FeedInv, CatTypes, Rows, PageRow
  <2>3. rows[k].edited # second + 1
    BY <1>1, <2>2, CatalogueAssumption DEF Never
  <2>4. rows[k].date = second + 1
    BY <1>1, <1>4, <2>1, <2>3
  <2> QED BY <2>1, <2>4 DEF NextSecond
<1>5. Dated'
  BY <1>1, <1>2, <1>3, <1>4 DEF Dated
<1>6. Newer'
  <2> SUFFICES ASSUME copy # NoCopy, since = {},
                      NEW e \in (fetch.got \cup Fed(BlogPage)' \cup Fed(ProjectsPage)')
               PROVE  e \in copy.entries \/ copy.etag[1] < StampOf(e)
    BY <1>1, <1>2 DEF Newer
  <2>1. CASE e \in fetch.got \cup Fed(BlogPage) \cup Fed(ProjectsPage)
    BY <2>1 DEF FeedInv, Newer
  <2>2. CASE e \notin fetch.got \cup Fed(BlogPage) \cup Fed(ProjectsPage)
    <3>1. e.date = second'
      BY <2>2, FedLater DEF Sections, FeedInv
    <3>2. e \in Entries
      <4>1. PICK s \in Sections : e \in Fed(s)'
        BY <2>2 DEF Sections
      <4>2. Dated' => (\A x \in Sections : Fed(x)' \subseteq Entries)
        BY FedThen DEF FedWell
      <4> QED BY <1>5, <4>1, <4>2
    <3>3. copy.etag[1] \in Nat /\ copy.etag[1] <= second /\ second \in Nat
      BY <1>1, CopyIs DEF FeedInv
    <3>4. e.edited \in Nat /\ e.date \in Nat
      BY <3>2, CatalogueAssumption DEF Entries, Never
    <3> QED BY <1>1, <3>1, <3>3, <3>4 DEF StampOf
  <2> QED BY <2>1, <2>2
<1> QED BY <1>2, <1>5, <1>6 DEF FeedInv

LEMMA FeedInit == CatalogueInit => FeedInv
<1> SUFFICES ASSUME CatalogueInit PROVE FeedInv
  OBVIOUS
<1>1. CatTypes /\ Aged /\ second = 1
  BY RootedInit DEF CatalogueInit
<1>2. fetch = NoFetch /\ copy = NoCopy /\ busy = FALSE
  BY DEF CatalogueInit
<1>3. Etag({}) = <<0, 0>>
  <2>1. Updated({}) = 0
    BY UpdatedIs, CatalogueAssumption
  <2>2. Cardinality({}) = 0
    BY FS_EmptySet
  <2> QED BY <2>1, <2>2 DEF Etag
<1>4. FeedTypes
  BY <1>2, <1>3, FS_EmptySet DEF FeedTypes, NoFetch, NoCopy
<1>5. Dated
  BY <1>1, <1>2 DEF Dated, Aged, NoFetch, NoCopy, Nodes
<1>6. <<ProjectsPage>> # <<>>
  OBVIOUS
<1>7. Whole
  BY <1>2, <1>6 DEF Whole, NoFetch
<1>8. Newer
  BY <1>2 DEF Newer
<1> QED BY <1>1, <1>4, <1>5, <1>7, <1>8 DEF FeedInv

LEMMA FeedAfterAsk ==
    ASSUME FeedInv, CatTypes', NEW cond \in {"none", "etag", "date"}, AskFeed(cond)
    PROVE  FeedInv'
<1>1. /\ UNCHANGED <<rows, unused, second, copy, busy, since>>
      /\ fetch.got = {} /\ fetch'.got = {} /\ fetch'.torn = FALSE /\ fetch'.cond = cond
      /\ fetch'.todo = <<BlogPage, ProjectsPage>>
      /\ fetch' \in [todo : {<<>>, <<BlogPage, ProjectsPage>>, <<ProjectsPage>>},
                     got : SUBSET Entries, cond : {"none", "etag", "date"}, torn : BOOLEAN]
  <2>1. fetch.got = {}
    BY DEF AskFeed, Reading, FeedInv, Whole
  <2> QED BY <2>1 DEF AskFeed, NoFetch
<1>2. FeedTypes'
  BY <1>1, FS_EmptySet DEF FeedTypes, FeedInv, Etag, Updated
<1>3. Dated'
  BY <1>1 DEF Dated, FeedInv, There, Past
<1>4. <<BlogPage, ProjectsPage>> # <<ProjectsPage>>
  OBVIOUS
<1>5. Whole'
  BY <1>1, <1>4 DEF Whole, AskFeed
<1>6. Fed(BlogPage)' = Fed(BlogPage) /\ Fed(ProjectsPage)' = Fed(ProjectsPage)
  BY <1>1 DEF Fed, Open, SectionOpen, There, VisibleAs, Scheduled, SeenBy, Under, Entry
<1>7. Newer'
  BY <1>1, <1>6 DEF Newer, FeedInv
<1> QED BY <1>2, <1>3, <1>5, <1>7 DEF FeedInv

LEMMA FeedAfterRead ==
    ASSUME FeedInv, CatTypes', ReadSection
    PROVE  FeedInv'
<1>1. /\ UNCHANGED <<rows, unused, second, copy, busy, since>>
      /\ fetch.todo = <<BlogPage, ProjectsPage>> /\ fetch.got = {}
      /\ fetch' = [fetch EXCEPT !.todo = <<ProjectsPage>>, !.got = Collected]
      /\ Collected = SectionEntries(BlogPage)
  <2>1. fetch.todo = <<BlogPage, ProjectsPage>>
    <3>1. Len(<<>>) = 0 /\ Len(<<ProjectsPage>>) = 1
      OBVIOUS
    <3>2. fetch.todo \in {<<>>, <<BlogPage, ProjectsPage>>, <<ProjectsPage>>}
      BY DEF FeedInv, FeedTypes
    <3>3. Len(fetch.todo) > 1
      BY DEF ReadSection
    <3> QED BY <3>1, <3>2, <3>3
  <2>2. fetch.got = {}
    BY <2>1 DEF FeedInv, Whole
  <2>3. Collected = SectionEntries(BlogPage)
    BY <2>1, <2>2 DEF Collected
  <2>4. Tail(<<BlogPage, ProjectsPage>>) = <<ProjectsPage>>
    OBVIOUS
  <2>5. fetch' = [fetch EXCEPT !.todo = Tail(fetch.todo), !.got = Collected]
    BY DEF ReadSection
  <2> QED BY <2>1, <2>2, <2>3, <2>4, <2>5 DEF ReadSection
<1>2. /\ Collected \subseteq Entries /\ IsFiniteSet(Collected) /\ \A e \in Collected : Past(e)
      /\ Collected \subseteq fetch.got \cup Fed(BlogPage) \cup Fed(ProjectsPage)
  BY CollectedIs DEF FeedInv, ReadSection, Reading
<1>3. PICK col : col = Collected
  OBVIOUS
<1>4. /\ fetch' \in [todo : {<<>>, <<BlogPage, ProjectsPage>>, <<ProjectsPage>>},
                     got : SUBSET Entries, cond : {"none", "etag", "date"}, torn : BOOLEAN]
      /\ fetch'.todo = <<ProjectsPage>> /\ fetch'.got = col
      /\ fetch'.cond = fetch.cond /\ fetch'.torn = fetch.torn
  BY <1>1, <1>2, <1>3 DEF FeedInv, FeedTypes
<1>5. FeedTypes'
  BY <1>1, <1>2, <1>3, <1>4 DEF FeedTypes, FeedInv, Etag, Updated
<1>6. Dated'
  BY <1>1, <1>2, <1>3, <1>4 DEF Dated, FeedInv, There, Past
<1>7. Fed(BlogPage)' = Fed(BlogPage) /\ Fed(ProjectsPage)' = Fed(ProjectsPage)
      /\ (Room(BlogPage)' <=> Room(BlogPage))
  BY <1>1 DEF Fed, Open, SectionOpen, There, VisibleAs, Scheduled, SeenBy, Under, Entry, Room
<1>8. Room(BlogPage) => Collected = Fed(BlogPage)
  BY <1>1, SectionIs DEF FeedInv, Sections
<1>9. <<BlogPage, ProjectsPage>> # <<>>
  OBVIOUS
<1>10. Whole'
  BY <1>1, <1>3, <1>4, <1>7, <1>8, <1>9 DEF Whole, FeedInv
<1>11. Newer'
  BY <1>1, <1>2, <1>3, <1>4, <1>7 DEF Newer, FeedInv
<1> QED BY <1>5, <1>6, <1>10, <1>11 DEF FeedInv

LEMMA FeedAfterAnswer ==
    ASSUME FeedInv, CatTypes', AnswerFeed
    PROVE  FeedInv'
<1>1. /\ UNCHANGED <<rows, unused, second, busy>> /\ fetch' = NoFetch
      /\ fetch.todo = <<ProjectsPage>>
  <2>1. Len(<<>>) = 0 /\ Len(<<BlogPage, ProjectsPage>>) = 2
    OBVIOUS
  <2>2. fetch.todo \in {<<>>, <<BlogPage, ProjectsPage>>, <<ProjectsPage>>}
    BY DEF FeedInv, FeedTypes
  <2>3. Len(fetch.todo) = 1
    BY DEF AnswerFeed
  <2> QED BY <2>1, <2>2, <2>3 DEF AnswerFeed
<1>2. /\ Collected \subseteq Entries /\ IsFiniteSet(Collected) /\ \A e \in Collected : Past(e)
      /\ Collected \subseteq fetch.got \cup Fed(BlogPage) \cup Fed(ProjectsPage)
  <2>1. <<ProjectsPage>> # <<>>
    OBVIOUS
  <2> QED BY <1>1, <2>1, CollectedIs DEF FeedInv
<1>3. PICK col : col = Collected
  OBVIOUS
<1>4. \/ copy' = copy /\ since' = since
      \/ /\ copy' = [etag |-> Etag(col), entries |-> col]
         /\ since' = {} => ~fetch.torn /\ ~Crowded
  <2>1. CASE NotModified(fetch.cond, copy, Collected)
    BY <2>1 DEF AnswerFeed
  <2>2. CASE ~NotModified(fetch.cond, copy, Collected)
    <3>1. /\ copy' = [etag |-> Etag(col), entries |-> col]
          /\ since' = (IF fetch.torn THEN {"torn"} ELSE {})
                        \cup (IF Crowded THEN {"full"} ELSE {})
      BY <2>2, <1>3 DEF AnswerFeed
    <3> QED BY <3>1
  <2> QED BY <2>1, <2>2
<1>5. FeedTypes'
  <2>1. NoFetch \in [todo : {<<>>, <<BlogPage, ProjectsPage>>, <<ProjectsPage>>},
                     got : SUBSET Entries, cond : {"none", "etag", "date"}, torn : BOOLEAN]
    BY DEF NoFetch
  <2>2. copy'.entries \subseteq Entries /\ IsFiniteSet(copy'.entries)
    BY <1>2, <1>3, <1>4 DEF FeedInv, FeedTypes
  <2>3. copy'.etag = Etag(copy'.entries)
    BY <1>4 DEF FeedInv, FeedTypes
  <2>4. fetch'.got = {} /\ busy' \in BOOLEAN
    BY <1>1 DEF NoFetch, FeedInv, FeedTypes
  <2> QED BY <1>1, <2>1, <2>2, <2>3, <2>4, FS_EmptySet DEF FeedTypes, Etag, Updated
<1>6. Dated'
  <2>1. \A e \in copy'.entries : Past(e)
    BY <1>2, <1>3, <1>4 DEF FeedInv, Dated
  <2> QED BY <1>1, <2>1 DEF Dated, FeedInv, There, Past, NoFetch
<1>7. Whole'
  <2>1. <<ProjectsPage>> # <<>>
    OBVIOUS
  <2> QED BY <1>1, <2>1 DEF Whole, NoFetch
<1>8. Fed(BlogPage)' = Fed(BlogPage) /\ Fed(ProjectsPage)' = Fed(ProjectsPage)
  BY <1>1 DEF Fed, Open, SectionOpen, There, VisibleAs, Scheduled, SeenBy, Under, Entry
<1>9. ASSUME ~fetch.torn, ~Crowded
      PROVE  Collected = Fed(BlogPage) \cup Fed(ProjectsPage)
  <2>1. Room(BlogPage) /\ SectionEntries(ProjectsPage) = Fed(ProjectsPage)
    BY <1>9, SectionIs DEF FeedInv, Sections
  <2>2. fetch.got = Fed(BlogPage)
    BY <1>1, <1>9, <2>1 DEF FeedInv, Whole
  <2> QED BY <1>1, <2>1, <2>2 DEF Collected
<1>10. Newer'
  <2>1. CASE copy' = copy /\ since' = since
    BY <1>1, <1>8, <2>1 DEF Newer, FeedInv, NoFetch
  <2>2. CASE copy' = [etag |-> Etag(col), entries |-> col]
             /\ (since' = {} => ~fetch.torn /\ ~Crowded)
    <3>1. since' = {} => copy'.entries = Fed(BlogPage) \cup Fed(ProjectsPage)
      BY <1>3, <1>9, <2>2
    <3> QED BY <1>1, <1>8, <3>1 DEF Newer, NoFetch
  <2> QED BY <1>4, <2>1, <2>2
<1> QED BY <1>5, <1>6, <1>7, <1>10 DEF FeedInv

LEMMA FeedStays == FeedInv /\ Rooted /\ [CatalogueNext]_catalogueVars => FeedInv'
<1> SUFFICES ASSUME FeedInv, Rooted, [CatalogueNext]_catalogueVars PROVE FeedInv'
  OBVIOUS
<1>1. CatTypes'
  BY RootedStep DEF FeedInv
<1>2. ASSUME UNCHANGED catalogueVars PROVE FeedInv'
  <2>1. UNCHANGED <<rows, unused, second, fetch, copy, busy, since>>
    BY <1>2 DEF catalogueVars
  <2>2. Fed(BlogPage)' = Fed(BlogPage) /\ Fed(ProjectsPage)' = Fed(ProjectsPage)
        /\ (Room(BlogPage)' <=> Room(BlogPage))
    BY <2>1 DEF Fed, Open, SectionOpen, There, VisibleAs, Scheduled, SeenBy, Under, Entry, Room
  <2>3. FeedTypes' /\ Dated'
    BY <2>1 DEF FeedInv, FeedTypes, Dated, Etag, Updated, There, Past
  <2>4. Whole' /\ Newer'
    BY <2>1, <2>2 DEF FeedInv, Whole, Newer
  <2> QED BY <1>1, <2>3, <2>4 DEF FeedInv
<1>3. ASSUME NEW i \in Nodes, NEW row \in PageRow, Stamps(i, row) PROVE FeedInv'
  BY <1>1, <1>3, FeedAfterStamp
<1>4. ASSUME NEW new, Silent(new), Lighter(new) PROVE FeedInv'
  BY <1>1, <1>4, FeedAfterSilent
<1>5. ASSUME NEW cond \in {"none", "etag", "date"}, AskFeed(cond) PROVE FeedInv'
  BY <1>1, <1>5, FeedAfterAsk
<1>6. CatTypes
  BY DEF FeedInv
<1> QED BY <1>1, <1>2, <1>3, <1>4, <1>5, <1>6, StepsAre, FeedAfterSecond, FeedAfterRead,
           FeedAfterAnswer

\* A step that is told not modified.
LEMMA StaysCurrent ==
    ASSUME FeedInv, [CatalogueNext]_catalogueVars,
           Len(fetch.todo) = 1, fetch'.todo = <<>>, copy' = copy, since = {}
    PROVE  IF fetch.cond = "date" THEN Collected \subseteq copy.entries
           ELSE Collected = copy.entries
<1>1. fetch.todo = <<ProjectsPage>>
  BY DEF FeedInv, FeedTypes
<1>2. AnswerFeed
  <2>1. <<ProjectsPage>> # <<>>
    OBVIOUS
  <2>2. ASSUME Disturb \/ fetch' = fetch PROVE FALSE
    <3>1. fetch'.todo = fetch.todo
      <4>1. CASE Disturb
        BY <4>1 DEF Disturb, FeedInv, FeedTypes
      <4> QED BY <2>2, <4>1
    <3> QED BY <1>1, <2>1, <3>1
  <2>3. ASSUME \E cond \in {"none", "etag", "date"} : AskFeed(cond) PROVE FALSE
    BY <1>1, <2>1, <2>3 DEF AskFeed, Reading
  <2>4. ~ReadSection
    BY DEF ReadSection
  <2>5. ~NextSecond
    BY <2>2 DEF NextSecond, Disturb
  <2>6. ~UNCHANGED catalogueVars
    BY <2>2 DEF catalogueVars
  <2>7. ASSUME NEW i, NEW row, Stamps(i, row) PROVE FALSE
    BY <2>2, <2>7 DEF Stamps
  <2>8. ASSUME NEW new, Silent(new) PROVE FALSE
    BY <2>2, <2>8 DEF Silent
  <2>9. ASSUME NEW i \in PageIds, NEW p \in Nodes \cup {Root}, CreatePage(i, p) PROVE FALSE
    BY <2>7, <2>9 DEF CreatePage
  <2>10. ASSUME NEW i \in Nodes, UpdatePage(i) \/ SetDateOf(i) PROVE FALSE
    BY <2>7, <2>10 DEF UpdatePage, SetDateOf
  <2>11. ASSUME NEW i \in Nodes, PinPage(i) \/ ReorderPages(i) \/ DeletePage(i) PROVE FALSE
    BY <2>8, <2>11 DEF PinPage, ReorderPages, DeletePage
  <2> QED BY <2>3, <2>4, <2>5, <2>6, <2>9, <2>10, <2>11 DEF CatalogueNext
<1>3. /\ Collected \subseteq Entries /\ IsFiniteSet(Collected) /\ \A e \in Collected : Past(e)
      /\ Collected \subseteq fetch.got \cup Fed(BlogPage) \cup Fed(ProjectsPage)
  <2>1. <<ProjectsPage>> # <<>>
    OBVIOUS
  <2> QED BY <1>1, <2>1, CollectedIs DEF FeedInv
<1>4. CASE ~NotModified(fetch.cond, copy, Collected)
  <2>1. copy' = [etag |-> Etag(Collected), entries |-> Collected]
    BY <1>2, <1>4 DEF AnswerFeed
  <2> QED BY <2>1
<1>5. CASE NotModified(fetch.cond, copy, Collected)
  <2>1. fetch.cond # "none" /\ copy # NoCopy
    <3>1. <<ProjectsPage>> # <<>>
      OBVIOUS
    <3>2. fetch.cond # "none"
      BY <1>5 DEF NotModified
    <3> QED BY <1>1, <3>1, <3>2 DEF FeedInv, Whole
  <2>2. copy.etag = Etag(copy.entries) /\ copy.entries \subseteq Entries
        /\ IsFiniteSet(copy.entries)
    BY DEF FeedInv, FeedTypes
  <2>3. Updated(Collected) <= copy.etag[1]
    <3>1. CASE fetch.cond = "etag"
      <4>1. Updated(Collected) = copy.etag[1]
        BY <1>5, <3>1 DEF NotModified, Etag
      <4>2. Updated(Collected) \in 0 .. Never /\ Never \in Nat
        BY <1>3, UpdatedIs, CatalogueAssumption DEF Never
      <4> QED BY <4>1, <4>2
    <3>2. CASE fetch.cond # "etag"
      BY <1>5, <3>2 DEF NotModified
    <3> QED BY <3>1, <3>2
  <2>4. Collected \subseteq copy.entries
    <3> SUFFICES ASSUME NEW e \in Collected, e \notin copy.entries PROVE FALSE
      OBVIOUS
    <3>1. copy.etag[1] < StampOf(e)
      BY <1>3, <2>1 DEF FeedInv, Newer
    <3>2. StampOf(e) <= Updated(Collected) /\ Updated(Collected) \in 0 .. Never /\ Never \in Nat
      BY <1>3, UpdatedIs, CatalogueAssumption DEF Never
    <3>3. StampOf(e) \in Nat
      BY <1>3, StampIs DEF FeedInv
    <3>4. copy.etag[1] \in Nat
      BY CopyIs DEF FeedInv
    <3> QED BY <2>3, <3>1, <3>2, <3>3, <3>4
  <2>5. CASE fetch.cond = "date"
    BY <2>4, <2>5
  <2>6. CASE fetch.cond # "date"
    <3>1. Etag(Collected) = Etag(copy.entries)
      BY <1>5, <2>2, <2>6 DEF NotModified
    <3>2. Cardinality(Collected) = Cardinality(copy.entries)
      BY <3>1 DEF Etag
    <3>3. Collected = copy.entries
      BY <2>2, <2>4, <3>2, FS_Subset
    <3> QED BY <2>6, <3>3
  <2> QED BY <2>5, <2>6
<1> QED BY <1>4, <1>5

(***************************************************************************)
(* A client that is told 304 holds the feed: all that is collected, and    *)
(* if it sent the ETag nothing else.                                       *)
(***************************************************************************)
THEOREM CopyAlwaysCurrent == CatalogueSpec => CopyIsCurrent
<1>1. CatalogueInit => FeedInv /\ Rooted
  BY FeedInit, RootedInit
<1>2. FeedInv /\ Rooted /\ [CatalogueNext]_catalogueVars => (FeedInv /\ Rooted)'
  BY FeedStays, RootedStep DEF FeedInv
<1>3. FeedInv /\ [CatalogueNext]_catalogueVars =>
        [Len(fetch.todo) = 1 /\ fetch'.todo = <<>> /\ copy' = copy /\ since = {} =>
           IF fetch.cond = "date" THEN Collected \subseteq copy.entries
           ELSE Collected = copy.entries]_catalogueVars
  BY StaysCurrent
<1> QED BY <1>1, <1>2, <1>3, PTL DEF CatalogueSpec, CopyIsCurrent

-----------------------------------------------------------------------------

\* What is true at 0, and next to where it is, is true as far as one goes.
LEMMA Climbs ==
    ASSUME NEW N \in Nat, NEW T, 0 \in T, \A n \in 0 .. N : n > 0 /\ n - 1 \in T => n \in T
    PROVE  \A n \in 0 .. N : n \in T
<1> SUFFICES ASSUME \E n \in 0 .. N : n \notin T PROVE FALSE
  OBVIOUS
<1> DEFINE Bad == {n \in 0 .. N : n \notin T}
<1>1. PICK n \in Bad : \A k \in Bad : n <= k
  <2>1. Bad \subseteq Nat /\ Bad # {}
    OBVIOUS
  <2> HIDE DEF Bad
  <2> QED BY <2>1, LeastOf
<1>2. n > 0 /\ n - 1 \in 0 .. N /\ ~(n <= n - 1)
  OBVIOUS
<1>3. n - 1 \in T
  BY <1>1, <1>2
<1> QED BY <1>2, <1>3

\* From x on, each step taken from the one before.
Iterated(f, N, x, step) == f[0] = x /\ \A n \in 1 .. N : f[n] = step[f[n-1]]

LEMMA Iterates ==
    ASSUME NEW N \in Nat, NEW S, NEW x \in S, NEW step \in [S -> S]
    PROVE  \E f \in [0 .. N -> S] : Iterated(f, N, x, step)
<1> USE DEF Iterated
<1> DEFINE Upto(m) == \E f \in [0 .. m -> S] : /\ f[0] = x
                                               /\ \A n \in 1 .. m : f[n] = step[f[n-1]]
           T == {m \in 0 .. N : Upto(m)}
<1>1. Upto(0)
  <2> DEFINE g == [k \in 0 .. 0 |-> x]
  <2>1. g \in [0 .. 0 -> S] /\ g[0] = x /\ \A n \in 1 .. 0 : g[n] = step[g[n-1]]
    OBVIOUS
  <2> HIDE DEF g
  <2> QED BY <2>1
<1>2. ASSUME NEW m \in 0 .. N, m > 0, Upto(m - 1) PROVE Upto(m)
  <2>1. PICK f \in [0 .. m - 1 -> S] : /\ f[0] = x
                                       /\ \A n \in 1 .. m - 1 : f[n] = step[f[n-1]]
    BY <1>2
  <2> DEFINE g == [k \in 0 .. m |-> IF k = m THEN step[f[m-1]] ELSE f[k]]
  <2>2. m - 1 \in 0 .. m - 1 /\ \A k \in 0 .. m : k # m => k \in 0 .. m - 1
    BY <1>2
  <2>3. g \in [0 .. m -> S]
    BY <2>2
  <2>4. g[0] = x
    BY <1>2, <2>1
  <2>5. ASSUME NEW n \in 1 .. m PROVE g[n] = step[g[n-1]]
    <3>1. n - 1 \in 0 .. m /\ n \in 0 .. m /\ n - 1 # m
      OBVIOUS
    <3>2. CASE n = m
      BY <3>1, <3>2
    <3>3. CASE n # m
      <4>1. n \in 1 .. m - 1
        BY <3>3
      <4> QED BY <2>1, <3>1, <3>3, <4>1
    <3> QED BY <3>2, <3>3
  <2> HIDE DEF g
  <2> QED BY <2>3, <2>4, <2>5
<1>3. 0 \in T
  BY <1>1
<1>4. \A n \in 0 .. N : n > 0 /\ n - 1 \in T => n \in T
  <2> SUFFICES ASSUME NEW n \in 0 .. N, n > 0, n - 1 \in T PROVE Upto(n)
    OBVIOUS
  <2> HIDE DEF Upto
  <2> QED BY <1>2
<1>5. N \in T
  <2> HIDE DEF T
  <2> QED BY <1>3, <1>4, Climbs
<1> QED BY <1>5

-----------------------------------------------------------------------------

(***************************************************************************)
(* The way up.                                                             *)
(***************************************************************************)

Height == Cardinality(PageIds)

\* With the nodes above them.
Above(X) == X \cup ({rows[j].parent : j \in X} \ {Root})

Closed(X) == \A j \in X : rows[j].parent = Root \/ rows[j].parent \in X

\* The way to a page, step by step.
Steps(up, i) == /\ up \in [0 .. Height -> SUBSET Rows] /\ up[0] = {i} /\ up[Height] = WayTo(i)
                /\ \A n \in 1 .. Height : up[n] = Above(up[n-1])

LEMMA AboveIs ==
    ASSUME CatTypes, Rooted, NEW X \in SUBSET Rows
    PROVE  Above(X) \in SUBSET Rows
BY DEF Above, Rooted, Rows

LEMMA Way ==
    ASSUME CatTypes, Rooted, NEW i \in Rows
    PROVE  Height \in Nat /\ \E up : Steps(up, i)
<1>1. Height \in Nat
  BY CatalogueAssumption, FS_CardinalityType DEF Height
<1> DEFINE step == [X \in SUBSET Rows |-> Above(X)]
           Climb(f) == [n \in 0 .. Cardinality(PageIds) |->
                          IF n = 0 THEN {i}
                          ELSE f[n-1] \cup ({rows[j].parent : j \in f[n-1]} \ {Root})]
           W == CHOOSE f : f = Climb(f)
<1>2. WayTo(i) = W[Height]
  BY DEF WayTo, Height
<1>3. step \in [SUBSET Rows -> SUBSET Rows]
  BY AboveIs
<1>4. PICK f \in [0 .. Height -> SUBSET Rows] : /\ f[0] = {i}
                                                /\ \A n \in 1 .. Height : f[n] = step[f[n-1]]
  <2>1. {i} \in SUBSET Rows
    OBVIOUS
  <2>2. PICK S, x, g, h : S = SUBSET Rows /\ x = {i} /\ g = step /\ h = Height
    OBVIOUS
  <2> HIDE DEF step
  <2>3. g \in [S -> S] /\ x \in S /\ h \in Nat
    BY <1>1, <1>3, <2>1, <2>2
  <2>4. \E f \in [0 .. h -> S] : Iterated(f, h, x, g)
    BY <2>3, Iterates
  <2> QED BY <2>2, <2>4 DEF Iterated
<1>5. \A n \in 1 .. Height : n - 1 \in 0 .. Height /\ n \in 0 .. Height /\ n # 0
  BY <1>1
<1>6. \A n \in 1 .. Height : f[n] = Above(f[n-1])
  BY <1>4, <1>5
<1>7. f = Climb(f)
  <2>1. \A n \in 0 .. Height : f[n] = Climb(f)[n]
    BY <1>1, <1>4, <1>6 DEF Height, Above
  <2>2. f = [n \in 0 .. Height |-> f[n]] /\ Climb(f) = [n \in 0 .. Height |-> Climb(f)[n]]
    BY DEF Height
  <2> HIDE DEF Climb
  <2> QED BY <2>1, <2>2
<1>8. W = Climb(W)
  <2> HIDE DEF Climb
  <2> QED BY <1>7, Zenon
<1> HIDE DEF W
<1>9. DOMAIN W = 0 .. Height /\ W[0] = {i}
  BY <1>1, <1>8 DEF Height
<1>10. \A n \in 1 .. Height : W[n] = Above(W[n-1])
  BY <1>5, <1>8 DEF Height, Above
<1>11. \A n \in 0 .. Height : W[n] = f[n]
  <2> DEFINE Same == {n \in 0 .. Height : W[n] = f[n]}
  <2>1. 0 \in 0 .. Height /\ W[0] = f[0]
    BY <1>1, <1>4, <1>9
  <2>2. \A n \in 0 .. Height : n > 0 /\ n - 1 \in Same => n \in Same
    BY <1>1, <1>6, <1>10
  <2>3. \A n \in 0 .. Height : n \in Same
    <3> HIDE DEF Same
    <3>1. 0 \in Same
      BY <2>1 DEF Same
    <3> QED BY <1>1, <3>1, <2>2, Climbs
  <2> QED BY <2>3
<1>12. Steps(f, i)
  BY <1>1, <1>2, <1>4, <1>6, <1>11 DEF Steps
<1> QED BY <1>1, <1>12

\* The way up starts with the page, leads to the top, and nowhere else.
LEMMA WayIs ==
    ASSUME CatTypes, Rooted, NEW i \in Rows
    PROVE  /\ WayTo(i) \subseteq Rows /\ i \in WayTo(i) /\ Closed(WayTo(i))
           /\ \A X : i \in X /\ Closed(X) => WayTo(i) \subseteq X
<1>1. PICK up : Steps(up, i)
  BY Way
<1>2. /\ Height \in Nat /\ up \in [0 .. Height -> SUBSET Rows] /\ up[0] = {i}
      /\ up[Height] = WayTo(i) /\ \A n \in 1 .. Height : up[n] = Above(up[n-1])
  BY <1>1, Way DEF Steps
<1>3. i \in WayTo(i)
  <2> DEFINE T == {n \in 0 .. Height : i \in up[n]}
  <2>1. 0 \in T
    BY <1>2
  <2>2. \A n \in 0 .. Height : n > 0 /\ n - 1 \in T => n \in T
    BY <1>2 DEF Above
  <2>3. \A n \in 0 .. Height : n \in T
    <3> HIDE DEF T
    <3> QED BY <1>2, <2>1, <2>2, Climbs
  <2> QED BY <1>2, <2>3
<1>4. ASSUME NEW X, i \in X, Closed(X) PROVE WayTo(i) \subseteq X
  <2> DEFINE T == {n \in 0 .. Height : up[n] \subseteq X}
  <2>1. 0 \in T
    BY <1>2, <1>4
  <2>2. \A n \in 0 .. Height : n > 0 /\ n - 1 \in T => n \in T
    BY <1>2, <1>4 DEF Above, Closed
  <2>3. \A n \in 0 .. Height : n \in T
    <3> HIDE DEF T
    <3> QED BY <1>2, <2>1, <2>2, Climbs
  <2> QED BY <1>2, <2>3
<1>5. Closed(WayTo(i))
  \* One node is on its way out of X, the least; the others are below it.
  <2> DEFINE Out(X, t) == /\ t \in X /\ rows[t].parent # Root /\ rows[t].parent \notin X
                          /\ \A j \in X \ {t} : rows[j].parent \in X /\ rows[j].parent # Root
                          /\ \A j \in X : t <= j
             T == {n \in 0 .. Height : \/ Closed(up[n])
                                       \/ /\ \E t : Out(up[n], t)
                                          /\ IsFiniteSet(up[n]) /\ Cardinality(up[n]) = n + 1}
  <2>1. \A j \in Rows : /\ j \in Nat
                          /\ \/ rows[j].parent = Root
                             \/ rows[j].parent \in Rows /\ rows[j].parent < j
    BY RowsAre DEF Rooted, Rows
  <2>2. 0 \in T
    <3>1. IsFiniteSet({i}) /\ Cardinality({i}) = 1
      BY FS_Singleton
    <3>2. Closed({i}) \/ Out({i}, i)
      BY <2>1 DEF Closed
    <3>3. 0 \in 0 .. Height /\ Cardinality(up[0]) = 0 + 1 /\ IsFiniteSet(up[0])
      BY <1>2, <3>1
    <3>4. Closed(up[0]) \/ Out(up[0], i)
      BY <1>2, <3>2
    <3> HIDE DEF Out
    <3> QED BY <3>3, <3>4
  <2>3. ASSUME NEW n \in 0 .. Height, n > 0, n - 1 \in T PROVE n \in T
    <3>1. n \in 1 .. Height /\ n - 1 \in 0 .. Height /\ n \in Nat
      BY <1>2, <2>3
    <3>2. PICK X \in SUBSET Rows : X = up[n-1]
      BY <1>2, <3>1
    <3>3. up[n] = Above(X)
      BY <1>2, <3>1, <3>2
    <3>4. CASE Closed(X)
      <4>1. Above(X) = X
        BY <3>4 DEF Above, Closed
      <4> QED BY <3>3, <3>4, <4>1
    <3>5. CASE ~Closed(X)
      <4>1. PICK t : Out(X, t)
        BY <2>3, <3>2, <3>5
      <4>2. IsFiniteSet(X) /\ Cardinality(X) = n
        BY <2>3, <3>1, <3>2, <3>5
      <4>3. PICK p : p = rows[t].parent
        OBVIOUS
      <4>4. p \in Rows /\ p < t /\ p \notin X /\ t \in Rows /\ p # Root
        BY <2>1, <4>1, <4>3
      <4>5. Above(X) = X \cup {p}
        BY <4>1, <4>3 DEF Above
      <4>6. IsFiniteSet(X \cup {p}) /\ Cardinality(X \cup {p}) = n + 1
        BY <3>1, <4>2, <4>4, FS_AddElement
      <4>7. \A j \in X : rows[j].parent \in X \cup {p} /\ rows[j].parent # Root
        BY <4>1, <4>3, <4>4
      <4>8. \A j \in X \cup {p} : p <= j
        BY <2>1, <4>1, <4>4
      <4>9. Closed(X \cup {p}) \/ Out(X \cup {p}, p)
        <5>1. CASE rows[p].parent \in X \cup {p} \cup {Root}
          BY <4>7, <5>1 DEF Closed
        <5>2. CASE rows[p].parent \notin X \cup {p} \cup {Root}
          BY <4>7, <4>8, <5>2
        <5> QED BY <5>1, <5>2
      <4> HIDE DEF Out
      <4> QED BY <3>3, <4>5, <4>6, <4>9
    <3> QED BY <3>4, <3>5
  <2>4. Height \in T
    <3> HIDE DEF T
    <3> QED BY <1>2, <2>2, <2>3, Climbs
  <2>5. SUFFICES ASSUME NEW X, X = WayTo(i), NEW t, Out(X, t),
                        IsFiniteSet(X), Cardinality(X) = Height + 1
                 PROVE  FALSE
    BY <1>2, <2>4
  <2>6. X \subseteq PageIds
    <3>1. \A j \in X : rows[j].parent # Root /\ j \in Rows
      BY <1>2, <2>5
    <3> QED BY <3>1 DEF CatTypes, Rows, Nodes
  <2>7. Cardinality(X) <= Height
    BY <2>6, CatalogueAssumption, FS_Subset DEF Height
  <2> QED BY <1>2, <2>5, <2>7
<1> QED BY <1>2, <1>3, <1>4, <1>5

\* A page opens if it is visible itself, and what it is under opens.
LEMMA OpensUnder ==
    ASSUME CatTypes, Rooted, NEW v, NEW i \in Rows, VisibleAs(i, v),
           rows[i].parent = Root \/ OpensFor(rows[i].parent, v)
    PROVE  OpensFor(i, v)
<1>1. CASE rows[i].parent = Root
  <2>1. WayTo(i) \subseteq {i}
    BY <1>1, WayIs DEF Closed
  <2> QED BY <2>1 DEF OpensFor
<1>2. CASE rows[i].parent # Root
  <2>1. PICK p \in Rows : p = rows[i].parent
    BY <1>2 DEF Rooted, Rows
  <2>2. p \in WayTo(p) /\ Closed(WayTo(p))
    BY WayIs
  <2>3. WayTo(i) \subseteq {i} \cup WayTo(p)
    <3>1. Closed({i} \cup WayTo(p))
      BY <2>1, <2>2 DEF Closed
    <3> QED BY <3>1, WayIs
  <2> QED BY <1>2, <2>1, <2>3 DEF OpensFor
<1> QED BY <1>1, <1>2

\* Then what it is under opens, too, and is visible.
LEMMA OpensAbove ==
    ASSUME CatTypes, Rooted, NEW v, NEW i \in Rows, OpensFor(i, v)
    PROVE  VisibleAs(i, v) /\ \A j \in WayTo(i) : j \in Rows /\ OpensFor(j, v)
<1>1. i \in WayTo(i) /\ Closed(WayTo(i)) /\ WayTo(i) \subseteq Rows
  BY WayIs
<1>2. \A j \in WayTo(i) : WayTo(j) \subseteq WayTo(i)
  BY <1>1, WayIs
<1> QED BY <1>1, <1>2 DEF OpensFor

-----------------------------------------------------------------------------

(***************************************************************************)
(* Windows on a list.                                                      *)
(***************************************************************************)

\* The first and the last place of a window.
From(n)    == (n - 1) * GridSize + 1
Upto(n, q) == IF n * GridSize < Len(q) THEN n * GridSize ELSE Len(q)

LEMMA WindowIs ==
    ASSUME NEW S, NEW q, Lists(q, S), NEW n \in Nat \ {0}
    PROVE  /\ Range(Window(q, n)) \subseteq S
           /\ \A k \in 1 .. Len(q) : From(n) <= k /\ k <= n * GridSize => q[k] \in Range(Window(q, n))
<1>1. q \in Seq(S) /\ Len(q) \in Nat /\ DOMAIN q = 1 .. Len(q) /\ Range(q) = S
  BY DEF Lists
<1>2. GridSize \in Nat \ {0}
  BY CatalogueAssumption
<1>3. PICK a, b : a = From(n) /\ b = Upto(n, q)
  OBVIOUS
<1>4. (n - 1) * GridSize \in Nat /\ n * GridSize \in Nat
  BY <1>2
<1>5. a \in Nat /\ a >= 1 /\ b \in Nat /\ b <= Len(q)
      /\ \A k \in 1 .. Len(q) : k <= n * GridSize => k <= b
  <2>1. PICK f \in Nat, t \in Nat : f = (n - 1) * GridSize /\ t = n * GridSize
    BY <1>4
  <2>2. a = f + 1 /\ b = (IF t < Len(q) THEN t ELSE Len(q))
    BY <1>3, <2>1 DEF From, Upto
  <2>3. PICK l \in Nat : l = Len(q)
    BY <1>1
  <2>4. a \in Nat /\ a >= 1 /\ b \in Nat /\ b <= l /\ \A k \in 1 .. l : k <= t => k <= b
    BY <2>2, <2>3
  <2> QED BY <2>1, <2>3, <2>4
<1>6. Window(q, n) = SubSeq(q, a, b)
  BY <1>3 DEF Window, From, Upto
<1>7. /\ DOMAIN SubSeq(q, a, b) = 1 .. (IF a <= b THEN b - a + 1 ELSE 0)
      /\ \A k \in 1 .. (IF a <= b THEN b - a + 1 ELSE 0) : SubSeq(q, a, b)[k] = q[a + k - 1]
  BY <1>1, <1>5
<1>8. Range(Window(q, n)) \subseteq S
  <2>1. ASSUME NEW k \in 1 .. (IF a <= b THEN b - a + 1 ELSE 0) PROVE q[a + k - 1] \in S
    <3>1. a + k - 1 \in 1 .. Len(q)
      BY <1>1, <1>5
    <3> QED BY <1>1, <3>1
  <2> QED BY <1>6, <1>7, <2>1 DEF Range
<1>9. ASSUME NEW k \in 1 .. Len(q), From(n) <= k, k <= n * GridSize
      PROVE  q[k] \in Range(Window(q, n))
  <2>1. a <= k /\ k <= b
    BY <1>3, <1>5, <1>9
  <2>2. k - a + 1 \in 1 .. (IF a <= b THEN b - a + 1 ELSE 0)
    BY <1>1, <1>5, <2>1
  <2>3. SubSeq(q, a, b)[k - a + 1] = q[a + (k - a + 1) - 1] /\ a + (k - a + 1) - 1 = k
    BY <1>1, <1>5, <1>7, <2>2
  <2>4. SubSeq(q, a, b)[k - a + 1] = q[k]
    BY <2>3
  <2> QED BY <1>6, <1>7, <2>2, <2>4 DEF Range
<1> QED BY <1>8, <1>9

\* Every place is in a window, and in one that the pager has.
LEMMA Turned ==
    ASSUME NEW L \in Nat, NEW k \in 1 .. L
    PROVE  \E n \in Nat \ {0} : /\ From(n) <= k /\ k <= n * GridSize
                                /\ n <= (L + GridSize - 1) \div GridSize
<1>1. PICK G \in Nat \ {0} : G = GridSize
  BY CatalogueAssumption
<1> DEFINE Far == {n \in Nat : k <= n * G}
<1>2. k \in Far
  <2>1. k \in Nat /\ k * G >= k
    BY <1>1
  <2> QED BY <2>1
<1>3. PICK n \in Far : \A m \in Far : n <= m
  <2>1. Far \subseteq Nat /\ Far # {}
    BY <1>2
  <2> HIDE DEF Far
  <2> QED BY <2>1, LeastOf
<1>4. n \in Nat \ {0}
  <2>1. 0 * G = 0
    BY <1>1
  <2> QED BY <2>1
<1>5. (n - 1) * G < k
  <2>1. n - 1 \in Nat /\ ~(n <= n - 1)
    BY <1>4
  <2>2. n - 1 \notin Far
    BY <1>3, <2>1
  <2>3. (n - 1) * G \in Nat
    BY <2>1
  <2> QED BY <2>1, <2>2, <2>3
<1>6. (n - 1) * G \in Nat /\ k \in Nat
  BY <1>4
<1>7. PICK last : last = (L + G - 1) \div G
  OBVIOUS
<1>8. last \in Nat /\ L + G - 1 < (last + 1) * G
  BY <1>7
<1>9. n * G = (n - 1) * G + G
  BY <1>4
<1>10. n * G < (last + 1) * G
  <2>1. n * G \in Nat /\ (last + 1) * G \in Nat
    BY <1>4, <1>8
  <2> QED BY <1>5, <1>6, <1>8, <1>9, <2>1
<1>11. n < last + 1
  BY <1>4, <1>8, <1>10
<1>12. n <= last
  BY <1>4, <1>8, <1>11
<1>13. From(n) <= k
  <2>1. PICK f \in Nat : f = (n - 1) * G
    BY <1>6
  <2>2. From(n) = f + 1
    BY <1>1, <2>1 DEF From
  <2> QED BY <1>5, <1>6, <2>1, <2>2
<1>14. k <= n * GridSize
  BY <1>1, <1>3
<1> QED BY <1>1, <1>4, <1>7, <1>12, <1>13, <1>14

-----------------------------------------------------------------------------

LEMMA ListedIs ==
    ASSUME CatTypes, NEW p, NEW q, NEW v
    PROVE  /\ Listed(p, q, v) \subseteq Rows /\ IsFiniteSet(Listed(p, q, v))
           /\ Listed(p, q, v) = {i \in Under(p) : Matches(i, q) /\ VisibleAs(i, v)}
<1>1. second \in Nat /\ \A i \in Rows : rows[i].date \in Nat
  <2>1. second \in Nat
    BY CatalogueAssumption DEF CatTypes
  <2> QED BY <2>1, RowsAre
<1>2. Under(p) \subseteq Rows
  BY DEF Under, Rows
<1>3. \A i \in Under(p) : rows[i].date <= second <=> ~Scheduled(i)
  BY <1>1, <1>2 DEF Scheduled
<1>4. Listed(p, q, v) = {i \in Under(p) : Matches(i, q) /\ VisibleAs(i, v)}
  BY <1>3 DEF Listed, VisibleAs
<1>5. Listed(p, q, v) \subseteq Rows
  BY <1>2, <1>4
<1> QED BY <1>4, <1>5, RowsAre, FS_Subset

LEMMA TotalIs ==
    ASSUME CatTypes, NEW p, NEW q, NEW v
    PROVE  /\ CountChildren(p, q, v) \in Nat /\ TotalPages(p, q, v) \in Nat \ {0}
           /\ (CountChildren(p, q, v) + GridSize - 1) \div GridSize <= TotalPages(p, q, v)
<1>1. PICK L \in Nat : L = CountChildren(p, q, v)
  BY ListedIs, FS_CardinalityType DEF CountChildren
<1>2. PICK d : d = (L + GridSize - 1) \div GridSize
  OBVIOUS
<1>3. d \in Nat
  BY <1>2, CatalogueAssumption
<1> DEFINE P == {d, 1}
<1>4. P \subseteq 0 .. (d + 1) /\ d + 1 \in Nat /\ P # {}
  BY <1>3
<1>5. Max(P) \in P /\ \A x \in P : x <= Max(P)
  <2> HIDE DEF P
  <2> QED BY <1>4, MaxOf
<1>6. TotalPages(p, q, v) = Max(P)
  BY <1>1, <1>2 DEF TotalPages
<1> HIDE DEF P
<1>7. d \in P /\ 1 \in P /\ P \subseteq Nat
  BY <1>3 DEF P
<1>8. Max(P) \in Nat /\ d <= Max(P) /\ 1 <= Max(P)
  BY <1>5, <1>7
<1> QED BY <1>1, <1>2, <1>6, <1>8

\* A window shows some of what is listed; the pager's windows show all of it.
LEMMA PaginateIs ==
    ASSUME CatTypes, NEW p, NEW q, NEW order, NEW v, NEW n \in Nat
    PROVE  /\ Range(Paginate(p, q, order, v, n).items) \subseteq Listed(p, q, v)
           /\ n \in 1 .. TotalPages(p, q, v) =>
                Paginate(p, q, order, v, n).items =
                  IF order = "newest" THEN Window(Newest(Listed(p, q, v)), n)
                  ELSE Window(InOrder(Listed(p, q, v)), n)
<1>1. PICK last \in Nat \ {0} : last = TotalPages(p, q, v)
  BY TotalIs
<1>2. PICK least : least = Min({n, last})
  OBVIOUS
<1>3. least \in {n, last} /\ least <= n /\ least <= last
  <2> DEFINE P == {n, last}
  <2>1. P \subseteq Nat /\ P # {}
    OBVIOUS
  <2>2. Min(P) \in P /\ \A x \in P : Min(P) <= x
    <3> HIDE DEF P
    <3> QED BY <2>1, MinOf
  <2> QED BY <1>2, <2>2
<1>4. PICK page : page = Max({1, least})
  OBVIOUS
<1>5. page \in {1, least} /\ page >= 1 /\ page >= least
  <2> DEFINE P == {1, least}
  <2>1. P \subseteq 0 .. (n + last + 1) /\ P # {} /\ n + last + 1 \in Nat
    BY <1>3
  <2>2. Max(P) \in P /\ \A x \in P : x <= Max(P)
    <3> HIDE DEF P
    <3> QED BY <2>1, MaxOf
  <2>3. \A x \in P : x \in Nat
    BY <1>3
  <2> QED BY <1>4, <2>2, <2>3
<1>6. page \in Nat \ {0} /\ (n \in 1 .. last => page = n)
  BY <1>3, <1>5
<1>7. Paginate(p, q, order, v, n).items =
        IF order = "newest" THEN Window(Newest(Listed(p, q, v)), page)
        ELSE Window(InOrder(Listed(p, q, v)), page)
  BY <1>1, <1>2, <1>4 DEF Paginate, ChildrenNewest, ChildrenOrdered
<1>8. Lists(Newest(Listed(p, q, v)), Listed(p, q, v)) /\ Lists(InOrder(Listed(p, q, v)), Listed(p, q, v))
  BY ListedIs, NewestLists, InOrderLists
<1>9. /\ Range(Window(Newest(Listed(p, q, v)), page)) \subseteq Listed(p, q, v)
      /\ Range(Window(InOrder(Listed(p, q, v)), page)) \subseteq Listed(p, q, v)
  BY <1>6, <1>8, WindowIs
<1> QED BY <1>1, <1>6, <1>7, <1>9

\* Who follows the pager to its end has seen everything once.
LEMMA LeafedIs ==
    ASSUME CatTypes, NEW p, NEW q, NEW order, NEW v
    PROVE  Leafed(p, q, order, v) = Listed(p, q, v)
<1>1. PICK S : S = Listed(p, q, v)
  OBVIOUS
<1>2. PICK s : s = IF order = "newest" THEN Newest(S) ELSE InOrder(S)
  OBVIOUS
<1>3. Lists(s, S)
  BY <1>1, <1>2, ListedIs, NewestLists, InOrderLists
<1>4. PICK last \in Nat \ {0} : last = TotalPages(p, q, v)
  BY TotalIs
<1>5. \A n \in 1 .. last : Paginate(p, q, order, v, n).items = Window(s, n)
  BY <1>1, <1>2, <1>4, PaginateIs
<1>6. Leafed(p, q, order, v) = UNION {Range(Window(s, n)) : n \in 1 .. last}
  BY <1>4, <1>5 DEF Leafed
<1>7. \A n \in 1 .. last : Range(Window(s, n)) \subseteq S
  BY <1>3, <1>4, WindowIs
<1>8. ASSUME NEW i \in S PROVE \E n \in 1 .. last : i \in Range(Window(s, n))
  <2>1. Len(s) = CountChildren(p, q, v) /\ Len(s) \in Nat /\ DOMAIN s = 1 .. Len(s) /\ Range(s) = S
    BY <1>1, <1>3 DEF Lists, CountChildren
  <2>2. PICK k \in 1 .. Len(s) : s[k] = i
    BY <2>1, <1>8 DEF Range
  <2>3. PICK n \in Nat \ {0} : /\ From(n) <= k /\ k <= n * GridSize
                               /\ n <= (Len(s) + GridSize - 1) \div GridSize
    BY <2>1, Turned
  <2>4. PICK d : d = (Len(s) + GridSize - 1) \div GridSize
    OBVIOUS
  <2>5. d <= last /\ n <= d /\ d \in Nat
    <3>1. d \in Nat
      BY <2>1, <2>4, CatalogueAssumption
    <3> QED BY <1>4, <2>1, <2>3, <2>4, <3>1, TotalIs
  <2>6. n \in 1 .. last
    BY <1>4, <2>5
  <2>7. i \in Range(Window(s, n))
    BY <1>3, <2>2, <2>3, WindowIs
  <2> QED BY <2>6, <2>7
<1> QED BY <1>1, <1>6, <1>7, <1>8

-----------------------------------------------------------------------------

(***************************************************************************)
(* The covers from below.                                                  *)
(***************************************************************************)

LEMMA ScannedIs ==
    ASSUME CatTypes, NEW j, NEW v
    PROVE  DOMAIN Scanned(j, v) \subseteq Nat /\ Range(Scanned(j, v)) \subseteq Listed(j, NoSearch, v)
<1>1. PICK S, q : S = Listed(j, NoSearch, v) /\ q = InOrder(S)
  OBVIOUS
<1>2. Lists(q, S)
  BY <1>1, ListedIs, InOrderLists
<1>3. Scanned(j, v) = FirstOf(q, RollupScan) /\ RollupScan \in Nat
  BY <1>1, CatalogueAssumption DEF Scanned
<1>4. Range(FirstOf(q, RollupScan)) \subseteq S
  BY <1>2, <1>3, FirstOfLists
<1>5. DOMAIN FirstOf(q, RollupScan) \subseteq Nat
  <2>1. q \in Seq(S) /\ Len(q) \in Nat
    BY <1>2 DEF Lists
  <2>2. PICK m \in Nat : FirstOf(q, RollupScan) = SubSeq(q, 1, m) /\ m <= Len(q)
    BY <1>3, <2>1 DEF FirstOf
  <2>3. DOMAIN SubSeq(q, 1, m) = 1 .. m
    BY <2>1, <2>2
  <2> QED BY <2>2, <2>3
<1> QED BY <1>1, <1>3, <1>4, <1>5

\* A cover is a child's, or what the child has from below, if it is one at all.
LEMMA CoverOfIs ==
    ASSUME NEW kids, DOMAIN kids \subseteq Nat, NEW below
    PROVE  \/ CoverOf(kids, below) = Root
           \/ \E kid \in Range(kids) : CoverOf(kids, below) = kid \/ CoverOf(kids, below) = below[kid]
<1> DEFINE has == {n \in DOMAIN kids : rows[kids[n]].text = "embed" \/ below[kids[n]] # Root}
<1>1. CASE has = {}
  BY <1>1 DEF CoverOf
<1>2. CASE has # {}
  <2>1. Min(has) \in DOMAIN kids
    <3>1. has \subseteq Nat /\ has \subseteq DOMAIN kids
      OBVIOUS
    <3>2. Min(has) \in has
      <4> HIDE DEF has
      <4> QED BY <1>2, <3>1, MinOf
    <3> HIDE DEF has
    <3> QED BY <3>1, <3>2
  <2>2. PICK kid : kid = kids[Min(has)]
    OBVIOUS
  <2>3. kid \in Range(kids)
    BY <2>1, <2>2 DEF Range
  <2>4. CoverOf(kids, below) = IF rows[kid].text = "embed" THEN kid ELSE below[kid]
    BY <1>2, <2>2 DEF CoverOf
  <2> QED BY <2>3, <2>4
<1> QED BY <1>1, <1>2

\* The covers of all nodes, as deep as one looks.
Depths(from, v) ==
    /\ from \in [0 .. RollupDepth -> [Nodes -> Nodes \cup {Root}]]
    /\ from[0] = [j \in Nodes |-> Root]
    /\ \A d \in 1 .. RollupDepth : from[d] = [j \in Nodes |-> CoverOf(Scanned(j, v), from[d-1])]

LEMMA Depth ==
    ASSUME CatTypes, NEW v
    PROVE  \E from : Depths(from, v) /\ \A i : Cover(i, v) = IF rows[i].text = "embed" THEN i
                                                            ELSE from[RollupDepth][i]
<1> DEFINE S == [Nodes -> Nodes \cup {Root}]
           step == [h \in S |-> [j \in Nodes |-> CoverOf(Scanned(j, v), h)]]
           none == [j \in Nodes |-> Root]
           Dig(f) == [d \in 0 .. RollupDepth |->
                        IF d = 0 THEN [j \in Nodes |-> Root]
                        ELSE [j \in Nodes |-> CoverOf(Scanned(j, v), f[d-1])]]
           W == CHOOSE f : f = Dig(f)
<1>1. RollupDepth \in Nat
  BY CatalogueAssumption
<1>2. \A i : Cover(i, v) = IF rows[i].text = "embed" THEN i ELSE W[RollupDepth][i]
  BY DEF Cover
<1>3. step \in [S -> S] /\ none \in S
  <2>1. ASSUME NEW h \in S, NEW j \in Nodes PROVE CoverOf(Scanned(j, v), h) \in Nodes \cup {Root}
    <3>1. PICK kids : kids = Scanned(j, v)
      OBVIOUS
    <3>2. DOMAIN kids \subseteq Nat /\ Range(kids) \subseteq Nodes
      BY <3>1, ScannedIs, ListedIs DEF Rows
    <3>3. \/ CoverOf(kids, h) = Root
          \/ \E kid \in Range(kids) : CoverOf(kids, h) = kid \/ CoverOf(kids, h) = h[kid]
      BY <3>2, CoverOfIs
    <3> QED BY <3>1, <3>2, <3>3
  <2> QED BY <2>1
<1>4. PICK f \in [0 .. RollupDepth -> S] :
        /\ f[0] = none
        /\ \A d \in 1 .. RollupDepth : f[d] = step[f[d-1]]
  <2>1. PICK T, g, x : T = S /\ g = step /\ x = none
    OBVIOUS
  <2> HIDE DEF step, S, none
  <2>2. g \in [T -> T] /\ x \in T
    BY <1>3, <2>1
  <2>3. \E f \in [0 .. RollupDepth -> T] : Iterated(f, RollupDepth, x, g)
    BY <1>1, <2>2, Iterates
  <2> QED BY <2>1, <2>3 DEF Iterated
<1>5. \A d \in 1 .. RollupDepth : d - 1 \in 0 .. RollupDepth /\ d \in 0 .. RollupDepth /\ d # 0
  BY <1>1
<1>6. \A d \in 1 .. RollupDepth : f[d] = [j \in Nodes |-> CoverOf(Scanned(j, v), f[d-1])]
  <2> SUFFICES ASSUME NEW d \in 1 .. RollupDepth
               PROVE  f[d] = [j \in Nodes |-> CoverOf(Scanned(j, v), f[d-1])]
    OBVIOUS
  <2>1. PICK h \in S : h = f[d-1]
    BY <1>4, <1>5
  <2>2. f[d] = step[h]
    BY <1>4, <2>1
  <2>3. step[h] = [j \in Nodes |-> CoverOf(Scanned(j, v), h)]
    OBVIOUS
  <2> QED BY <2>1, <2>2, <2>3
<1>7. f = Dig(f)
  <2>1. \A d \in 0 .. RollupDepth : f[d] = Dig(f)[d]
    <3> SUFFICES ASSUME NEW d \in 0 .. RollupDepth PROVE f[d] = Dig(f)[d]
      OBVIOUS
    <3>1. CASE d = 0
      BY <1>4, <3>1
    <3>2. CASE d # 0
      <4>1. f[d] = [j \in Nodes |-> CoverOf(Scanned(j, v), f[d-1])]
        <5>1. d \in 1 .. RollupDepth
          BY <1>1, <3>2
        <5> QED BY <1>6, <5>1
      <4>2. Dig(f)[d] = [j \in Nodes |-> CoverOf(Scanned(j, v), f[d-1])]
        BY <3>2
      <4> QED BY <4>1, <4>2
    <3> QED BY <3>1, <3>2
  <2>2. f = [d \in 0 .. RollupDepth |-> f[d]] /\ Dig(f) = [d \in 0 .. RollupDepth |-> Dig(f)[d]]
    OBVIOUS
  <2> HIDE DEF Dig
  <2> QED BY <2>1, <2>2
<1>8. W = Dig(W)
  <2> HIDE DEF Dig
  <2> QED BY <1>7, Zenon
<1> HIDE DEF W
<1>9. W[0] = none /\ \A d \in 1 .. RollupDepth : W[d] = [j \in Nodes |-> CoverOf(Scanned(j, v), W[d-1])]
  <2>1. 0 \in 0 .. RollupDepth /\ \A d \in 0 .. RollupDepth : W[d] = Dig(W)[d]
    <3> HIDE DEF Dig
    <3> QED BY <1>1, <1>8
  <2> QED BY <1>5, <2>1
<1>10. \A d \in 0 .. RollupDepth : W[d] = f[d]
  <2> DEFINE Same == {d \in 0 .. RollupDepth : W[d] = f[d]}
  <2>1. 0 \in 0 .. RollupDepth /\ W[0] = f[0]
    BY <1>1, <1>4, <1>9
  <2>2. ASSUME NEW d \in 0 .. RollupDepth, d > 0, d - 1 \in Same PROVE d \in Same
    <3>1. d \in 1 .. RollupDepth /\ W[d-1] = f[d-1]
      BY <1>1, <2>2
    <3>2. W[d] = [j \in Nodes |-> CoverOf(Scanned(j, v), W[d-1])]
          /\ f[d] = [j \in Nodes |-> CoverOf(Scanned(j, v), f[d-1])]
      BY <1>6, <1>9, <3>1
    <3> QED BY <3>1, <3>2
  <2>3. \A d \in 0 .. RollupDepth : d \in Same
    <3>1. 0 \in Same
      BY <2>1 DEF Same
    <3> HIDE DEF Same
    <3> QED BY <1>1, <3>1, <2>2, Climbs
  <2> QED BY <2>3
<1>11. Depths(f, v)
  BY <1>4, <1>6 DEF Depths
<1>12. \A i : Cover(i, v) = IF rows[i].text = "embed" THEN i ELSE f[RollupDepth][i]
  BY <1>1, <1>2, <1>10
<1> QED BY <1>11, <1>12

\* The cover of a page that opens is that of a page that opens.
LEMMA CoverIs ==
    ASSUME CatTypes, Rooted, NEW v, NEW i \in Rows, OpensFor(i, v)
    PROVE  Cover(i, v) = Root \/ (Cover(i, v) \in Rows /\ OpensFor(Cover(i, v), v))
<1> DEFINE Opened == {j \in Rows : OpensFor(j, v)}
<1>1. PICK from : Depths(from, v) /\ Cover(i, v) = IF rows[i].text = "embed" THEN i
                                                  ELSE from[RollupDepth][i]
  BY Depth
<1>2. RollupDepth \in Nat /\ Opened \subseteq Nodes
  BY CatalogueAssumption DEF Rows
<1> DEFINE T == {d \in 0 .. RollupDepth : \A j \in Opened : from[d][j] \in Opened \cup {Root}}
<1>3. 0 \in T
  BY <1>1, <1>2 DEF Depths
<1>4. ASSUME NEW d \in 0 .. RollupDepth, d > 0, d - 1 \in T PROVE d \in T
  <2> SUFFICES ASSUME NEW j \in Opened PROVE from[d][j] \in Opened \cup {Root}
    OBVIOUS
  <2>1. PICK kids, below : kids = Scanned(j, v) /\ below = from[d-1]
    OBVIOUS
  <2>2. from[d][j] = CoverOf(kids, below)
    <3>1. d \in 1 .. RollupDepth /\ j \in Nodes
      BY <1>2, <1>4
    <3>2. from[d] = [k \in Nodes |-> CoverOf(Scanned(k, v), below)]
      BY <1>1, <2>1, <3>1 DEF Depths
    <3> QED BY <2>1, <3>1, <3>2
  <2>3. DOMAIN kids \subseteq Nat /\ Range(kids) \subseteq Listed(j, NoSearch, v)
    BY <2>1, ScannedIs
  <2>4. Range(kids) \subseteq Opened
    <3> SUFFICES ASSUME NEW k \in Range(kids) PROVE k \in Rows /\ OpensFor(k, v)
      OBVIOUS
    <3>1. k \in Rows /\ k \in Under(j) /\ VisibleAs(k, v)
      BY <2>3, ListedIs
    <3> QED BY <3>1, OpensUnder DEF Under
  <2>5. \/ CoverOf(kids, below) = Root
        \/ \E kid \in Range(kids) : CoverOf(kids, below) = kid \/ CoverOf(kids, below) = below[kid]
    BY <2>3, CoverOfIs
  <2>6. \A k \in Opened : below[k] \in Opened \cup {Root}
    BY <1>4, <2>1
  <2> HIDE DEF Opened
  <2> QED BY <2>2, <2>4, <2>5, <2>6
<1>5. RollupDepth \in T
  <2> HIDE DEF T
  <2> QED BY <1>2, <1>3, <1>4, Climbs
<1>6. from[RollupDepth][i] \in Opened \cup {Root}
  BY <1>5
<1> QED BY <1>1, <1>6

-----------------------------------------------------------------------------

(***************************************************************************)
(* What the routes list.                                                   *)
(***************************************************************************)

Opened(v) == {i \in Nodes : There(i) /\ OpensFor(i, v)}

\* What is visible under a page that opens, or at the top, opens.
LEMMA OpenChild ==
    ASSUME CatTypes, Rooted, NEW v, NEW p, p = Root \/ p \in Opened(v),
           NEW i \in Under(p), VisibleAs(i, v)
    PROVE  i \in Opened(v)
<1>1. i \in Rows /\ rows[i].parent = p /\ (p = Root \/ OpensFor(p, v))
  BY DEF Under, Rows, Opened
<1>2. OpensFor(i, v)
  BY <1>1, OpensUnder
<1> QED BY <1>1, <1>2 DEF Opened, Rows

\* A section whose row can be seen opens: it is at the top.
LEMMA OpenSection ==
    ASSUME CatTypes, Rooted, NEW v, NEW s \in Specials, SectionOpen(s, v)
    PROVE  s \in Opened(v)
<1>1. s \in Under(Root) /\ VisibleAs(s, v)
  BY DEF SectionOpen, CatTypes, Under, Nodes
<1> QED BY <1>1, OpenChild

\* What everybody can see, each can see.
LEMMA PublicIs ==
    ASSUME CatTypes, NEW v \in Ladder, NEW i \in Rows, VisibleAs(i, 0)
    PROVE  VisibleAs(i, v)
<1>1. rows[i].gate \in Nat /\ v \in Nat
  <2>1. \A r \in PageRow : r.gate \in Ladder
    BY DEF PageRow
  <2> QED BY <2>1, RowsAre, CatalogueAssumption DEF Ladder
<1>2. TopRank # 0
  BY CatalogueAssumption
<1> QED BY <1>1, <1>2 DEF VisibleAs

\* Nothing is listed that was not in the set.
LEMMA RangesAre ==
    ASSUME CatTypes, NEW S, S \subseteq Rows
    PROVE  /\ Range(Newest(S)) = S /\ Range(InOrder(S)) = S /\ Range(Pinned(S)) \subseteq S
           /\ \A n \in Nat : Range(FirstOf(Newest(S), n)) \subseteq S
           /\ \A n \in Nat : Range(FirstOf(InOrder(S), n)) \subseteq S
<1>1. /\ Lists(Newest(S), S) /\ Lists(InOrder(S), S)
      /\ Lists(Pinned(S), {i \in S : rows[i].pinned})
  BY NewestLists, InOrderLists, PinnedLists
<1>2. \A n \in Nat : Range(FirstOf(Newest(S), n)) \subseteq S
                     /\ Range(FirstOf(InOrder(S), n)) \subseteq S
  BY <1>1, FirstOfLists
<1> QED BY <1>1, <1>2 DEF Lists

LEMMA NeighboursAre ==
    ASSUME NEW S, NEW q, Lists(q, S), NEW i
    PROVE  Around(q, i) \subseteq S
<1>1. \A n \in DOMAIN q : q[n] \in S
  BY DEF Lists
<1> QED BY <1>1 DEF Around

\* The lists of a section: its children who can be seen, if it can.
LEMMA SectionLists ==
    ASSUME CatTypes, Rooted, NEW v, NEW s \in Specials, SectionOpen(s, v)
    PROVE  SeenBy(Under(s), v) \subseteq Opened(v) \cap Rows
<1>1. s \in Opened(v)
  BY OpenSection
<1>2. ASSUME NEW i \in SeenBy(Under(s), v) PROVE i \in Opened(v) \cap Rows
  <2>1. i \in Under(s) /\ VisibleAs(i, v)
    BY <1>2 DEF SeenBy
  <2> QED BY <1>1, <2>1, OpenChild DEF Under, Rows
<1> QED BY <1>2

\* Of the home page, the 3D index and the resume.
LEMMA IndexesOpen ==
    ASSUME CatTypes, Rooted, NEW v \in Ladder
    PROVE  Range(Featured(v)) \cup Range(Latest(v)) \cup Range(ThreeDIndex(v)) \cup Range(Resume(v))
             \subseteq Opened(v)
<1>0. {BlogPage, ProjectsPage, ThreeDPage, ResumePage, LibraryPage} \subseteq Specials
  BY DEF BlogPage, ProjectsPage, ThreeDPage, ResumePage, LibraryPage, Specials
<1>1. HomeRows(v) \subseteq Opened(v) \cap Rows
  <2> SUFFICES ASSUME NEW i \in HomeRows(v) PROVE i \in Opened(v) \cap Rows
    OBVIOUS
  <2>1. PICK s \in {BlogPage, ProjectsPage} :
          i \in IF SectionOpen(s, v) THEN Range(FirstOf(Newest(Under(s)), HomeFetch)) ELSE {}
    BY DEF HomeRows, SeenBy
  <2>2. SectionOpen(s, v) /\ i \in Range(FirstOf(Newest(Under(s)), HomeFetch)) /\ VisibleAs(i, v)
    BY <2>1 DEF HomeRows, SeenBy
  <2>3. Under(s) \subseteq Rows /\ HomeFetch \in Nat
    BY CatalogueAssumption DEF Under, Rows
  <2>4. i \in Under(s)
    BY <2>2, <2>3, RangesAre
  <2>5. i \in SeenBy(Under(s), v)
    BY <2>2, <2>4 DEF SeenBy
  <2> QED BY <1>0, <2>2, <2>5, SectionLists
<1>2. Range(Featured(v)) \subseteq Opened(v)
  BY <1>1, RangesAre DEF Featured
<1>3. Range(Latest(v)) \subseteq Opened(v)
  <2>1. Unpinned(HomeRows(v)) \subseteq Opened(v) \cap Rows /\ BandSize \in Nat
    BY <1>1, CatalogueAssumption DEF Unpinned
  <2> QED BY <2>1, RangesAre DEF Latest
<1>4. Range(<<>>) = {}
  BY DEF Range
<1>5. Range(ThreeDIndex(v)) \subseteq Opened(v)
  <2>1. CASE ~SectionOpen(ThreeDPage, v)
    BY <1>4, <2>1 DEF ThreeDIndex
  <2>2. CASE SectionOpen(ThreeDPage, v)
    <3>1. PICK models : models = SeenBy(Under(ThreeDPage), v)
      OBVIOUS
    <3>2. models \subseteq Opened(v) \cap Rows
      BY <1>0, <2>2, <3>1, SectionLists
    <3>3. PICK a, b : a = Pinned(models) /\ b = InOrder(Unpinned(models))
      OBVIOUS
    <3>4. Lists(a, {i \in models : rows[i].pinned}) /\ Lists(b, Unpinned(models))
      <4>1. Unpinned(models) \subseteq Rows
        BY <3>2 DEF Unpinned
      <4> QED BY <3>2, <3>3, <4>1, PinnedLists, InOrderLists
    <3>5. a \in Seq(models) /\ b \in Seq(models)
      BY <3>4 DEF Lists, Unpinned
    <3>6. a \o b \in Seq(models)
      BY <3>5
    <3>7. Range(a \o b) \subseteq models
      BY <3>6 DEF Range
    <3>8. ThreeDIndex(v) = a \o b
      BY <2>2, <3>1, <3>3 DEF ThreeDIndex
    <3> QED BY <3>2, <3>7, <3>8
  <2> QED BY <2>1, <2>2
<1>6. Range(Resume(v)) \subseteq Opened(v)
  <2>1. CASE ~SectionOpen(ResumePage, v)
    BY <1>4, <2>1 DEF Resume
  <2>2. CASE SectionOpen(ResumePage, v)
    <3>1. SeenBy(Under(ResumePage), v) \subseteq Opened(v) \cap Rows
      BY <1>0, <2>2, SectionLists
    <3> QED BY <2>2, <3>1, RangesAre DEF Resume
  <2> QED BY <2>1, <2>2
<1> QED BY <1>2, <1>3, <1>5, <1>6

\* Of the navigation, the sitemap and the feed.
LEMMA PublicListsOpen ==
    ASSUME CatTypes, Rooted, NEW v \in Ladder
    PROVE  (Tabs(v) \ Specials) \cup Range(FirstPage) \cup Sitemap
             \cup {e.id : e \in SectionEntries(BlogPage) \cup SectionEntries(ProjectsPage)}
             \subseteq Opened(v)
<1>0. {BlogPage, ProjectsPage, ThreeDPage, ResumePage, LibraryPage} \subseteq Specials
  BY DEF BlogPage, ProjectsPage, ThreeDPage, ResumePage, LibraryPage, Specials
<1>1. ASSUME NEW i \in Under(Root), VisibleAs(i, 0) PROVE i \in Opened(v)
  <2>1. VisibleAs(i, v)
    BY <1>1, PublicIs DEF Under, Rows
  <2> QED BY <2>1, OpenChild
<1>2. ASSUME NEW s \in Specials, SectionOpen(s, 0), NEW i \in Under(s), VisibleAs(i, 0)
      PROVE  i \in Opened(v)
  <2>1. s \in Rows /\ VisibleAs(s, 0) /\ i \in Rows
    BY <1>2 DEF SectionOpen, Under, Rows, Nodes
  <2>2. SectionOpen(s, v) /\ VisibleAs(i, v)
    BY <1>2, <2>1, PublicIs DEF SectionOpen
  <2>3. s \in Opened(v)
    BY <2>2, OpenSection
  <2> QED BY <2>2, <2>3, OpenChild
<1>3. Tabs(v) \ Specials \subseteq Opened(v)
  <2> SUFFICES ASSUME NEW i \in Tabs(v) PROVE i \in Opened(v)
    OBVIOUS
  <2>1. i \in Under(Root) /\ VisibleAs(i, v)
    BY DEF Tabs, TabFor, VisibleAs
  <2> QED BY <2>1, OpenChild
<1>4. Range(FirstPage) \subseteq Opened(v)
  <2>1. SeenBy(Under(Root), 0) \subseteq Opened(v) \cap Rows
    BY <1>1 DEF SeenBy, Under, Rows
  <2> QED BY <2>1, RangesAre DEF FirstPage
<1>5. Sitemap \subseteq Opened(v)
  <2> SUFFICES ASSUME NEW i \in Sitemap PROVE i \in Opened(v)
    OBVIOUS
  <2>1. CASE i \in Under(Root) /\ VisibleAs(i, 0)
    BY <1>1, <2>1
  <2>2. CASE ~(i \in Under(Root) /\ VisibleAs(i, 0))
    <3>1. PICK s \in {BlogPage, ProjectsPage, ThreeDPage} :
            i \in IF SectionOpen(s, 0) THEN {k \in Under(s) : VisibleAs(k, 0)} ELSE {}
      BY <2>2 DEF Sitemap
    <3>2. SectionOpen(s, 0) /\ i \in Under(s) /\ VisibleAs(i, 0)
      BY <3>1
    <3> QED BY <1>0, <1>2, <3>2
  <2> QED BY <2>1, <2>2
<1>6. ASSUME NEW s \in {BlogPage, ProjectsPage}, NEW e \in SectionEntries(s)
      PROVE  e.id \in Opened(v)
  <2>1. SectionOpen(s, 0)
        /\ \E i \in Range(FirstOf(Newest(SeenBy(Under(s), 0)), FeedLimit)) : e = Entry(i)
    BY <1>6 DEF SectionEntries
  <2>2. SeenBy(Under(s), 0) \subseteq Rows /\ FeedLimit \in Nat
    BY CatalogueAssumption DEF SeenBy, Under, Rows
  <2>3. PICK i \in SeenBy(Under(s), 0) : e = Entry(i)
    BY <2>1, <2>2, RangesAre
  <2>4. i \in Opened(v)
    BY <1>0, <1>2, <2>1, <2>3 DEF SeenBy
  <2> QED BY <2>3, <2>4 DEF Entry
<1> QED BY <1>3, <1>4, <1>5, <1>6

\* Of a page that opens.
LEMMA PageListsOpen ==
    ASSUME CatTypes, Rooted, NEW v, NEW i \in Opened(v)
    PROVE  /\ ShownOn(i, v) \subseteq Opened(v)
           /\ \A q, order, n : n \in Nat => Range(Paginate(i, q, order, v, n).items) \subseteq Opened(v)
<1>1. i \in Rows /\ OpensFor(i, v) /\ \A j \in Rows : OpensFor(j, v) => j \in Opened(v)
  BY DEF Opened, Rows
<1>2. \A j \in WayTo(i) : j \in Opened(v)
  BY <1>1, OpensAbove
<1>3. Crumbs(i) \subseteq Opened(v)
  BY <1>2 DEF Crumbs
<1>4. ASSUME NEW p, p \in Opened(v) PROVE SeenBy(Under(p), v) \subseteq Opened(v) \cap Rows
  <2>1. \A j \in SeenBy(Under(p), v) : j \in Under(p) /\ VisibleAs(j, v) /\ j \in Rows
    BY DEF SeenBy, Under, Rows
  <2> QED BY <1>4, <2>1, OpenChild
<1>5. rows[i].parent # Root => rows[i].parent \in Opened(v)
  BY <1>1, <1>2, WayIs DEF Closed
<1>6. SiblingNav(i, v) \subseteq Opened(v)
  <2>1. CASE rows[i].parent = Root
    BY <2>1 DEF SiblingNav
  <2>2. CASE rows[i].parent # Root
    <3>1. PICK S : S = SeenBy(Under(rows[i].parent), v)
      OBVIOUS
    <3>2. S \subseteq Opened(v) \cap Rows
      BY <1>4, <1>5, <2>2, <3>1
    <3>3. Around(InOrder(S), i) \subseteq S
      BY <3>2, InOrderLists, NeighboursAre
    <3> QED BY <2>2, <3>1, <3>2, <3>3 DEF SiblingNav
  <2> QED BY <2>1, <2>2
<1>7. rows[i].parent = BlogPage => PostNav(i, v) \subseteq Opened(v)
  <2> SUFFICES ASSUME rows[i].parent = BlogPage PROVE PostNav(i, v) \subseteq Opened(v)
    OBVIOUS
  <2>1. BlogPage # Root
    BY DEF BlogPage, Root
  <2>2. PICK S : S = SeenBy(Under(BlogPage), v)
    OBVIOUS
  <2>3. S \subseteq Opened(v) \cap Rows
    BY <1>4, <1>5, <2>1, <2>2
  <2>4. Around(Newest(S), i) \subseteq S
    BY <2>3, NewestLists, NeighboursAre
  <2> QED BY <2>2, <2>3, <2>4 DEF PostNav
<1>8. ASSUME NEW q, NEW order, NEW n \in Nat
      PROVE  Range(Paginate(i, q, order, v, n).items) \subseteq Opened(v)
  <2>1. Range(Paginate(i, q, order, v, n).items) \subseteq Listed(i, q, v)
    BY PaginateIs
  <2>2. \A j \in Listed(i, q, v) : j \in Under(i) /\ VisibleAs(j, v)
    BY ListedIs
  <2> QED BY <2>1, <2>2, OpenChild
<1>9. ASSUME NEW q, NEW n \in Nat PROVE Range(ChildGrid(i, q, v, n)) \subseteq Opened(v)
  <2>1. Range(<<>>) = {}
    BY DEF Range
  <2> QED BY <1>8, <2>1 DEF ChildGrid
<1>10. ASSUME NEW j \in Range(ChildGrid(i, NoSearch, v, 1)), Cover(j, v) # Root
       PROVE  Cover(j, v) \in Opened(v)
  <2>1. j \in Rows /\ OpensFor(j, v)
    BY <1>9 DEF Opened, Rows
  <2> QED BY <1>1, <1>10, <2>1, CoverIs
<1>11. Gridded(i, v) \subseteq Opened(v)
  <2>1. \A n \in 1 .. 2 : n \in Nat
    OBVIOUS
  <2> QED BY <1>9, <2>1 DEF Gridded
<1>12. Covers(i, v) \subseteq Opened(v)
  BY <1>10 DEF Covers
<1>13. ShownOn(i, v) \subseteq Opened(v)
  BY <1>3, <1>6, <1>7, <1>11, <1>12 DEF ShownOn, Neighbours
<1> QED BY <1>8, <1>13

LEMMA ListingsHold ==
    ASSUME CatTypes, Rooted
    PROVE  ListingsMatch
<1> SUFFICES ASSUME NEW v \in Ladder, NEW open, open = Opened(v)
             PROVE  /\ ShownTo(v) \subseteq open
                    /\ \A i \in open : ShownOn(i, v) \subseteq open
                    /\ \A q \in Searches :
                         /\ \A s \in Under(LibraryPage) : Range(LibrarySection(s, q, v, 1)) \subseteq open
                         /\ \A n \in 1 .. 2 : Range(LibraryIndex(q, v, n)) \cup Range(BlogIndex(q, v, n))
                                               \cup Range(ProjectsIndex(q, v, n)) \subseteq open
                         /\ \A s \in {BlogPage, ProjectsPage, LibraryPage} \cap open :
                              Leafed(s, q, IndexOrder(s), v)
                                = {i \in Under(s) \cap open : Matches(i, q)}
  BY DEF ListingsMatch, Opened
<1>0. {BlogPage, ProjectsPage, LibraryPage} \subseteq Specials
  BY DEF BlogPage, ProjectsPage, LibraryPage, Specials
<1>1. ShownTo(v) \subseteq open
  BY IndexesOpen, PublicListsOpen DEF ShownTo
<1>2. \A i \in open : ShownOn(i, v) \subseteq open
  BY PageListsOpen
<1>3. Range(<<>>) = {}
  BY DEF Range
<1>4. ASSUME NEW q, NEW s \in Under(LibraryPage)
      PROVE  Range(LibrarySection(s, q, v, 1)) \subseteq open
  <2>1. CASE ~(SectionOpen(LibraryPage, v) /\ VisibleAs(s, v))
    BY <1>3, <2>1 DEF LibrarySection
  <2>2. CASE SectionOpen(LibraryPage, v) /\ VisibleAs(s, v)
    <3>1. LibraryPage \in Opened(v)
      BY <1>0, <2>2, OpenSection
    <3>2. s \in Opened(v)
      BY <2>2, <3>1, OpenChild
    <3>3. LibrarySection(s, q, v, 1) = Paginate(s, q, FenceOrder(s), v, 1).items
      BY <2>2 DEF LibrarySection
    <3> QED BY <3>2, <3>3, PageListsOpen
  <2> QED BY <2>1, <2>2
<1>5. ASSUME NEW p \in Specials, SectionOpen(p, v), NEW q, NEW order, NEW n \in Nat
      PROVE  Range(Paginate(p, q, order, v, n).items) \subseteq open
  BY <1>5, OpenSection, PageListsOpen
<1>6. ASSUME NEW q, NEW n \in 1 .. 2
      PROVE  Range(LibraryIndex(q, v, n)) \cup Range(BlogIndex(q, v, n))
               \cup Range(ProjectsIndex(q, v, n)) \subseteq open
  <2>1. n \in Nat
    OBVIOUS
  <2>2. Range(LibraryIndex(q, v, n)) \subseteq open
    BY <1>0, <1>3, <1>5, <2>1 DEF LibraryIndex
  <2>3. Range(BlogIndex(q, v, n)) \subseteq open
    BY <1>0, <1>3, <1>5, <2>1 DEF BlogIndex
  <2>4. Range(ProjectsIndex(q, v, n)) \subseteq open
    BY <1>0, <1>3, <1>5, <2>1 DEF ProjectsIndex
  <2> QED BY <2>2, <2>3, <2>4
<1>7. ASSUME NEW q, NEW s, NEW order, s \in open
      PROVE  Leafed(s, q, order, v) = {i \in Under(s) \cap open : Matches(i, q)}
  <2>1. Leafed(s, q, order, v) = {i \in Under(s) : Matches(i, q) /\ VisibleAs(i, v)}
    BY LeafedIs, ListedIs
  <2>2. \A i \in Under(s) : VisibleAs(i, v) => i \in open
    BY <1>7, OpenChild
  <2>3. \A i \in open : VisibleAs(i, v)
    BY OpensAbove DEF Opened, Rows
  <2> QED BY <2>1, <2>2, <2>3
<1> QED BY <1>1, <1>2, <1>4, <1>6, <1>7

(***************************************************************************)
(* No route lists what a page's own route would hide from the viewer, and  *)
(* the pager of an index leads to all that opens, whatever is written and  *)
(* for any number of pages, nested as they may be.                         *)
(***************************************************************************)
THEOREM ListingsAlwaysMatch == CatalogueSpec => []ListingsMatch
<1>1. CatalogueInit => CatTypes /\ Rooted
  BY RootedInit
<1>2. CatTypes /\ Rooted /\ [CatalogueNext]_catalogueVars => (CatTypes /\ Rooted)'
  BY RootedStep
<1>3. CatTypes /\ Rooted => ListingsMatch
  BY ListingsHold
<1> QED BY <1>1, <1>2, <1>3, PTL DEF CatalogueSpec

\* So it is in the specification that is model-checked.
THEOREM ListingsAlwaysMatchTheGate == PartsSpec => []ListingsMatchTheGate
<1>1. PartsInit => CatTypes /\ Rooted
  BY RootedInit DEF PartsInit
<1>2. CatTypes /\ Rooted /\ [PartsNext]_<<vars, catalogueVars, part>> => (CatTypes /\ Rooted)'
  <2>1. ASSUME [PartsNext]_<<vars, catalogueVars, part>> PROVE [CatalogueNext]_catalogueVars
    BY <2>1 DEF PartsNext
  <2> QED BY <2>1, RootedStep
<1>3. CatTypes /\ Rooted => ListingsMatchTheGate
  BY ListingsHold DEF ListingsMatchTheGate
<1> QED BY <1>1, <1>2, <1>3, PTL DEF PartsSpec

=============================================================================
