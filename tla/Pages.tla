------------------------------- MODULE Pages -------------------------------
(***************************************************************************)
(* The page tree: the content_pages table, the page-write service that the *)
(* editor and the MCP tools share (write.rs), delete, publish and          *)
(* unpublish, the manga batch ingest built on them, and the visibility     *)
(* gate of get_page_path.                                                  *)
(*                                                                         *)
(* No handler holds a transaction: find_by_path is one query per segment,  *)
(* create_page an INSERT and an UPDATE, update_page a read and an UPDATE   *)
(* of the whole row.  Each query is a step here and requests interleave;   *)
(* a handler's future can be dropped at any await (Abort).                 *)
(***************************************************************************)
EXTENDS Naturals, Sequences, FiniteSets

CONSTANTS
    Names,      \* slugs
    Paths,      \* the paths requests are made for
    Ids,        \* page_id: AUTOINCREMENT, so an id is never used again
    Top,        \* parent_page_id IS NULL
    Gone,       \* no such row
    Library,    \* the slug of the special page, id 0
    Admin,      \* the top rank of the role ladder
    Keep,       \* a form field that is absent
    Files,      \* volumes, told apart by their bytes (sha256)
    Readers, Writers,   \* concurrent requests
    Batches,    \* the writers that may be a batch ingest
    MaxEvents   \* bound on requests

ASSUME PagesAssumption ==
    /\ Admin \in Nat /\ Admin > 0
    /\ MaxEvents \in Nat
    /\ {0, 1} \subseteq Ids /\ Ids \subseteq Nat
    /\ Library \in Names
    /\ Top \notin Ids
    /\ Keep \notin Nat /\ Keep \notin BOOLEAN
    /\ "empty" \notin Files /\ "text" \notin Files
    /\ Paths \subseteq Seq(Names) \ {<<>>}
    /\ Readers \cap Writers = {}

VARIABLES
    db,      \* content_pages
    next,    \* the next id
    req,     \* requests in flight
    allowed, \* history: the pages each view could have been shown so far
    overlap, \* history: two writing requests were in flight at once
    events

vars == <<db, next, req, allowed, overlap, events>>

-----------------------------------------------------------------------------

Gates  == 0 .. Admin
Bodies == Files \cup {"empty", "text"}     \* a volume page embeds its file
Requests == Readers \cup Writers

Row == [parent : Ids \cup {Top}, name : Names, special : BOOLEAN,
        gate : Gates, live : BOOLEAN, body : Bodies]

ASSUME GoneAssumption == Gone \notin Row

Ops == {"view", "create", "update", "delete", "publish", "unpublish", "ingest"}
Pcs == {"idle", "walk", "served", "insert", "stamp", "write", "delete",
        "date", "check", "media", "rollback"}

\* PageUpdate's three-valued fields: the gate and the date may be kept.  A
\* form that sets both does no more than two that set one each.
Form == {f \in [gate : Gates \cup {Keep}, live : BOOLEAN \cup {Keep}] :
           Keep \in {f.gate, f.live}}
NoForm == [gate |-> Keep, live |-> Keep]

Req == [op : Ops, pc : Pcs, role : Gates,
        todo : Seq(Names),               \* segments find_by_path has left
        at : Ids \cup {Top},             \* the node it has reached
        row : Row \cup {Gone},           \* and its row, as read
        ids : SUBSET Ids,                \* the nodes it came through
        shut : BOOLEAN,                  \* one of them is closed to the role
        name : Names, form : Form,
        file : Files \cup {Gone}, series : Ids, path : Seq(Names)]

Idle == [op |-> "view", pc |-> "idle", role |-> 0, todo |-> <<>>, at |-> Top,
         row |-> Gone, ids |-> {}, shut |-> FALSE, name |-> Library,
         form |-> NoForm, file |-> Gone, series |-> 0, path |-> <<>>]

Live(i)      == db[i] # Gone
Children(i)  == {j \in Ids : Live(j) /\ db[j].parent = i}
\* find_by_name; among top-level namesakes it may take any.
Named(p, n)  == {i \in Children(p) : db[i].name = n}

\* ContentPageDao::is_visible_to.
Visible(row, role) == (row.special \/ role = Admin \/ row.live) /\ role >= row.gate

\* The fault of a gate that only looks at the leaf.
ShutLeafOnly(q, row) == ~Visible(row, q.role)

Shut(q, row) == q.shut \/ ~Visible(row, q.role)

\* Faults of apply_write: an absent field taken for "Public"; the value of
\* the form stored as it comes.
ApplyWriteClears(gate, wish) == IF wish = Keep THEN 0 ELSE wish
ApplyWriteRaw(gate, wish)    == wish

\* MinRole::apply_write: an absent or unknown value keeps the gate.
ApplyWrite(gate, wish) == IF wish = Keep THEN gate ELSE wish

Set(r, q) == req' = [req EXCEPT ![r] = q]
End(r)    == Set(r, Idle)
At(r, pc) == req[r].pc = pc
Event     == events < MaxEvents /\ events' = events + 1

\* find_by_path(names), with the request going on from pc "walk".
Walk(q, names) == [q EXCEPT !.pc = "walk", !.todo = names, !.at = Top,
                            !.row = Gone, !.ids = {}, !.shut = FALSE]

-----------------------------------------------------------------------------

\* Migration 0028 seeds the library page, gated below Admin; a first page
\* under it inherits that gate.
NewRow(parent, name, gate) ==
    [parent |-> parent, name |-> name, special |-> FALSE, gate |-> gate,
     live |-> TRUE, body |-> "empty"]

Init ==
    /\ \E n \in Names \ {Library} :
         db = [i \in Ids |->
                 CASE i = 0 -> [NewRow(Top, Library, Admin - 1) EXCEPT !.special = TRUE]
                   [] i = 1 -> NewRow(0, n, Admin - 1)
                   [] OTHER -> Gone]
    /\ next = 2
    /\ req = [r \in Requests |-> Idle]
    /\ allowed = [r \in Requests |-> {}]
    /\ overlap = FALSE
    /\ events = 0

(***************************************************************************)
(* Requests arrive.                                                        *)
(***************************************************************************)

View(r) ==
    /\ At(r, "idle") /\ Event
    /\ \E role \in Gates, p \in Paths :
         Set(r, Walk([Idle EXCEPT !.op = "view", !.role = role], p))
    /\ UNCHANGED <<db, next>>

\* create_page; an empty parent path makes a top-level page.
Create(r) ==
    /\ At(r, "idle") /\ Event
    /\ \E n \in Names, p \in Paths \cup {<<>>} :
         LET q == [Idle EXCEPT !.op = "create", !.name = n] IN
           Set(r, IF p = <<>> THEN [q EXCEPT !.pc = "insert"] ELSE Walk(q, p))
    /\ UNCHANGED <<db, next>>

\* update_page.
Update(r) ==
    /\ At(r, "idle") /\ Event
    /\ \E p \in Paths, f \in Form :
         Set(r, Walk([Idle EXCEPT !.op = "update", !.form = f], p))
    /\ UNCHANGED <<db, next>>

Delete(r) ==
    /\ At(r, "idle") /\ Event
    /\ \E p \in Paths : Set(r, Walk([Idle EXCEPT !.op = "delete"], p))
    /\ UNCHANGED <<db, next>>

\* publish_now and unpublish: by id, the row must exist.
Schedule(r) ==
    /\ At(r, "idle") /\ Event
    /\ \E i \in Ids, op \in {"publish", "unpublish"} :
         /\ Live(i)
         /\ Set(r, [Idle EXCEPT !.op = op, !.pc = "date", !.at = i, !.row = db[i]])
    /\ UNCHANGED <<db, next>>

\* ingest_one, for a series the batch has resolved: a child of the library.
\* The page's title comes from the file's name, so any title may come.
Ingest(r) ==
    /\ r \in Batches /\ At(r, "idle") /\ Event
    /\ \E f \in Files, n \in Names, s \in Children(0) :
         Set(r, [Idle EXCEPT !.op = "ingest", !.pc = "check", !.file = f,
                             !.name = n, !.series = s,
                             !.path = <<Library, db[s].name>>])
    /\ UNCHANGED <<db, next>>

(***************************************************************************)
(* find_by_path, one segment per query.                                    *)
(***************************************************************************)

\* Where a request goes with the row it was looking for.
Found(q) ==
    CASE q.op = "view"   -> IF q.shut \/ q.row.special THEN Idle
                            ELSE [q EXCEPT !.pc = "served"]
      [] q.op = "update" -> [q EXCEPT !.pc = "write"]
      [] q.op = "delete" -> IF q.row.special THEN Idle ELSE [q EXCEPT !.pc = "delete"]
      [] q.op = "create" -> [q EXCEPT !.pc = "insert"]
      [] q.op = "ingest" -> [q EXCEPT !.pc = IF Len(q.path) = 3 THEN "write"
                                             ELSE "insert"]

Resolve(r) ==
    /\ At(r, "walk")
    /\ LET q == req[r]
           hits == Named(q.at, Head(q.todo)) IN
         IF hits = {} THEN End(r)
         ELSE \E i \in hits :
                LET q2 == [q EXCEPT !.todo = Tail(@), !.at = i, !.row = db[i],
                                    !.ids = @ \cup {i}, !.shut = Shut(q, db[i])] IN
                  Set(r, IF q2.todo = <<>> THEN Found(q2) ELSE q2)
    /\ UNCHANGED <<db, next, events>>

\* The page is rendered from the rows read.
Serve(r) == At(r, "served") /\ End(r) /\ UNCHANGED <<db, next, events>>

(***************************************************************************)
(* The writes.                                                             *)
(***************************************************************************)

\* UNIQUE (parent_page_id, page_name): NULL parents never collide.
Taken(parent, n) == parent # Top /\ Named(parent, n) # {}

\* The fault of a parent that is not checked.
ParentThereAlways(parent) == TRUE

\* FOREIGN KEY (parent_page_id).
ParentThere(parent) == parent = Top \/ Live(parent)

\* ContentPageDao::create: born empty, published and public.
Insert(r) ==
    /\ At(r, "insert")
    /\ LET q == req[r] IN
         IF Taken(q.at, q.name) \/ ~ParentThere(q.at)
         THEN End(r) /\ UNCHANGED <<db, next>>
         ELSE /\ next \in Ids
              /\ db' = [db EXCEPT ![next] = NewRow(q.at, q.name, 0)]
              /\ next' = next + 1
              /\ Set(r, [q EXCEPT !.pc = "stamp", !.at = next,
                   !.row = NewRow(q.at, q.name, IF @ = Gone THEN 0 ELSE @.gate)])
    /\ UNCHANGED events

\* The whole-row UPDATE, parent_page_id included: an error if the row is gone
\* or the parent it was read with.
CanSave(i, row) == Live(i) /\ ParentThere(row.parent)
Save(i, row) == db' = IF CanSave(i, row) THEN [db EXCEPT ![i] = row] ELSE db

\* create_page's second statement: the title and the inherited gate.  An
\* ingest goes on to its media item.
Stamp(r) ==
    /\ At(r, "stamp")
    /\ LET q == req[r] IN
         /\ Save(q.at, q.row)
         /\ Set(r, IF q.op = "ingest" /\ CanSave(q.at, q.row)
                   THEN [q EXCEPT !.pc = "media"] ELSE Idle)
    /\ UNCHANGED <<next, events>>

\* The markdown of a form: the volume's embed, new text, or through MCP and
\* an editor who changed nothing what the page held.
Markdown(q) == IF q.op = "ingest" THEN {q.file} ELSE {"text", q.row.body}

\* update_page: the row as read, with the form folded in, is written back.
Write(r) ==
    /\ At(r, "write")
    /\ LET q == req[r] IN
         \E body \in Markdown(q) :
           Save(q.at, [q.row EXCEPT !.body = body,
                                    !.gate = ApplyWrite(@, q.form.gate),
                                    !.live = IF q.form.live = Keep THEN @ ELSE q.form.live])
    /\ End(r)
    /\ UNCHANGED <<next, events>>

\* ON DELETE SET NULL: the children of a deleted page become top-level.
DeleteRow(i) ==
    db' = [j \in Ids |-> IF j = i THEN Gone
                         ELSE IF j \in Children(i) THEN [db[j] EXCEPT !.parent = Top]
                         ELSE db[j]]

Remove(r) ==
    /\ At(r, "delete")
    /\ DeleteRow(req[r].at)
    /\ End(r)
    /\ UNCHANGED <<next, events>>

\* set_creation_date: one column of the row as it is.
WithDate(i, live) == [db EXCEPT ![i].live = live]

SetDate(r) ==
    /\ At(r, "date")
    /\ db' = IF Live(req[r].at) THEN WithDate(req[r].at, req[r].op = "publish") ELSE db
    /\ End(r)
    /\ UNCHANGED <<next, events>>

(***************************************************************************)
(* The rest of ingest_one.                                                 *)
(***************************************************************************)

\* The fault of a check by title.
HasVolumeNamed(s, q) == Named(s, q.name) # {}

\* series_has_volume_with_sha.
HasVolume(s, q) == \E i \in Children(s) : db[i].body = q.file

Check(r) ==
    /\ At(r, "check")
    /\ LET q == req[r] IN
         Set(r, IF HasVolume(q.series, q) THEN Idle ELSE Walk(q, q.path))
    /\ UNCHANGED <<db, next, events>>

\* ingest_stored_file: the item is made and update_page looks the page up,
\* or it fails and the empty page is deleted again.
Media(r) ==
    /\ At(r, "media")
    /\ LET q == req[r]
           path == q.path \o <<q.name>> IN
         \/ Set(r, Walk([q EXCEPT !.path = path], path))
         \/ Set(r, [q EXCEPT !.pc = "rollback"])
    /\ UNCHANGED <<db, next, events>>

Rollback(r) ==
    /\ At(r, "rollback")
    /\ DeleteRow(req[r].at)
    /\ End(r)
    /\ UNCHANGED <<next, events>>

\* The client goes away, a query fails, or the server restarts.
Abort(r) ==
    /\ req[r].pc # "idle"
    /\ End(r)
    /\ UNCHANGED <<db, next, events>>

-----------------------------------------------------------------------------

WriterStep(r) ==
    \/ Create(r) \/ Update(r) \/ Delete(r) \/ Schedule(r) \/ Ingest(r)
    \/ Resolve(r) \/ Insert(r) \/ Stamp(r) \/ Write(r) \/ Remove(r)
    \/ SetDate(r) \/ Check(r) \/ Media(r) \/ Rollback(r) \/ Abort(r)

ReaderStep(r) == View(r) \/ Resolve(r) \/ Serve(r) \/ Abort(r)

\* What each viewer may be shown, page by page, in the state a step leads
\* to, and whether writers have overlapped.
Record ==
    /\ allowed' = [r \in Requests |->
         IF req'[r].pc = "idle" \/ req'[r].op # "view" THEN {}
         ELSE allowed[r] \cup {i \in Ids : db'[i] # Gone
                                           /\ Visible(db'[i], req'[r].role)}]
    /\ overlap' = (overlap \/ \E r, s \in Writers : r # s /\ req'[r].pc # "idle"
                                                         /\ req'[s].pc # "idle")

Next ==
    /\ \/ \E r \in Writers : WriterStep(r)
       \/ \E r \in Readers : ReaderStep(r)
    /\ Record

Spec == Init /\ [][Next]_vars

-----------------------------------------------------------------------------

TypeOK ==
    /\ db \in [Ids -> Row \cup {Gone}]
    /\ next \in Nat
    /\ req \in [Requests -> Req]
    /\ allowed \in [Requests -> SUBSET Ids]
    /\ overlap \in BOOLEAN
    /\ events \in 0 .. MaxEvents

(***************************************************************************)
(* Whatever a viewer is shown, at some moment of the request each page on  *)
(* the way to it was published and open to the viewer's role: the walk of  *)
(* get_page_path is several queries, but a page behind a closed ancestor   *)
(* never comes through.                                                    *)
(***************************************************************************)
ServedWasAllowed ==
    \A r \in Requests : req[r].pc = "served" => req[r].ids \subseteq allowed[r]

\* No page is left under a deleted one: a parent deleted between create_page's
\* lookup and its INSERT refuses the child, and its children become top-level.
ParentsExist ==
    \A i \in Ids : Live(i) => db[i].parent = Top \/ Live(db[i].parent)

\* A batch that runs alone never gives a series, a page below the library,
\* two volumes of one file, whatever was aborted half way, renamed or ingested
\* again before.  (find_by_name may take a top-level namesake of the library
\* for it: what lands below that one is in no series.)
VolumeOnce ==
    ~overlap =>
      \A s \in Children(0) : \A i, j \in Children(s) :
        i # j /\ db[i].body \in Files => db[i].body # db[j].body

Opens(i) == \/ db'[i].gate < db[i].gate
            \/ ~db[i].live /\ db'[i].live

\* Someone asked for page i to be as open as it becomes.
Asked(i) ==
    \E r \in Writers : /\ req[r].at = i
                       /\ \/ req[r].pc = "write" /\ db'[i].gate < db[i].gate
                             /\ req[r].form.gate = db'[i].gate
                          \/ req[r].pc = "write" /\ req[r].form.live = TRUE
                          \/ req[r].pc = "date" /\ req[r].op = "publish"

\* A request is about to write page i back from a row that is out of date.
StaleRow(i) ==
    \E r \in Writers : /\ req[r].at = i
                       /\ \/ req[r].pc = "write" /\ req[r].row # db[i]
                          \/ req[r].pc = "stamp" /\ db[i] # [req[r].row EXCEPT !.gate = 0]

\* A page is made visible to more people only by a request that says so, or
\* by one that writes back a row someone else has changed since it was read.
OpenedOnlyByStaleRow ==
    [][\A i \in Ids : Live(i) /\ db'[i] # Gone /\ Opens(i) => Asked(i) \/ StaleRow(i)]_vars

\* PageUpdate says of an absent min_role: KEEP, "never silently loosen
\* visibility" (write.rs).
NeverSilentlyLoosened ==
    [][\A r \in Writers :
         LET i == req[r].at IN
           At(r, "write") /\ req[r].form.gate = Keep /\ req'[r].pc = "idle"
           /\ Live(i) /\ db'[i] # Gone => db'[i].gate >= db[i].gate]_vars

=============================================================================
