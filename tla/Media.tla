------------------------------- MODULE Media -------------------------------
(***************************************************************************)
(* The media library: the media and media_variant tables, the content-     *)
(* addressed store behind them, and everything that writes either - the    *)
(* admin's uploads, replacements, appends, edits and deletions, the AVIF   *)
(* derivations they run or spawn, and the one-shot backfill at boot.       *)
(*                                                                         *)
(* A blob is its content: the original of an upload (rung 0), or one       *)
(* width-stepped AVIF derived from it under some edit.  Every statement    *)
(* and every file operation is a step of its own; nothing serialises the   *)
(* tasks, and the temp file of an in-memory store is named after its hash. *)
(***************************************************************************)
EXTENDS Naturals

CONSTANTS
    Uploads,     \* the images a user may upload
    Avif,        \* the uploads that are AVIF already
    Items,       \* media rows
    NoItem,      \* a row not created yet
    Gone,        \* a deleted row
    Crops,       \* crop quads
    NoCrop,
    Rungs,       \* how many rungs a derivation mints
    Boot,        \* the backfill task
    Requests,    \* admin requests, with the derivation each one spawns
    MaxEvents    \* bound on requests, deletions, failures and restarts

ASSUME MediaAssumption ==
    /\ Avif \subseteq Uploads
    /\ Boot \notin Requests
    /\ NoCrop \notin Crops
    /\ Rungs \in Nat \ {0}
    /\ MaxEvents \in Nat

VARIABLES
    disk,      \* the file in each blob's slot
    tmp,       \* the file under each blob's temp name
    item,      \* each row's metadata.edit
    variants,  \* each row's media_variant rows
    serial,    \* each row's next variant_id
    task,
    twins,     \* history: blobs that two in-memory stores held at once
    past,      \* history: requests, restarts, or anything else so far
    events

vars == <<disk, tmp, item, variants, serial, task, twins, past, events>>

-----------------------------------------------------------------------------

File  == {"none", "part", "whole"}
Edits == [turn : 0 .. 3, crop : Crops \cup {NoCrop}]
Plain == [turn |-> 0, crop |-> NoCrop]
ASSUME RowAssumption == NoItem \notin Edits /\ Gone \notin Edits /\ NoItem # Gone

Original(u) == [src |-> u, edit |-> Plain, rung |-> 0]
Rung(u, e, k) == [src |-> u, edit |-> e, rung |-> k]
Derived   == [src : Uploads, edit : Edits, rung : 1 .. Rungs]
Originals == {Original(u) : u \in Uploads}
Blobs     == Originals \cup Derived

\* sized: the variant carries its width, so it is part of the srcset.  Only
\* an original can be an item's source, so rungs need no order among them.
Variant == [blob : Blobs, sized : BOOLEAN, id : Nat]
RungRow(b)        == [blob |-> b, sized |-> TRUE, id |-> 0]
OriginalRow(u, n) == [blob |-> Original(u), sized |-> TRUE, id |-> n]

Tasks == Requests \cup {Boot}
Ops   == {"upload", "replace", "append", "edit", "backfill"}
Pcs   == {"idle", "scan", "commit", "create", "insert", "swap", "append", "set",
          "source", "drop", "params", "derive", "size", "check", "open",
          "write", "rename", "record"}
Deriving == {"derive", "size", "check", "open", "write", "rename", "record"}
Storing  == {"check", "open", "write", "rename"}

Task == [pc : Pcs, op : Ops, item : Items \cup {NoItem},
         src : Uploads \cup {NoItem}, edit : Edits, rung : 0 .. Rungs,
         file : {"none", "tmp", "slot", "unlinked"},  \* what fs::write has open
         fresh : BOOLEAN,      \* nobody truncated that file since
         seen : SUBSET Blobs,  \* append: the blobs the item had
         todo : SUBSET [item : Items, edit : Edits]]  \* backfill: what is left

Idle == [pc |-> "idle", op |-> "upload", item |-> NoItem, src |-> NoItem,
         edit |-> Plain, rung |-> 0, file |-> "none", fresh |-> FALSE,
         seen |-> {}, todo |-> {}]
BootTask == [Idle EXCEPT !.pc = "scan", !.op = "backfill"]

Live(i)  == item[i] \in Edits
BlobsOf(i) == {v.blob : v \in variants[i]}
IsAvif(b) == b.rung > 0 \/ b.src \in Avif
Current(t) == Rung(task[t].src, task[t].edit, task[t].rung)

\* source_image: the oldest image that is not AVIF, else the oldest.
IsSource(i, v) ==
    /\ v \in variants[i] /\ v.blob \in Originals
    /\ \A w \in variants[i] : w.blob \in Originals =>
         /\ IsAvif(v.blob) => IsAvif(w.blob)
         /\ IsAvif(v.blob) = IsAvif(w.blob) => v.id <= w.id

Event == events < MaxEvents /\ events' = events + 1
Set(t, r) == task' = [task EXCEPT ![t] = r]
Files == <<disk, tmp>>
Tables == <<item, variants, serial>>
History == <<twins, past>>

\* Every item the backfill may find is from before the srcset: one
\* original without a width.
Init ==
    /\ \E legacy \in [Items -> Uploads \cup {NoItem}] :
         /\ item = [i \in Items |-> IF legacy[i] = NoItem THEN NoItem ELSE Plain]
         /\ variants = [i \in Items |-> IF legacy[i] = NoItem THEN {}
              ELSE {[OriginalRow(legacy[i], 0) EXCEPT !.sized = FALSE]}]
    /\ serial = [i \in Items |-> 1]
    /\ disk = [b \in Blobs |-> IF \E i \in Items : b \in BlobsOf(i)
                               THEN "whole" ELSE "none"]
    /\ tmp = [b \in Blobs |-> "none"]
    /\ task = [t \in Tasks |-> IF t = Boot THEN BootTask ELSE Idle]
    /\ twins = {}
    /\ past = {}
    /\ events = 0

-----------------------------------------------------------------------------
(* A task that is over.  The backfill goes on with its next item, and a    *)
(* failure in one item is logged, never passed on.                         *)

Rest(t) == IF t = Boot THEN [Idle EXCEPT !.op = "backfill", !.todo = task[t].todo]
                       ELSE Idle
Finish(t) == Set(t, Rest(t))

\* A request arrives; one that is an append, or has company, is noted.
Arrive(r, kind) ==
    /\ Event
    /\ task[r].pc = "idle"
    /\ past' = past \cup {kind} \cup
         (IF \E t \in Tasks : task[t].pc # "idle" \/ task[t].todo # {}
          THEN {"other"} ELSE {})

-----------------------------------------------------------------------------
(* POST /media, PUT and POST /media/<ref>/variants: one file part.         *)

Upload(r) ==
    /\ Arrive(r, "request")
    /\ \E u \in Uploads :
         Set(r, [Idle EXCEPT !.pc = "commit", !.op = "upload", !.src = u])
    /\ UNCHANGED <<Files, Tables, twins>>

Replace(r) ==
    /\ Arrive(r, "request")
    /\ \E u \in Uploads, i \in Items :
         /\ Live(i)
         /\ Set(r, [Idle EXCEPT !.pc = "commit", !.op = "replace", !.src = u, !.item = i])
    /\ UNCHANGED <<Files, Tables, twins>>

\* The item's blobs are read before the part is streamed.
AppendPart(r) ==
    /\ Arrive(r, "other")
    /\ \E u \in Uploads, i \in Items :
         /\ Live(i)
         /\ Set(r, [Idle EXCEPT !.pc = "commit", !.op = "append", !.src = u,
                                !.item = i, !.seen = BlobsOf(i)])
    /\ UNCHANGED <<Files, Tables, twins>>

\* Mutant: the slot is filled before the stream has been flushed.
CommitUnflushed(r) ==
    LET q == task[r]  b == Original(q.src) IN
    /\ q.pc = "commit"
    /\ disk' = [disk EXCEPT ![b] = IF @ = "none" THEN "part" ELSE @]
    /\ Set(r, [q EXCEPT !.pc = IF q.op = "upload" THEN "create" ELSE "swap"])
    /\ UNCHANGED <<tmp, Tables, History, events>>

\* StagedBlob::commit: the staged temp has a random name and is synced
\* before the rename; content that is already stored is kept.
Commit(r) ==
    LET q == task[r]  b == Original(q.src) IN
    /\ q.pc = "commit"
    /\ disk' = [disk EXCEPT ![b] = IF @ = "none" THEN "whole" ELSE @]
    /\ CASE q.op = "upload"  -> Set(r, [q EXCEPT !.pc = "create"])
         [] q.op = "replace" -> Set(r, [q EXCEPT !.pc = "swap"])
         [] q.op = "append"  -> IF b \in q.seen THEN Finish(r)
                                ELSE Set(r, [q EXCEPT !.pc = "append"])
    /\ UNCHANGED <<tmp, Tables, History, events>>

Create(r) ==
    /\ task[r].pc = "create"
    /\ \E i \in Items :
         /\ item[i] = NoItem
         /\ item' = [item EXCEPT ![i] = Plain]
         /\ Set(r, [task[r] EXCEPT !.pc = "insert", !.item = i])
    /\ UNCHANGED <<Files, variants, serial, History, events>>

\* MediaVariantDao::create: the foreign key and UNIQUE(media_id, sha256).
CanInsert(i, b) == Live(i) /\ b \notin BlobsOf(i)
AddOriginal(i, u, rows) ==
    /\ variants' = [variants EXCEPT ![i] = rows \cup {OriginalRow(u, serial[i])}]
    /\ serial' = [serial EXCEPT ![i] = @ + 1]

\* The row of the part just stored; an upload goes on to the derivation.
Insert(r) ==
    LET q == task[r] IN
    /\ q.pc \in {"insert", "append"}
    /\ IF CanInsert(q.item, Original(q.src))
       THEN /\ AddOriginal(q.item, q.src, variants[q.item])
            /\ IF q.pc = "insert" THEN Set(r, [q EXCEPT !.pc = "params"]) ELSE Finish(r)
       ELSE UNCHANGED <<variants, serial>> /\ Finish(r)
    /\ UNCHANGED <<Files, item, History, events>>

\* replace_media_variants' transaction; update_facts leaves the edit alone.
Swap(r) ==
    LET q == task[r] IN
    /\ q.pc = "swap"
    /\ IF Live(q.item)
       THEN /\ AddOriginal(q.item, q.src, {})
            /\ Set(r, [q EXCEPT !.pc = "params"])
       ELSE UNCHANGED <<variants, serial>> /\ Finish(r)
    /\ UNCHANGED <<Files, item, History, events>>

-----------------------------------------------------------------------------
(* Rotate, crop and re-derive.                                             *)

\* Mutant: the turns do not wrap.
TurnedOnAndOn(e, d) == [e EXCEPT !.turn = @ + d]

Turned(e, d) == [e EXCEPT !.turn = (@ + d) % 4]

Cropped(e, c) == [e EXCEPT !.crop = c]

Rederive(r) ==
    /\ Arrive(r, "request")
    /\ \E i \in Items :
         /\ Live(i)
         /\ Set(r, [Idle EXCEPT !.pc = "source", !.op = "edit", !.item = i])
    /\ UNCHANGED <<Files, Tables, twins>>

\* The new edit is computed from the row as read here.
Edit(r) ==
    /\ Arrive(r, "request")
    /\ \E i \in Items :
         /\ Live(i)
         /\ \E e \in {Turned(item[i], d) : d \in {1, 3}}
                     \cup {Cropped(item[i], c) : c \in Crops \cup {NoCrop}} :
              Set(r, [Idle EXCEPT !.pc = "set", !.op = "edit", !.item = i, !.edit = e])
    /\ UNCHANGED <<Files, Tables, twins>>

SetEdit(r) ==
    LET q == task[r] IN
    /\ q.pc = "set"
    /\ item' = [item EXCEPT ![q.item] = IF Live(q.item) THEN q.edit ELSE @]
    /\ Set(r, [q EXCEPT !.pc = "source"])
    /\ UNCHANGED <<Files, variants, serial, History, events>>

PickSource(r) ==
    LET q == task[r] IN
    /\ q.pc = "source"
    /\ \/ \E v \in variants[q.item] :
              IsSource(q.item, v) /\ Set(r, [q EXCEPT !.pc = "drop", !.src = v.blob.src])
       \/ variants[q.item] = {} /\ Finish(r)
    /\ UNCHANGED <<Files, Tables, History, events>>

\* delete_avif_rungs_except; then the derivation is spawned.
Drop(r) ==
    LET q == task[r] IN
    /\ q.pc = "drop"
    /\ variants' = [variants EXCEPT ![q.item] =
                      {v \in @ : ~IsAvif(v.blob) \/ v.blob = Original(q.src)}]
    /\ Set(r, [q EXCEPT !.pc = "params"])
    /\ UNCHANGED <<Files, item, serial, History, events>>

-----------------------------------------------------------------------------
(* maybe_add_responsive_variants.                                          *)

\* The edit is read afresh; a deleted row reads as no edit.
Params(r) ==
    LET q == task[r] IN
    /\ q.pc = "params"
    /\ Set(r, [q EXCEPT !.pc = "derive",
                        !.edit = IF Live(q.item) THEN item[q.item] ELSE Plain])
    /\ UNCHANGED <<Files, Tables, History, events>>

\* Resizing reads the source's file; the backfill then stamps its width.
Derive(t) ==
    LET q == task[t] IN
    /\ q.pc = "derive"
    /\ IF disk[Original(q.src)] = "whole"
       THEN Set(t, [q EXCEPT !.pc = IF t = Boot THEN "size" ELSE "check", !.rung = 1])
       ELSE Finish(t)
    /\ UNCHANGED <<Files, Tables, History, events>>

\* MediaStore::store, from the test for stored content ...
Check(t) ==
    LET q == task[t]  b == Current(t) IN
    /\ q.pc = "check"
    /\ Set(t, [q EXCEPT !.pc = IF disk[b] = "none" THEN "open" ELSE "record"])
    /\ twins' = twins \cup {b2 \in {b} : disk[b] = "none" /\ \E u \in Tasks \ {t} :
                              task[u].pc \in Storing \ {"check"} /\ Current(u) = b}
    /\ UNCHANGED <<Files, Tables, past, events>>

SameFile(t, u) == task[u].pc \in {"write", "rename"} /\ Current(u) = Current(t)

\* Mutant: the bytes are written straight into the slot.
OpenInPlace(t) ==
    /\ task[t].pc = "open"
    /\ disk' = [disk EXCEPT ![Current(t)] = "part"]
    /\ Set(t, [task[t] EXCEPT !.pc = "write", !.file = "slot", !.fresh = TRUE])
    /\ UNCHANGED <<tmp, Tables, History, events>>

\* ... over opening and truncating the temp file ...
Open(t) ==
    LET q == task[t]  b == Current(t) IN
    /\ q.pc = "open"
    /\ tmp' = [tmp EXCEPT ![b] = "part"]
    /\ task' = [u \in Tasks |->
         IF u = t THEN [q EXCEPT !.pc = "write", !.file = "tmp", !.fresh = TRUE]
         ELSE IF SameFile(t, u) /\ task[u].file = "tmp"
              THEN [task[u] EXCEPT !.fresh = FALSE] ELSE task[u]]
    /\ UNCHANGED <<disk, Tables, History, events>>

\* ... and writing all of it (after somebody else's truncation, what this
\* task wrote before is lost) ...
Written(t, was) == IF task[t].fresh THEN {"whole"} ELSE {was, "whole"}
Write(t) ==
    LET q == task[t]  b == Current(t) IN
    /\ q.pc = "write"
    /\ CASE q.file = "tmp" ->
              /\ \E f \in Written(t, tmp[b]) : tmp' = [tmp EXCEPT ![b] = f]
              /\ UNCHANGED disk
         [] q.file = "slot" ->
              /\ \E f \in Written(t, disk[b]) : disk' = [disk EXCEPT ![b] = f]
              /\ UNCHANGED tmp
         [] OTHER -> UNCHANGED Files
    /\ Set(t, [q EXCEPT !.pc = "rename"])
    /\ UNCHANGED <<Tables, History, events>>

\* ... to the rename, which moves whatever is at the temp name and fails
\* when another store moved it first.
Moved(f) == CASE f = "tmp" -> "slot" [] f = "slot" -> "unlinked" [] OTHER -> f
Rename(t) ==
    LET q == task[t]  b == Current(t) IN
    /\ q.pc = "rename"
    /\ IF tmp[b] = "none"
       THEN Finish(t) /\ UNCHANGED Files
       ELSE /\ disk' = [disk EXCEPT ![b] = tmp[b]]
            /\ tmp' = [tmp EXCEPT ![b] = "none"]
            /\ task' = [u \in Tasks |->
                 IF u = t THEN [q EXCEPT !.pc = "record", !.file = "none",
                                             !.fresh = FALSE]
                 ELSE IF SameFile(t, u) THEN [task[u] EXCEPT !.file = Moved(@)]
                      ELSE task[u]]
    /\ UNCHANGED <<Tables, History, events>>

\* Mutant: the widest rung is left out.
RecordButOne(t) ==
    LET q == task[t]  b == Current(t) IN
    /\ q.pc = "record"
    /\ IF CanInsert(q.item, b)
       THEN /\ variants' = [variants EXCEPT ![q.item] = @ \cup {RungRow(b)}]
            /\ IF q.rung + 1 < Rungs
               THEN Set(t, [q EXCEPT !.pc = "check", !.rung = @ + 1]) ELSE Finish(t)
       ELSE UNCHANGED variants /\ Finish(t)
    /\ UNCHANGED <<Files, item, serial, History, events>>

\* The rung's row; a refused insert ends the derivation.
Record(t) ==
    LET q == task[t]  b == Current(t) IN
    /\ q.pc = "record"
    /\ IF CanInsert(q.item, b)
       THEN /\ variants' = [variants EXCEPT ![q.item] = @ \cup {RungRow(b)}]
            /\ IF q.rung < Rungs THEN Set(t, [q EXCEPT !.pc = "check", !.rung = @ + 1])
                                 ELSE Finish(t)
       ELSE UNCHANGED variants /\ Finish(t)
    /\ UNCHANGED <<Files, item, serial, History, events>>

-----------------------------------------------------------------------------
(* backfill_responsive_images.                                             *)

\* The items no variant of which carries a width, each as read here.
BootScan ==
    /\ task[Boot].pc = "scan"
    /\ Set(Boot, [Idle EXCEPT !.op = "backfill",
          !.todo = {[item |-> i, edit |-> item[i]] : i \in
            {j \in Items : Live(j) /\ variants[j] # {} /\ \A v \in variants[j] : ~v.sized}}])
    /\ UNCHANGED <<Files, Tables, History, events>>

\* The original is the item's oldest now, the edit the one read above.
BootPick ==
    LET q == task[Boot] IN
    /\ q.pc = "idle"
    /\ \E m \in q.todo :
         LET left == [Idle EXCEPT !.op = "backfill", !.todo = q.todo \ {m}] IN
         \/ variants[m.item] = {} /\ Set(Boot, left)
         \/ \E v \in variants[m.item] :
              /\ v.blob \in Originals
              /\ \A w \in variants[m.item] : w.blob \in Originals => v.id <= w.id
              /\ Set(Boot, [left EXCEPT !.pc = "derive", !.item = m.item,
                                        !.edit = m.edit, !.src = v.blob.src])
    /\ UNCHANGED <<Files, Tables, History, events>>

\* set_dimensions on the original, before the first rung is added.
Size ==
    LET q == task[Boot] IN
    /\ q.pc = "size"
    /\ variants' = [variants EXCEPT ![q.item] =
         {IF v.blob = Original(q.src) THEN [v EXCEPT !.sized = TRUE] ELSE v : v \in @}]
    /\ Set(Boot, [q EXCEPT !.pc = "check"])
    /\ UNCHANGED <<Files, item, serial, History, events>>

-----------------------------------------------------------------------------
(* Deletions, failures, hang-ups and restarts.                             *)

\* DELETE /media/<ref>: the variants cascade, the files stay.
DeleteItem ==
    /\ Event
    /\ \E i \in Items :
         /\ Live(i)
         /\ item' = [item EXCEPT ![i] = Gone]
         /\ variants' = [variants EXCEPT ![i] = {}]
    /\ past' = past \cup {"other"}
    /\ UNCHANGED <<Files, serial, task, twins>>

\* DELETE /media/<ref>/variants/<url_key>.  Deleting the last original is
\* left out: a derivation from a rung would mint content of its own.
DeleteVariant ==
    /\ Event
    /\ \E i \in Items : \E b \in BlobsOf(i) :
         /\ (BlobsOf(i) \ {b}) \cap Originals # {}
         /\ variants' = [variants EXCEPT ![i] = {v \in @ : v.blob # b}]
    /\ past' = past \cup {"other"}
    /\ UNCHANGED <<Files, item, serial, task, twins>>

\* An error on the way: the image does not decode, no root has room, or the
\* disk fills up in the middle of the write.
Fail(t) ==
    /\ Event
    /\ task[t].pc \in {"derive", "check", "write"}
    /\ Finish(t)
    /\ past' = past \cup {"other"}
    /\ UNCHANGED <<Files, Tables, twins>>

\* The client hangs up: the handler stops at its next await, but a spawned
\* derivation goes on, and so does a store on the blocking pool.
HangUp(r) ==
    /\ Event
    /\ task[r].pc \notin {"idle"} \cup Storing
    /\ ~(task[r].op = "edit" /\ task[r].pc \in {"params"} \cup Deriving)
    /\ Finish(r)
    /\ past' = past \cup {"other"}
    /\ UNCHANGED <<Files, Tables, twins>>

Restart ==
    /\ Event
    /\ task' = [t \in Tasks |-> IF t = Boot THEN BootTask ELSE Idle]
    /\ past' = past \cup {"restart"}
    /\ UNCHANGED <<Files, Tables, twins>>

-----------------------------------------------------------------------------

Handler(r) ==
    \/ Upload(r) \/ Replace(r) \/ AppendPart(r) \/ Commit(r) \/ Create(r)
    \/ Insert(r) \/ Swap(r) \/ Rederive(r) \/ Edit(r) \/ SetEdit(r)
    \/ PickSource(r) \/ Drop(r) \/ Params(r) \/ HangUp(r)

Derivation(t) ==
    \/ Derive(t) \/ Check(t) \/ Open(t) \/ Write(t) \/ Rename(t) \/ Record(t)
    \/ Fail(t)

Next ==
    \/ \E r \in Requests : Handler(r)
    \/ \E t \in Tasks : Derivation(t)
    \/ BootScan \/ BootPick \/ Size
    \/ DeleteItem \/ DeleteVariant \/ Restart

Spec == Init /\ [][Next]_vars

-----------------------------------------------------------------------------

\* Type invariant.
TypeOK ==
    /\ disk \in [Blobs -> File]
    /\ tmp \in [Blobs -> File]
    /\ item \in [Items -> Edits \cup {NoItem, Gone}]
    /\ variants \in [Items -> SUBSET Variant]
    /\ serial \in [Items -> Nat]
    /\ task \in [Tasks -> Task]
    /\ twins \subseteq Blobs
    /\ past \subseteq {"request", "restart", "other"}
    /\ events \in Nat

\* Every row of media_variant has its file, and the file of an uploaded
\* original is always whole: StagedBlob::commit publishes only synced files,
\* whatever the stores, failures and restarts around it do.
RowsHaveBytes ==
    /\ \A i \in Items : \A b \in BlobsOf(i) : disk[b] # "none"
    /\ \A b \in Originals : disk[b] # "part"

\* A file is visible before it is complete only when two in-memory stores
\* of the same bytes once overlapped: nothing else defeats MediaStore::store.
TornOnlyByTwins == \A b \in Blobs : disk[b] = "part" => b \in twins

Quiet == \A t \in Tasks : task[t].pc = "idle" /\ task[t].todo = {}
Complete(i) ==
    Live(i) => \E v \in variants[i] :
                 /\ IsSource(i, v)
                 /\ BlobsOf(i) \ Originals =
                      {Rung(v.blob.src, item[i], k) : k \in 1 .. Rungs}

\* One request at a time and nothing failing, an item at rest carries its
\* source and exactly the rungs of its source under its present edit, after
\* any sequence of uploads, replacements, rotations, crops and re-derivations.
AloneIsComplete ==
    past \subseteq {"request"} /\ Quiet => \A i \in Items : Complete(i)

\* "a restart mid-run resumes cleanly": when only restarts happened, a
\* backfill that ran to its end left no image without its rungs.
BackfillResumes ==
    past \subseteq {"restart"} /\ Quiet => \A i \in Items : Complete(i)

\* "the sha guard protects an avif-uploaded ORIGINAL": dropping an item's
\* rungs never drops an uploaded file.
OriginalsKept ==
    [][\A r \in Requests : Drop(r) => \A i \in Items :
         BlobsOf(i) \cap Originals \subseteq BlobsOf(i)']_vars

\* "a reader never observes a partial file".
NeverPartial == \A i \in Items : \A b \in BlobsOf(i) : disk[b] # "part"

=============================================================================
