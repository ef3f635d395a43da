---------------------------- MODULE Media_proofs ----------------------------
(***************************************************************************)
(* What holds of Media for every set of uploads, items, crops and requests *)
(* and every number of rungs: a row's bytes are there, a torn file takes   *)
(* two stores of it at once, and an item handled alone gets all its rungs. *)
(***************************************************************************)
EXTENDS Media, TLAPS

-----------------------------------------------------------------------------
(* Types.  A task names an item and a source exactly where it needs them.  *)

HasItem == {"insert", "swap", "append", "set", "source", "drop", "params"} \cup Deriving
HasSrc  == {"commit", "create", "insert", "swap", "append", "drop", "params"}
             \cup Deriving
Minting == Deriving \ {"derive"}

GoodTask == {q \in Task :
    /\ q.pc \in HasItem => q.item \in Items
    /\ q.pc \in HasSrc => q.src \in Uploads
    /\ q.pc \in Minting => q.rung \in 1 .. Rungs
    /\ q.pc = "commit" => /\ q.op \in {"upload", "replace", "append"}
                          /\ q.op # "upload" => q.item \in Items}

Tidy == TypeOK /\ task \in [Tasks -> GoodTask]

LEMMA Constants ==
    /\ Plain \in Edits
    /\ \A u \in Uploads : Original(u) \in Originals
    /\ \A u \in Uploads, e \in Edits, k \in 1 .. Rungs : Rung(u, e, k) \in Derived
    /\ Originals \cap Derived = {}
    /\ Originals \subseteq Blobs /\ Derived \subseteq Blobs
    /\ Idle \in GoodTask /\ BootTask \in GoodTask
    /\ Rungs \in Nat \ {0} /\ Boot \in Tasks /\ Requests \subseteq Tasks
    /\ NoItem \notin Edits /\ Gone \notin Edits
<1>1. Plain \in Edits
  BY DEF Plain, Edits
<1>2. \A u \in Uploads : Original(u) \in Originals
  BY DEF Originals
<1>3. \A u \in Uploads, e \in Edits, k \in 1 .. Rungs : Rung(u, e, k) \in Derived
  BY DEF Rung, Derived
<1>4. Originals \cap Derived = {}
  BY DEF Originals, Derived, Original
<1>5. Rungs \in Nat \ {0}
  BY MediaAssumption
<1>6. Idle \in GoodTask /\ BootTask \in GoodTask
  <2>1. 0 \in 0 .. Rungs
    BY <1>5
  <2>2. Idle \in Task
    BY <1>1, <2>1 DEF Idle, Task, Pcs, Ops
  <2>3. BootTask \in Task
    BY <2>2 DEF BootTask, Task, Pcs, Ops
  <2>4. Idle.pc = "idle" /\ BootTask.pc = "scan"
    BY <2>2 DEF BootTask, Idle, Task
  <2> QED BY <2>2, <2>3, <2>4 DEF GoodTask, HasItem, HasSrc, Minting, Deriving
<1>7. Originals \subseteq Blobs /\ Derived \subseteq Blobs
  BY DEF Blobs
<1> QED BY <1>1, <1>2, <1>3, <1>4, <1>5, <1>6, <1>7, RowAssumption DEF Tasks

\* The end of a task, and the only ways a task changes.
LEMMA RestGood == ASSUME Tidy, NEW t \in Tasks PROVE Rest(t) \in GoodTask /\ Rest(t).pc = "idle"
<1>1. task[t] \in GoodTask /\ Idle \in GoodTask
  BY Constants DEF Tidy
<1> QED BY <1>1, ZenonT(40) DEF Rest, GoodTask, Task, Idle, Pcs, Ops, HasItem, HasSrc, Minting,
           Deriving

LEMMA SetGood ==
    ASSUME Tidy, NEW t \in Tasks, NEW q \in GoodTask, Set(t, q)
    PROVE  /\ task' \in [Tasks -> GoodTask]
           /\ task'[t] = q
           /\ \A u \in Tasks \ {t} : task'[u] = task[u]
BY DEF Set, Tidy

LEMMA FinishGood ==
    ASSUME Tidy, NEW t \in Tasks, Finish(t)
    PROVE  /\ task' \in [Tasks -> GoodTask]
           /\ task'[t].pc = "idle"
           /\ \A u \in Tasks \ {t} : task'[u] = task[u]
BY RestGood, SetGood DEF Finish

LEMMA InitTidy == Init => Tidy
<1> SUFFICES ASSUME Init PROVE Tidy
  OBVIOUS
<1> USE Constants
<1>1. PICK legacy \in [Items -> Uploads \cup {NoItem}] :
        /\ item = [i \in Items |-> IF legacy[i] = NoItem THEN NoItem ELSE Plain]
        /\ variants = [i \in Items |-> IF legacy[i] = NoItem THEN {}
             ELSE {[OriginalRow(legacy[i], 0) EXCEPT !.sized = FALSE]}]
  BY DEF Init
<1>2. item \in [Items -> Edits \cup {NoItem, Gone}]
  BY <1>1
<1>3. variants \in [Items -> SUBSET Variant]
  <2> SUFFICES ASSUME NEW i \in Items, legacy[i] # NoItem
               PROVE  [OriginalRow(legacy[i], 0) EXCEPT !.sized = FALSE] \in Variant
    BY <1>1
  <2>1. Original(legacy[i]) \in Blobs
    BY <1>1
  <2> QED BY <2>1 DEF OriginalRow, Variant
<1>4. disk \in [Blobs -> File] /\ tmp \in [Blobs -> File]
  BY DEF Init, File
<1>5. serial \in [Items -> Nat] /\ task \in [Tasks -> GoodTask]
  BY DEF Init
<1>6. twins \subseteq Blobs /\ past = {} /\ events \in Nat
  BY DEF Init
<1> QED BY <1>2, <1>3, <1>4, <1>5, <1>6 DEF Tidy, TypeOK, GoodTask

\* Where a request starts.
LEMMA StartGood ==
    /\ \A u \in Uploads :
         [Idle EXCEPT !.pc = "commit", !.op = "upload", !.src = u] \in GoodTask
    /\ \A u \in Uploads, i \in Items :
         [Idle EXCEPT !.pc = "commit", !.op = "replace", !.src = u, !.item = i] \in GoodTask
    /\ \A u \in Uploads, i \in Items : \A seen \in SUBSET Blobs :
         [Idle EXCEPT !.pc = "commit", !.op = "append", !.src = u,
                      !.item = i, !.seen = seen] \in GoodTask
    /\ \A i \in Items :
         [Idle EXCEPT !.pc = "source", !.op = "edit", !.item = i] \in GoodTask
    /\ \A i \in Items, e \in Edits :
         [Idle EXCEPT !.pc = "set", !.op = "edit", !.item = i, !.edit = e] \in GoodTask
<1>0. Idle \in Task
  BY Constants DEF GoodTask
<1> DEFINE Sound(q) == /\ q \in Task
                       /\ q.pc \in {"commit", "source", "set"}
                       /\ q.pc = "commit" => q.src \in Uploads
                       /\ q.pc = "commit" => q.op \in {"upload", "replace", "append"}
                       /\ q.op # "upload" => q.item \in Items
                       /\ q.pc # "commit" => q.op = "edit"
<1>1. \A q : Sound(q) => q \in GoodTask
  BY DEF GoodTask, HasItem, HasSrc, Minting, Deriving
<1>2. \A u \in Uploads :
        Sound([Idle EXCEPT !.pc = "commit", !.op = "upload", !.src = u])
  BY <1>0 DEF Task, Pcs, Ops
<1>3. \A u \in Uploads, i \in Items :
        Sound([Idle EXCEPT !.pc = "commit", !.op = "replace", !.src = u, !.item = i])
  <2> SUFFICES ASSUME NEW u \in Uploads, NEW i \in Items, NEW q,
                 q = [Idle EXCEPT !.pc = "commit", !.op = "replace", !.src = u, !.item = i]
               PROVE  Sound(q)
    OBVIOUS
  <2>1. q \in Task
    BY <1>0 DEF Task, Pcs, Ops
  <2>2. q.pc = "commit" /\ q.op = "replace" /\ q.src = u /\ q.item = i
    BY <1>0 DEF Task
  <2> QED BY <2>1, <2>2
<1>4. \A u \in Uploads, i \in Items : \A seen \in SUBSET Blobs :
        Sound([Idle EXCEPT !.pc = "commit", !.op = "append", !.src = u,
                     !.item = i, !.seen = seen])
  <2> SUFFICES ASSUME NEW u \in Uploads, NEW i \in Items, NEW seen \in SUBSET Blobs
               PROVE  Sound([Idle EXCEPT !.pc = "commit", !.op = "append", !.src = u,
                                         !.item = i, !.seen = seen])
    <3> HIDE DEF Sound
    <3> QED OBVIOUS
  <2> SUFFICES ASSUME NEW q,
                 q = [Idle EXCEPT !.pc = "commit", !.op = "append", !.src = u,
                                  !.item = i, !.seen = seen]
               PROVE  Sound(q)
    OBVIOUS
  <2>1. q \in Task
    BY <1>0 DEF Task, Pcs, Ops
  <2>2. q.pc = "commit" /\ q.op = "append" /\ q.src = u /\ q.item = i
    BY <1>0 DEF Task
  <2> QED BY <2>1, <2>2
<1>5. \A i \in Items :
        Sound([Idle EXCEPT !.pc = "source", !.op = "edit", !.item = i])
  <2> SUFFICES ASSUME NEW i \in Items, NEW q,
                 q = [Idle EXCEPT !.pc = "source", !.op = "edit", !.item = i]
               PROVE  Sound(q)
    OBVIOUS
  <2>1. q \in Task
    BY <1>0 DEF Task, Pcs, Ops
  <2>2. q.pc = "source" /\ q.op = "edit" /\ q.item = i
    BY <1>0 DEF Task
  <2> QED BY <2>1, <2>2
<1>6. \A i \in Items, e \in Edits :
        Sound([Idle EXCEPT !.pc = "set", !.op = "edit", !.item = i, !.edit = e])
  <2> SUFFICES ASSUME NEW i \in Items, NEW e \in Edits, NEW q,
                 q = [Idle EXCEPT !.pc = "set", !.op = "edit", !.item = i, !.edit = e]
               PROVE  Sound(q)
    OBVIOUS
  <2>1. q \in Task
    BY <1>0 DEF Task, Pcs, Ops
  <2>2. q.pc = "set" /\ q.op = "edit" /\ q.item = i
    BY <1>0 DEF Task
  <2> QED BY <2>1, <2>2
<1> HIDE DEF Sound
<1> QED BY <1>1, <1>2, <1>3, <1>4, <1>5, <1>6

\* Where a task goes next.
LEMMA MoveGood ==
    ASSUME NEW q \in GoodTask, NEW pc \in Pcs,
           pc \in HasItem => q.item \in Items,
           pc \in HasSrc => q.src \in Uploads,
           pc \in Minting => q.rung \in 1 .. Rungs,
           pc # "commit"
    PROVE  [q EXCEPT !.pc = pc] \in GoodTask
<1>1. [q EXCEPT !.pc = pc] \in Task /\ [q EXCEPT !.pc = pc].pc = pc
  BY DEF GoodTask, Task
<1>2. /\ [q EXCEPT !.pc = pc].item = q.item /\ [q EXCEPT !.pc = pc].src = q.src
      /\ [q EXCEPT !.pc = pc].rung = q.rung
  BY DEF GoodTask, Task
<1> QED BY <1>1, <1>2 DEF GoodTask

LEMMA RowsTyped ==
    ASSUME Tidy, NEW i \in Items
    PROVE  /\ variants[i] \subseteq Variant /\ BlobsOf(i) \subseteq Blobs
           /\ \A u \in Uploads : OriginalRow(u, serial[i]) \in Variant
           /\ \A b \in Blobs : RungRow(b) \in Variant
<1>1. variants[i] \subseteq Variant /\ serial[i] \in Nat
  BY DEF Tidy, TypeOK
<1>2. \A u \in Uploads : Original(u) \in Blobs
  BY Constants
<1> QED BY <1>1, <1>2 DEF Variant, BlobsOf, OriginalRow, RungRow

\* Steps of a request that change no table and no file.
LEMMA QuietTidy ==
    ASSUME Tidy, task' \in [Tasks -> GoodTask], UNCHANGED <<Files, Tables>>,
           twins' \subseteq Blobs, past' \subseteq {"request", "restart", "other"},
           events' \in Nat
    PROVE  Tidy'
BY DEF Tidy, TypeOK, Files, Tables, GoodTask

LEMMA ArriveTyped ==
    ASSUME Tidy, NEW r, NEW kind \in {"request", "other"}, Arrive(r, kind)
    PROVE  past' \subseteq {"request", "restart", "other"} /\ events' \in Nat
BY DEF Arrive, Event, Tidy, TypeOK

LEMMA ArrivalsTidy ==
    ASSUME Tidy, NEW r \in Requests,
           Upload(r) \/ Replace(r) \/ AppendPart(r) \/ Rederive(r) \/ Edit(r)
    PROVE  Tidy'
<1> USE Constants
<1>0. r \in Tasks /\ twins \subseteq Blobs
  BY DEF Tidy, TypeOK
<1>1. CASE Upload(r)
  <2>1. task' \in [Tasks -> GoodTask]
    BY <1>0, <1>1, StartGood, SetGood DEF Upload
  <2> QED BY <1>0, <1>1, <2>1, ArriveTyped, QuietTidy DEF Upload
<1>2. CASE Replace(r)
  <2>1. task' \in [Tasks -> GoodTask]
    BY <1>0, <1>2, StartGood, SetGood DEF Replace
  <2> QED BY <1>0, <1>2, <2>1, ArriveTyped, QuietTidy DEF Replace
<1>3. CASE AppendPart(r)
  <2>1. task' \in [Tasks -> GoodTask]
    BY <1>0, <1>3, StartGood, SetGood, RowsTyped DEF AppendPart
  <2> QED BY <1>0, <1>3, <2>1, ArriveTyped, QuietTidy DEF AppendPart
<1>4. CASE Rederive(r)
  <2>1. task' \in [Tasks -> GoodTask]
    BY <1>0, <1>4, StartGood, SetGood DEF Rederive
  <2> QED BY <1>0, <1>4, <2>1, ArriveTyped, QuietTidy DEF Rederive
<1>5. CASE Edit(r)
  <2>1. \A e \in Edits : /\ \A d \in {1, 3} : Turned(e, d) \in Edits
                         /\ \A c \in Crops \cup {NoCrop} : Cropped(e, c) \in Edits
    <3> SUFFICES ASSUME NEW e \in Edits
                 PROVE  /\ \A d \in {1, 3} : Turned(e, d) \in Edits
                        /\ \A c \in Crops \cup {NoCrop} : Cropped(e, c) \in Edits
      OBVIOUS
    <3>1. \A n \in 0 .. 3, d \in {1, 3} : (n + d) % 4 \in 0 .. 3
      OBVIOUS
    <3> QED BY <3>1 DEF Turned, Cropped, Edits
  <2>2. task' \in [Tasks -> GoodTask]
    BY <1>0, <1>5, <2>1, StartGood, SetGood DEF Edit, Live
  <2> QED BY <1>0, <1>5, <2>2, ArriveTyped, QuietTidy DEF Edit
<1> QED BY <1>1, <1>2, <1>3, <1>4, <1>5

\* The other steps of a request.
LEMMA RequestTidy ==
    ASSUME Tidy, NEW r \in Requests,
           \/ Commit(r) \/ Create(r) \/ Insert(r) \/ Swap(r)
           \/ SetEdit(r) \/ PickSource(r) \/ Drop(r) \/ Params(r) \/ HangUp(r)
    PROVE  Tidy'
<1> USE Constants
<1>0. /\ r \in Tasks /\ twins \subseteq Blobs /\ task[r] \in GoodTask
      /\ past \subseteq {"request", "restart", "other"} /\ events \in Nat
  BY DEF Tidy, TypeOK
<1> DEFINE q == task[r]
<1>a. /\ q.pc \in HasItem => q.item \in Items
      /\ q.pc \in HasSrc => q.src \in Uploads
      /\ q \in Task
  BY <1>0 DEF GoodTask
<1>1. CASE Commit(r)
  <2>0. /\ q.pc = "commit" /\ q.src \in Uploads
        /\ q.op \in {"upload", "replace", "append"}
        /\ q.op # "upload" => q.item \in Items
    BY <1>0, <1>1 DEF Commit, GoodTask, HasSrc
  <2>1. task' \in [Tasks -> GoodTask]
    <3>1. CASE q.op = "upload"
      <4>1. [q EXCEPT !.pc = "create"] \in GoodTask
        BY <1>0, <2>0, MoveGood DEF Pcs, HasItem, HasSrc, Minting, Deriving
      <4> QED BY <1>0, <1>1, <3>1, <4>1, SetGood DEF Commit
    <3>2. CASE q.op = "replace"
      <4>1. [q EXCEPT !.pc = "swap"] \in GoodTask
        BY <1>0, <2>0, <3>2, MoveGood DEF Pcs, HasItem, HasSrc, Minting, Deriving
      <4> QED BY <1>0, <1>1, <3>2, <4>1, SetGood DEF Commit
    <3>3. CASE q.op = "append"
      <4>1. [q EXCEPT !.pc = "append"] \in GoodTask
        BY <1>0, <2>0, <3>3, MoveGood DEF Pcs, HasItem, HasSrc, Minting, Deriving
      <4> QED BY <1>0, <1>1, <3>3, <4>1, SetGood, FinishGood DEF Commit
    <3> QED BY <2>0, <3>1, <3>2, <3>3
  <2>2. disk' \in [Blobs -> File]
    BY <1>1 DEF Commit, Tidy, TypeOK, File
  <2> QED BY <1>1, <2>1, <2>2 DEF Commit, Tidy, TypeOK, Tables, History, GoodTask
<1>2. CASE Create(r)
  <2>1. PICK i \in Items : /\ item' = [item EXCEPT ![i] = Plain]
                           /\ Set(r, [q EXCEPT !.pc = "insert", !.item = i])
    BY <1>2 DEF Create
  <2>2. q.src \in Uploads
    BY <1>0, <1>2 DEF Create, GoodTask, HasSrc
  <2>3. [q EXCEPT !.pc = "insert", !.item = i] \in GoodTask
    <3> SUFFICES ASSUME NEW p, p = [q EXCEPT !.pc = "insert", !.item = i]
                 PROVE  p \in GoodTask
      OBVIOUS
    <3>1. p \in Task /\ p.pc = "insert" /\ p.item = i /\ p.src = q.src
      BY <1>a DEF Task, Pcs
    <3> QED BY <2>2, <3>1 DEF GoodTask, HasItem, HasSrc, Minting, Deriving
  <2>4. task' \in [Tasks -> GoodTask]
    BY <1>0, <2>1, <2>3, SetGood
  <2>5. item' \in [Items -> Edits \cup {NoItem, Gone}]
    BY <2>1 DEF Tidy, TypeOK
  <2> QED BY <1>2, <2>4, <2>5 DEF Create, Tidy, TypeOK, Files, History, GoodTask
<1>3. CASE Insert(r)
  <2>1. q.item \in Items /\ q.src \in Uploads
    BY <1>0, <1>3 DEF Insert, GoodTask, HasItem, HasSrc
  <2>2. task' \in [Tasks -> GoodTask]
    <3>1. [q EXCEPT !.pc = "params"] \in GoodTask
      BY <1>0, <2>1, MoveGood DEF Pcs, HasItem, HasSrc, Minting, Deriving
    <3> QED BY <1>0, <1>3, <3>1, SetGood, FinishGood DEF Insert
  <2>3. variants' \in [Items -> SUBSET Variant] /\ serial' \in [Items -> Nat]
    BY <1>3, <2>1, RowsTyped DEF Insert, AddOriginal, Tidy, TypeOK
  <2> QED BY <1>3, <2>2, <2>3 DEF Insert, Tidy, TypeOK, Files, History, GoodTask
<1>4. CASE Swap(r)
  <2>1. q.item \in Items /\ q.src \in Uploads
    BY <1>0, <1>4 DEF Swap, GoodTask, HasItem, HasSrc
  <2>2. task' \in [Tasks -> GoodTask]
    <3>1. [q EXCEPT !.pc = "params"] \in GoodTask
      BY <1>0, <2>1, MoveGood DEF Pcs, HasItem, HasSrc, Minting, Deriving
    <3> QED BY <1>0, <1>4, <3>1, SetGood, FinishGood DEF Swap
  <2>3. variants' \in [Items -> SUBSET Variant] /\ serial' \in [Items -> Nat]
    BY <1>4, <2>1, RowsTyped DEF Swap, AddOriginal, Tidy, TypeOK
  <2> QED BY <1>4, <2>2, <2>3 DEF Swap, Tidy, TypeOK, Files, History, GoodTask
<1>5. CASE SetEdit(r)
  <2>1. q.item \in Items /\ q.edit \in Edits
    BY <1>0, <1>5 DEF SetEdit, GoodTask, HasItem, Task
  <2>2. [q EXCEPT !.pc = "source"] \in GoodTask
    BY <1>0, <2>1, MoveGood DEF Pcs, HasItem, HasSrc, Minting, Deriving
  <2>3. task' \in [Tasks -> GoodTask]
    BY <1>0, <1>5, <2>2, SetGood DEF SetEdit
  <2>4. item' \in [Items -> Edits \cup {NoItem, Gone}]
    BY <1>5, <2>1 DEF SetEdit, Tidy, TypeOK
  <2> QED BY <1>5, <2>3, <2>4 DEF SetEdit, Tidy, TypeOK, Files, History, GoodTask
<1>6. CASE PickSource(r)
  <2>1. q.item \in Items
    BY <1>0, <1>6 DEF PickSource, GoodTask, HasItem
  <2>2. task' \in [Tasks -> GoodTask]
    <3>1. CASE Finish(r)
      BY <1>0, <3>1, FinishGood
    <3>2. ASSUME NEW v \in variants[q.item], IsSource(q.item, v),
                 Set(r, [q EXCEPT !.pc = "drop", !.src = v.blob.src])
          PROVE  task' \in [Tasks -> GoodTask]
      <4>1. v.blob.src \in Uploads
        BY <3>2 DEF IsSource, Originals, Original
      <4>2. ASSUME NEW p, p = [q EXCEPT !.pc = "drop", !.src = v.blob.src]
            PROVE  p \in GoodTask
        <5>1. p \in Task /\ p.pc = "drop" /\ p.item = q.item /\ p.src = v.blob.src
          BY <1>a, <4>1, <4>2 DEF Task, Pcs
        <5> QED BY <2>1, <4>1, <5>1 DEF GoodTask, HasItem, HasSrc, Minting, Deriving
      <4> QED BY <1>0, <3>2, <4>2, SetGood
    <3> QED BY <1>6, <3>1, <3>2 DEF PickSource
  <2> QED BY <1>6, <2>2 DEF PickSource, Tidy, TypeOK, Files, Tables, History, GoodTask
<1>7. CASE Drop(r)
  <2>1. q.item \in Items /\ q.src \in Uploads
    BY <1>0, <1>7 DEF Drop, GoodTask, HasItem, HasSrc
  <2>2. [q EXCEPT !.pc = "params"] \in GoodTask
    BY <1>0, <2>1, MoveGood DEF Pcs, HasItem, HasSrc, Minting, Deriving
  <2>3. task' \in [Tasks -> GoodTask]
    BY <1>0, <1>7, <2>2, SetGood DEF Drop
  <2>4. variants' \in [Items -> SUBSET Variant]
    BY <1>7, <2>1 DEF Drop, Tidy, TypeOK
  <2> QED BY <1>7, <2>3, <2>4 DEF Drop, Tidy, TypeOK, Files, History, GoodTask
<1>8. CASE Params(r)
  <2>1. q.item \in Items /\ q.src \in Uploads
    BY <1>0, <1>8 DEF Params, GoodTask, HasItem, HasSrc
  <2>2. PICK e \in Edits : Set(r, [q EXCEPT !.pc = "derive", !.edit = e])
    BY <1>8 DEF Params, Live
  <2>3. ASSUME NEW p, p = [q EXCEPT !.pc = "derive", !.edit = e]
        PROVE  p \in GoodTask
    <3>1. p \in Task /\ p.pc = "derive" /\ p.item = q.item /\ p.src = q.src
      BY <1>a, <2>3 DEF Task, Pcs
    <3> QED BY <2>1, <3>1 DEF GoodTask, HasItem, HasSrc, Minting, Deriving
  <2>4. task' \in [Tasks -> GoodTask]
    BY <1>0, <2>2, <2>3, SetGood
  <2> QED BY <1>8, <2>4 DEF Params, Tidy, TypeOK, Files, Tables, History, GoodTask
<1>9. CASE HangUp(r)
  <2>1. task' \in [Tasks -> GoodTask]
    BY <1>0, <1>9, FinishGood DEF HangUp
  <2> QED BY <1>0, <1>9, <2>1, QuietTidy DEF HangUp, Event
<1> QED BY <1>1, <1>2, <1>3, <1>4, <1>5, <1>6, <1>7, <1>8, <1>9

\* The steps of a derivation, spawned, awaited or the backfill's.
LEMMA CurrentMinted ==
    ASSUME Tidy, NEW t \in Tasks, task[t].pc \in Minting
    PROVE  Current(t) \in Derived /\ Current(t) \in Blobs
<1>1. task[t].src \in Uploads /\ task[t].rung \in 1 .. Rungs /\ task[t].edit \in Edits
  BY DEF Tidy, GoodTask, Task, Minting, HasSrc
<1> QED BY <1>1, Constants DEF Current

LEMMA DerivationTidy ==
    ASSUME Tidy, NEW t \in Tasks, Derivation(t)
    PROVE  Tidy'
<1> USE Constants
<1>0. /\ twins \subseteq Blobs /\ task[t] \in GoodTask
      /\ past \subseteq {"request", "restart", "other"} /\ events \in Nat
  BY DEF Tidy, TypeOK
<1> DEFINE q == task[t]
<1>a. /\ q.pc \in HasItem => q.item \in Items
      /\ q.pc \in HasSrc => q.src \in Uploads
      /\ q.pc \in Minting => q.rung \in 1 .. Rungs
      /\ q \in Task
  BY <1>0 DEF GoodTask
<1>1. CASE Derive(t)
  <2>1. q.item \in Items /\ q.src \in Uploads
    BY <1>a, <1>1 DEF Derive, HasItem, HasSrc, Deriving
  <2>2. ASSUME NEW pc \in {"size", "check"}, NEW p, p = [q EXCEPT !.pc = pc, !.rung = 1]
        PROVE  p \in GoodTask
    <3>1. 1 \in 1 .. Rungs /\ 1 \in 0 .. Rungs
      OBVIOUS
    <3>2. p \in Task
      BY <1>a, <2>2, <3>1 DEF Task, Pcs
    <3>3. p.pc = pc /\ p.item = q.item /\ p.src = q.src /\ p.rung = 1
      BY <1>a, <2>2 DEF Task
    <3> QED BY <2>1, <3>1, <3>2, <3>3 DEF GoodTask
  <2>3. task' \in [Tasks -> GoodTask]
    BY <1>1, <2>2, SetGood, FinishGood DEF Derive
  <2> QED BY <1>1, <2>3 DEF Derive, Tidy, TypeOK, Files, Tables, History, GoodTask
<1>2. CASE Check(t)
  <2>1. q.item \in Items /\ q.src \in Uploads /\ q.rung \in 1 .. Rungs
    BY <1>a, <1>2 DEF Check, HasItem, HasSrc, Minting, Deriving
  <2>2. [q EXCEPT !.pc = "open"] \in GoodTask /\ [q EXCEPT !.pc = "record"] \in GoodTask
    BY <1>0, <2>1, MoveGood DEF Pcs
  <2>3. task' \in [Tasks -> GoodTask]
    BY <1>2, <2>2, SetGood DEF Check
  <2>4. twins' \subseteq Blobs
    BY <1>0, <1>2, CurrentMinted DEF Check, Minting, Deriving
  <2> QED BY <1>2, <2>3, <2>4 DEF Check, Tidy, TypeOK, Files, Tables, GoodTask
<1>3. CASE Open(t)
  <2>1. q.item \in Items /\ q.src \in Uploads /\ q.rung \in 1 .. Rungs
    BY <1>a, <1>3 DEF Open, HasItem, HasSrc, Minting, Deriving
  <2>2. ASSUME NEW p, p = [q EXCEPT !.pc = "write", !.file = "tmp", !.fresh = TRUE]
        PROVE  p \in GoodTask
    <3>1. p \in Task
      BY <1>a, <2>2 DEF Task, Pcs
    <3>2. p.pc = "write" /\ p.item = q.item /\ p.src = q.src /\ p.rung = q.rung
      BY <1>a, <2>2 DEF Task
    <3> QED BY <2>1, <3>1, <3>2 DEF GoodTask
  <2>3. \A u \in Tasks : [task[u] EXCEPT !.fresh = FALSE] \in GoodTask
    BY DEF Tidy, GoodTask, Task
  <2>4. task' \in [Tasks -> GoodTask]
    BY <1>3, <2>2, <2>3 DEF Open, Tidy
  <2>5. tmp' \in [Blobs -> File]
    BY <1>3 DEF Open, Tidy, TypeOK, File
  <2> QED BY <1>3, <2>4, <2>5 DEF Open, Tidy, TypeOK, Tables, History, GoodTask
<1>4. CASE Write(t)
  <2>1. q.item \in Items /\ q.src \in Uploads /\ q.rung \in 1 .. Rungs
    BY <1>a, <1>4 DEF Write, HasItem, HasSrc, Minting, Deriving
  <2>2. [q EXCEPT !.pc = "rename"] \in GoodTask
    BY <1>0, <2>1, MoveGood DEF Pcs
  <2>3. task' \in [Tasks -> GoodTask]
    BY <1>4, <2>2, SetGood DEF Write
  <2>4. disk' \in [Blobs -> File] /\ tmp' \in [Blobs -> File]
    <3>1. Current(t) \in Blobs
      BY <1>4, CurrentMinted DEF Write, Minting, Deriving
    <3>2. \A f \in Written(t, tmp[Current(t)]) \cup Written(t, disk[Current(t)]) : f \in File
      BY <3>1 DEF Written, Tidy, TypeOK, File
    <3> QED BY <1>4, <3>2 DEF Write, Tidy, TypeOK, Files
  <2> QED BY <1>4, <2>3, <2>4 DEF Write, Tidy, TypeOK, Tables, History, GoodTask
<1>5. CASE Rename(t)
  <2>1. q.item \in Items /\ q.src \in Uploads /\ q.rung \in 1 .. Rungs
    BY <1>a, <1>5 DEF Rename, HasItem, HasSrc, Minting, Deriving
  <2>2. ASSUME NEW p, p = [q EXCEPT !.pc = "record", !.file = "none", !.fresh = FALSE]
        PROVE  p \in GoodTask
    <3>1. p \in Task
      BY <1>a, <2>2 DEF Task, Pcs
    <3>2. p.pc = "record" /\ p.item = q.item /\ p.src = q.src /\ p.rung = q.rung
      BY <1>a, <2>2 DEF Task
    <3> QED BY <2>1, <3>1, <3>2 DEF GoodTask
  <2>3. \A u \in Tasks : [task[u] EXCEPT !.file = Moved(@)] \in GoodTask
    BY ZenonT(40) DEF Tidy, GoodTask, Task, Moved
  <2>4. task' \in [Tasks -> GoodTask]
    BY <1>5, <2>2, <2>3, FinishGood DEF Rename, Tidy
  <2>5. disk' \in [Blobs -> File] /\ tmp' \in [Blobs -> File]
    <3>1. Current(t) \in Blobs
      BY <1>5, CurrentMinted DEF Rename, Minting, Deriving
    <3> QED BY <1>5, <3>1 DEF Rename, Tidy, TypeOK, File, Files
  <2> QED BY <1>5, <2>4, <2>5 DEF Rename, Tidy, TypeOK, Tables, History, GoodTask
<1>6. CASE Record(t)
  <2>1. q.item \in Items /\ q.src \in Uploads /\ q.rung \in 1 .. Rungs
    BY <1>a, <1>6 DEF Record, HasItem, HasSrc, Minting, Deriving
  <2>2. ASSUME NEW p, p = [q EXCEPT !.pc = "check", !.rung = @ + 1], q.rung < Rungs
        PROVE  p \in GoodTask
    <3>1. q.rung + 1 \in 1 .. Rungs /\ q.rung + 1 \in 0 .. Rungs
      BY <2>1, <2>2
    <3>2. p \in Task
      BY <1>a, <2>2, <3>1 DEF Task, Pcs
    <3>3. p.pc = "check" /\ p.item = q.item /\ p.src = q.src /\ p.rung = q.rung + 1
      BY <1>a, <2>2 DEF Task
    <3> QED BY <2>1, <3>1, <3>2, <3>3 DEF GoodTask
  <2>3. task' \in [Tasks -> GoodTask]
    BY <1>6, <2>2, SetGood, FinishGood DEF Record
  <2>4. Current(t) \in Blobs
    BY <1>6, CurrentMinted DEF Record, Minting, Deriving
  <2>5. variants' \in [Items -> SUBSET Variant]
    BY <1>6, <2>1, <2>4, RowsTyped DEF Record, Tidy, TypeOK
  <2> QED BY <1>6, <2>3, <2>5 DEF Record, Tidy, TypeOK, Files, History, GoodTask
<1>7. CASE Fail(t)
  <2>1. task' \in [Tasks -> GoodTask]
    BY <1>7, FinishGood DEF Fail
  <2> QED BY <1>0, <1>7, <2>1, QuietTidy DEF Fail, Event
<1> QED BY <1>1, <1>2, <1>3, <1>4, <1>5, <1>6, <1>7 DEF Derivation

\* The backfill, the deletions and the restart.
LEMMA OtherTidy ==
    ASSUME Tidy, BootScan \/ BootPick \/ Size \/ DeleteItem \/ DeleteVariant \/ Restart
    PROVE  Tidy'
<1> USE Constants
<1>0. /\ twins \subseteq Blobs /\ task[Boot] \in GoodTask
      /\ past \subseteq {"request", "restart", "other"} /\ events \in Nat
  BY DEF Tidy, TypeOK
<1>b. Idle \in Task
  BY DEF GoodTask
<1> DEFINE q == task[Boot]
<1>a. q.todo \in SUBSET [item : Items, edit : Edits]
  BY <1>0 DEF GoodTask, Task
<1>c. ASSUME NEW todo \in SUBSET [item : Items, edit : Edits], NEW p,
             p = [Idle EXCEPT !.op = "backfill", !.todo = todo]
      PROVE  p \in Task /\ p \in GoodTask
  <2>1. p \in Task
    BY <1>b, <1>c DEF Task, Ops
  <2>2. p.pc = "idle"
    BY <1>c DEF Idle
  <2> QED BY <2>1, <2>2 DEF GoodTask, HasItem, HasSrc, Minting, Deriving
<1>1. CASE BootScan
  <2> DEFINE todo == {[item |-> i, edit |-> item[i]] : i \in
            {j \in Items : Live(j) /\ variants[j] # {} /\ \A v \in variants[j] : ~v.sized}}
  <2>1. todo \in SUBSET [item : Items, edit : Edits]
    BY DEF Live
  <2>2. Set(Boot, [Idle EXCEPT !.op = "backfill", !.todo = todo])
    BY <1>1 DEF BootScan
  <2> HIDE DEF todo
  <2>3. task' \in [Tasks -> GoodTask]
    BY <1>c, <2>1, <2>2, SetGood
  <2> QED BY <1>1, <2>3 DEF BootScan, Tidy, TypeOK, Files, Tables, History, GoodTask
<1>2. CASE BootPick
  <2>1. PICK m \in q.todo :
         LET left == [Idle EXCEPT !.op = "backfill", !.todo = q.todo \ {m}] IN
         \/ variants[m.item] = {} /\ Set(Boot, left)
         \/ \E v \in variants[m.item] :
              /\ v.blob \in Originals
              /\ \A w \in variants[m.item] : w.blob \in Originals => v.id <= w.id
              /\ Set(Boot, [left EXCEPT !.pc = "derive", !.item = m.item,
                                        !.edit = m.edit, !.src = v.blob.src])
    BY <1>2 DEF BootPick
  <2> DEFINE left == [Idle EXCEPT !.op = "backfill", !.todo = q.todo \ {m}]
  <2>2. q.todo \ {m} \in SUBSET [item : Items, edit : Edits]
    BY <1>a
  <2>3. left \in Task /\ left \in GoodTask
    BY <1>c, <2>2
  <2>4. m.item \in Items /\ m.edit \in Edits
    BY <1>a, <2>1
  <2>5. ASSUME NEW v, v.blob \in Originals, NEW p,
               p = [left EXCEPT !.pc = "derive", !.item = m.item,
                                !.edit = m.edit, !.src = v.blob.src]
        PROVE  p \in GoodTask
    <3>1. v.blob.src \in Uploads
      BY <2>5 DEF Originals, Original
    <3> HIDE DEF left
    <3>2. p \in Task
      BY <2>3, <2>4, <2>5, <3>1 DEF Task, Pcs
    <3>3. p.pc = "derive" /\ p.item = m.item /\ p.src = v.blob.src
      BY <2>3, <2>5 DEF Task
    <3> QED BY <2>4, <3>1, <3>2, <3>3 DEF GoodTask, Minting, Deriving
  <2>6. \/ Set(Boot, left)
        \/ \E v : /\ v.blob \in Originals
                  /\ Set(Boot, [left EXCEPT !.pc = "derive", !.item = m.item,
                                            !.edit = m.edit, !.src = v.blob.src])
    BY <2>1
  <2> HIDE DEF left
  <2>7. task' \in [Tasks -> GoodTask]
    BY <2>3, <2>5, <2>6, SetGood
  <2> QED BY <1>2, <2>7 DEF BootPick, Tidy, TypeOK, Files, Tables, History, GoodTask
<1>3. CASE Size
  <2>1. q.item \in Items /\ q.src \in Uploads /\ q.rung \in 1 .. Rungs
    BY <1>0, <1>3 DEF Size, GoodTask, HasItem, HasSrc, Minting, Deriving
  <2>2. [q EXCEPT !.pc = "check"] \in GoodTask
    BY <1>0, <2>1, MoveGood DEF Pcs
  <2>3. task' \in [Tasks -> GoodTask]
    BY <1>3, <2>2, SetGood DEF Size
  <2>4. variants' \in [Items -> SUBSET Variant]
    <3>1. \A v \in Variant : [v EXCEPT !.sized = TRUE] \in Variant
      BY DEF Variant
    <3> QED BY <1>3, <2>1, <3>1 DEF Size, Tidy, TypeOK
  <2> QED BY <1>3, <2>3, <2>4 DEF Size, Tidy, TypeOK, Files, History, GoodTask
<1>4. CASE DeleteItem
  <2>1. variants' \in [Items -> SUBSET Variant] /\ item' \in [Items -> Edits \cup {NoItem, Gone}]
    BY <1>4 DEF DeleteItem, Tidy, TypeOK
  <2> QED BY <1>0, <1>4, <2>1 DEF DeleteItem, Event, Tidy, TypeOK, Files, GoodTask
<1>5. CASE DeleteVariant
  <2>1. variants' \in [Items -> SUBSET Variant]
    BY <1>5 DEF DeleteVariant, Tidy, TypeOK
  <2> QED BY <1>0, <1>5, <2>1 DEF DeleteVariant, Event, Tidy, TypeOK, Files, GoodTask
<1>6. CASE Restart
  <2>1. task' \in [Tasks -> GoodTask]
    BY <1>6 DEF Restart
  <2> QED BY <1>0, <1>6, <2>1, QuietTidy DEF Restart, Event
<1> QED BY <1>1, <1>2, <1>3, <1>4, <1>5, <1>6

LEMMA StepTidy == Tidy /\ [Next]_vars => Tidy'
<1> SUFFICES ASSUME Tidy, [Next]_vars PROVE Tidy'
  OBVIOUS
<1>1. ASSUME NEW r \in Requests, Handler(r) PROVE Tidy'
  BY <1>1, ArrivalsTidy, RequestTidy DEF Handler
<1>2. CASE UNCHANGED vars
  BY <1>2 DEF Tidy, TypeOK, vars, GoodTask
<1> QED BY <1>1, <1>2, DerivationTidy, OtherTidy DEF Next

\* Every state of the library has the declared types: an edit is a row's
\* metadata, a quarter turn between 0 and 3 and a quad or none.
THEOREM TypeCorrect == Spec => []TypeOK
<1>1. Tidy => TypeOK
  BY DEF Tidy
<1> QED BY <1>1, InitTidy, StepTidy, PTL DEF Spec

-----------------------------------------------------------------------------
(* Rows and their bytes.  A request holds its original from the commit to  *)
(* its row, a derivation each rung from the store to its row; a stored     *)
(* file is never removed, and only a commit touches an original's.         *)

Holds(t) ==
    /\ task[t].pc \in {"create", "insert", "swap", "append"} =>
         disk[Original(task[t].src)] # "none"
    /\ task[t].pc = "record" => disk[Current(t)] # "none"

Bytes == RowsHaveBytes /\ \A t \in Tasks : Holds(t)

\* The bystanders of a step stay where they are, with the blob they hold.
Still(u) == /\ task'[u].pc = task[u].pc /\ task'[u].src = task[u].src
            /\ task'[u].edit = task[u].edit /\ task'[u].rung = task[u].rung

Boots == BootScan \/ BootPick \/ Size

LEMMA Bystanders ==
    ASSUME Tidy, NEW t \in Tasks,
           \/ t \in Requests /\ Handler(t)
           \/ Derivation(t)
           \/ t = Boot /\ Boots
    PROVE  \A u \in Tasks \ {t} : Still(u)
<1>1. CASE t \in Requests /\ Handler(t)
  <2>1. \A p : Set(t, p) => \A u \in Tasks \ {t} : Still(u)
    BY DEF Set, Still, Tidy
  <2>2. Finish(t) => \A u \in Tasks \ {t} : Still(u)
    BY <2>1 DEF Finish
  <2>3. Commit(t) => \A u \in Tasks \ {t} : Still(u)
    <3>1. Commit(t) => task[t].op \in {"upload", "replace", "append"}
      BY DEF Commit, Tidy, GoodTask
    <3> QED BY <2>1, <2>2, <3>1 DEF Commit
  <2>4. Insert(t) \/ Swap(t) \/ PickSource(t) \/ Edit(t) => \A u \in Tasks \ {t} : Still(u)
    BY <2>1, <2>2 DEF Insert, Swap, PickSource, Edit
  <2>5. Upload(t) \/ Replace(t) \/ AppendPart(t) \/ Rederive(t) \/ Create(t)
          => \A u \in Tasks \ {t} : Still(u)
    BY <2>1 DEF Upload, Replace, AppendPart, Rederive, Create
  <2>6. SetEdit(t) \/ Drop(t) \/ Params(t) \/ HangUp(t) => \A u \in Tasks \ {t} : Still(u)
    BY <2>1, <2>2 DEF SetEdit, Drop, Params, HangUp
  <2> QED BY <1>1, <2>3, <2>4, <2>5, <2>6 DEF Handler
<1>2. CASE Derivation(t)
  <2>1. CASE Open(t)
    BY <2>1 DEF Open, Still, Tidy, GoodTask, Task
  <2>2. CASE Rename(t)
    BY <2>2 DEF Rename, Finish, Set, Still, Tidy, GoodTask, Task
  <2> QED BY <1>2, <2>1, <2>2 DEF Derivation, Derive, Check, Write, Record, Fail,
             Finish, Set, Still, Tidy
<1>3. CASE t = Boot /\ Boots
  BY <1>3 DEF Boots, BootScan, BootPick, Size, Set, Still, Tidy
<1> QED BY <1>1, <1>2, <1>3

LEMMA FilesStay ==
    ASSUME Tidy, [Next]_vars
    PROVE  /\ \A b \in Blobs : disk[b] # "none" => disk'[b] # "none"
           /\ \A b \in Originals : disk[b] # "part" => disk'[b] # "part"
<1> USE Constants
<1>0. disk \in [Blobs -> File] /\ tmp \in [Blobs -> File]
  BY DEF Tidy, TypeOK
<1>1. ASSUME NEW r \in Requests, Commit(r)
      PROVE  disk' = [disk EXCEPT ![Original(task[r].src)] =
                        IF @ = "none" THEN "whole" ELSE @]
  BY <1>1 DEF Commit
<1>2. ASSUME NEW t \in Tasks, Write(t)
      PROVE  /\ Current(t) \in Derived
             /\ \/ UNCHANGED disk
                \/ \E f \in {disk[Current(t)], "whole"} :
                      disk' = [disk EXCEPT ![Current(t)] = f]
  BY <1>2, CurrentMinted DEF Write, Written, Files, Minting, Deriving
<1>3. ASSUME NEW t \in Tasks, Rename(t)
      PROVE  /\ Current(t) \in Derived
             /\ \/ UNCHANGED disk
                \/ tmp[Current(t)] # "none" /\ disk' = [disk EXCEPT ![Current(t)] = tmp[Current(t)]]
  BY <1>3, CurrentMinted DEF Rename, Files, Minting, Deriving
<1>4. \/ UNCHANGED disk
      \/ \E r \in Requests : Commit(r)
      \/ \E t \in Tasks : Write(t) \/ Rename(t)
  BY DEF Next, Handler, Derivation, Upload, Replace, AppendPart, Create, Insert, Swap,
     Rederive, Edit, SetEdit, PickSource, Drop, Params, HangUp, Derive, Check, Open,
     Record, Fail, BootScan, BootPick, Size, DeleteItem, DeleteVariant, Restart, Files, vars
<1>5. ASSUME NEW r \in Requests, Commit(r)
      PROVE  /\ \A b \in Blobs : disk[b] # "none" => disk'[b] # "none"
             /\ \A b \in Originals : disk[b] # "part" => disk'[b] # "part"
  BY <1>0, <1>1, <1>5
<1>6. ASSUME NEW t \in Tasks, Write(t) \/ Rename(t)
      PROVE  /\ \A b \in Blobs : disk[b] # "none" => disk'[b] # "none"
             /\ \A b \in Originals : disk[b] # "part" => disk'[b] # "part"
  BY <1>0, <1>2, <1>3, <1>6
<1> QED BY <1>4, <1>5, <1>6

\* What the actor of a step holds after it.
LEMMA ActorHolds ==
    ASSUME Tidy, NEW t \in Tasks, Holds(t),
           \/ t \in Requests /\ Handler(t)
           \/ Derivation(t)
           \/ t = Boot /\ Boots
    PROVE  Holds(t)'
<1> USE Constants
<1>0. task[t] \in Task /\ disk \in [Blobs -> File] /\ tmp \in [Blobs -> File] /\ Idle \in Task
  BY DEF Tidy, TypeOK, GoodTask
<1> DEFINE q == task[t]
<1> SUFFICES ASSUME task'[t].pc \in {"create", "insert", "swap", "append", "record"}
             PROVE  Holds(t)'
  BY DEF Holds
<1>f. ~Finish(t)
  BY FinishGood
<1>p. \A pc \in Pcs : Set(t, [q EXCEPT !.pc = pc]) => task'[t].pc = pc /\ task'[t].src = q.src
  BY <1>0 DEF Set, Tidy, Task
<1>t. \A p : Set(t, p) => task'[t] = p
  BY DEF Set, Tidy
<1>1. CASE t \in Requests /\ Commit(t)
  <2>1. q.src \in Uploads /\ Original(q.src) \in Blobs
    BY <1>1 DEF Commit, Tidy, GoodTask, HasSrc
  <2>2. task'[t].src = q.src /\ task'[t].pc # "record"
    <3>1. q.op \in {"upload", "replace", "append"}
      BY <1>1 DEF Commit, Tidy, GoodTask
    <3> QED BY <1>1, <1>f, <1>p, <3>1 DEF Commit, Pcs
  <2>3. disk'[Original(q.src)] # "none"
    BY <1>0, <1>1, <2>1 DEF Commit
  <2> QED BY <2>2, <2>3 DEF Holds
<1>2. CASE t \in Requests /\ Create(t)
  <2>1. task'[t].src = q.src /\ task'[t].pc # "record" /\ q.pc = "create"
    BY <1>0, <1>2 DEF Create, Set, Tidy, Task
  <2> QED BY <1>2, <2>1 DEF Holds, Create, Files
<1>3. CASE Check(t)
  <2>1. /\ task'[t].pc = "record" /\ disk[Current(t)] # "none" /\ disk' = disk
        /\ task'[t].src = q.src /\ task'[t].edit = q.edit /\ task'[t].rung = q.rung
    BY <1>0, <1>3 DEF Check, Set, Tidy, Task, Files
  <2> QED BY <2>1 DEF Holds, Current
<1>4. CASE Rename(t)
  <2>1. Current(t) \in Blobs
    BY <1>4, CurrentMinted DEF Rename, Minting, Deriving
  <2>2. /\ tmp[Current(t)] # "none"
        /\ disk' = [disk EXCEPT ![Current(t)] = tmp[Current(t)]]
        /\ task'[t] = [q EXCEPT !.pc = "record", !.file = "none", !.fresh = FALSE]
    BY <1>4, <1>f DEF Rename
  <2>3. /\ task'[t].pc = "record"
        /\ task'[t].src = q.src /\ task'[t].edit = q.edit /\ task'[t].rung = q.rung
    BY <1>0, <2>2 DEF Task
  <2> QED BY <1>0, <2>1, <2>2, <2>3 DEF Holds, Current
<1>5. CASE t \in Requests /\ ~Commit(t) /\ ~Create(t) /\ Handler(t)
  <2>1. task'[t].pc \notin {"create", "insert", "swap", "append", "record"}
    <3>1. ~Upload(t) /\ ~Replace(t) /\ ~AppendPart(t) /\ ~Rederive(t) /\ ~Edit(t)
      <4>1. ~Upload(t) /\ ~Replace(t)
        BY <1>0, <1>t, ZenonT(40) DEF Upload, Replace, Task
      <4>2. ~AppendPart(t)
        BY <1>0, <1>t, ZenonT(40) DEF AppendPart, Task
      <4>3. ~Rederive(t)
        BY <1>0, <1>t DEF Rederive, Task
      <4>4. ~Edit(t)
        <5>1. \A i, e : [Idle EXCEPT !.pc = "set", !.op = "edit", !.item = i, !.edit = e].pc = "set"
          BY DEF Idle
        <5> QED BY <1>t, <5>1 DEF Edit
      <4> QED BY <4>1, <4>2, <4>3, <4>4
    <3>2. ~Insert(t) /\ ~Swap(t) /\ ~SetEdit(t) /\ ~Drop(t) /\ ~HangUp(t)
      BY <1>f, <1>p DEF Insert, Swap, SetEdit, Drop, HangUp, Pcs
    <3>3. ~PickSource(t) /\ ~Params(t)
      BY <1>0, <1>f, <1>t, ZenonT(40) DEF PickSource, Params, Task
    <3> QED BY <1>5, <3>1, <3>2, <3>3 DEF Handler
  <2> QED BY <2>1
<1>6. CASE ~Check(t) /\ ~Rename(t) /\ Derivation(t)
  <2>1. task'[t].pc \notin {"create", "insert", "swap", "append", "record"}
    <3>1. ~Write(t) /\ ~Fail(t)
      BY <1>f, <1>p DEF Write, Fail, Pcs
    <3>2. ~Open(t)
      <4>1. Open(t) => task'[t] = [q EXCEPT !.pc = "write", !.file = "tmp", !.fresh = TRUE]
        BY DEF Open
      <4>2. [q EXCEPT !.pc = "write", !.file = "tmp", !.fresh = TRUE].pc = "write"
        BY <1>0 DEF Task
      <4> QED BY <4>1, <4>2
    <3>3. ~Derive(t) /\ ~Record(t)
      BY <1>0, <1>f, <1>t, ZenonT(40) DEF Derive, Record, Task
    <3> QED BY <1>6, <3>1, <3>2, <3>3 DEF Derivation
  <2> QED BY <2>1
<1>7. CASE t = Boot /\ Boots
  <2>1. task'[t].pc \notin {"create", "insert", "swap", "append", "record"}
    <3>1. ~Size
      BY <1>7, <1>p DEF Size, Pcs
    <3>2. ~BootScan
      BY <1>7, <1>t DEF BootScan, Idle
    <3>3. ~BootPick
      <4>1. \A x : [Idle EXCEPT !.op = "backfill", !.todo = x].pc = "idle"
        BY DEF Idle
      <4> SUFFICES ASSUME BootPick PROVE FALSE
        OBVIOUS
      <4>2. \E m \in q.todo :
              \/ Set(t, [Idle EXCEPT !.op = "backfill", !.todo = q.todo \ {m}])
              \/ \E v \in variants[m.item] :
                   Set(t, [[Idle EXCEPT !.op = "backfill", !.todo = q.todo \ {m}]
                             EXCEPT !.pc = "derive", !.item = m.item,
                                    !.edit = m.edit, !.src = v.blob.src])
        BY <1>7, Zenon DEF BootPick
      <4>3. PICK m \in q.todo :
              \/ Set(t, [Idle EXCEPT !.op = "backfill", !.todo = q.todo \ {m}])
              \/ \E v \in variants[m.item] :
                   Set(t, [[Idle EXCEPT !.op = "backfill", !.todo = q.todo \ {m}]
                             EXCEPT !.pc = "derive", !.item = m.item,
                                    !.edit = m.edit, !.src = v.blob.src])
        BY <4>2, Zenon
      <4>4. ~Set(t, [Idle EXCEPT !.op = "backfill", !.todo = q.todo \ {m}])
        BY <1>t, <4>1
      <4>5. ASSUME NEW v \in variants[m.item],
                   Set(t, [[Idle EXCEPT !.op = "backfill", !.todo = q.todo \ {m}]
                             EXCEPT !.pc = "derive", !.item = m.item,
                                    !.edit = m.edit, !.src = v.blob.src])
            PROVE  FALSE
        <5> DEFINE p == [[Idle EXCEPT !.op = "backfill", !.todo = q.todo \ {m}]
                             EXCEPT !.pc = "derive", !.item = m.item,
                                    !.edit = m.edit, !.src = v.blob.src]
        <5>1. p.pc = "derive"
          BY DEF Idle
        <5>2. Set(t, p)
          BY <4>5
        <5> HIDE DEF p
        <5> QED BY <1>t, <5>1, <5>2
      <4> QED BY <4>3, <4>4, <4>5, Zenon
    <3> QED BY <1>7, <3>1, <3>2, <3>3 DEF Boots
  <2> QED BY <2>1
<1> QED BY <1>1, <1>2, <1>3, <1>4, <1>5, <1>6, <1>7

\* A step adds no row but that of a blob its actor holds.
LEMMA RowsHeld ==
    ASSUME Tidy, Bytes, [Next]_vars, NEW i \in Items, NEW b \in BlobsOf(i)'
    PROVE  b \in BlobsOf(i) \/ (b \in Blobs /\ disk[b] # "none")
<1> USE Constants
<1>0. variants \in [Items -> SUBSET Variant] /\ \A v \in variants[i] : v.blob \in BlobsOf(i)
  BY DEF Tidy, TypeOK, BlobsOf
<1>w. PICK w \in variants'[i] : b = w.blob
  BY DEF BlobsOf
<1> DEFINE Held == b \in BlobsOf(i) \/ (b \in Blobs /\ disk[b] # "none")
<1>1. CASE variants' = variants
  BY <1>0, <1>1, <1>w
<1>2. ASSUME NEW r \in Requests, Insert(r) \/ Swap(r) PROVE Held
  <2> DEFINE q == task[r]
  <2>1. q.src \in Uploads /\ disk[Original(q.src)] # "none"
    BY <1>2 DEF Insert, Swap, Bytes, Holds, Tidy, GoodTask, HasSrc
  <2>2. CASE \E rows \in {variants[q.item], {}} : AddOriginal(q.item, q.src, rows)
    <3>1. \E rows \in {variants[i], {}} :
            variants'[i] \in {variants[i], rows \cup {OriginalRow(q.src, serial[q.item])}}
      BY <1>0, <2>2 DEF AddOriginal
    <3>2. OriginalRow(q.src, serial[q.item]).blob = Original(q.src)
      BY DEF OriginalRow
    <3>3. w \in variants[i] \/ w = OriginalRow(q.src, serial[q.item])
      BY <1>w, <3>1
    <3> QED BY <1>0, <1>w, <2>1, <3>2, <3>3
  <2> QED BY <1>1, <1>2, <2>2 DEF Insert, Swap
<1>3. ASSUME NEW t \in Tasks, Record(t) PROVE Held
  <2>1. Current(t) \in Blobs /\ disk[Current(t)] # "none"
    BY <1>3, CurrentMinted DEF Record, Bytes, Holds, Minting, Deriving
  <2>2. variants'[i] \subseteq variants[i] \cup {RungRow(Current(t))}
    BY <1>0, <1>3 DEF Record
  <2>3. RungRow(Current(t)).blob = Current(t)
    BY DEF RungRow
  <2> QED BY <1>0, <1>w, <2>1, <2>2, <2>3
<1>4. CASE Size
  <2>1. \A v \in Variant : [v EXCEPT !.sized = TRUE].blob = v.blob
    BY DEF Variant
  <2> DEFINE q == task[Boot]
             Stamp(v) == IF v.blob = Original(q.src) THEN [v EXCEPT !.sized = TRUE] ELSE v
  <2>2. variants'[i] \in {variants[i], {Stamp(v) : v \in variants[i]}}
    BY <1>0, <1>4 DEF Size
  <2>3. \E v \in variants[i] : w \in {v, Stamp(v)}
    BY <1>w, <2>2
  <2> QED BY <1>0, <1>w, <2>1, <2>3
<1>5. CASE DeleteItem \/ DeleteVariant \/ \E r \in Requests : Drop(r)
  <2>1. variants'[i] \subseteq variants[i]
    BY <1>0, <1>5 DEF DeleteItem, DeleteVariant, Drop
  <2> QED BY <1>0, <1>w, <2>1
<1>6. \/ variants' = variants
      \/ \E r \in Requests : Insert(r) \/ Swap(r) \/ Drop(r)
      \/ \E t \in Tasks : Record(t)
      \/ Size \/ DeleteItem \/ DeleteVariant
  BY DEF Next, Handler, Derivation, Upload, Replace, AppendPart, Create, Commit,
     Rederive, Edit, SetEdit, PickSource, Params, HangUp, Derive, Check, Open, Write, Rename,
     Fail, BootScan, BootPick, Restart, Tables, vars
<1>7. CASE \E r \in Requests : Insert(r) \/ Swap(r)
  BY <1>2, <1>7
<1>8. CASE \E t \in Tasks : Record(t)
  BY <1>3, <1>8
<1>9. CASE \E r \in Requests : Drop(r)
  BY <1>5, <1>9
<1> QED BY <1>1, <1>4, <1>5, <1>6, <1>7, <1>8, <1>9

LEMMA InitBytes == Init => Bytes
<1> SUFFICES ASSUME Init PROVE Bytes
  OBVIOUS
<1>1. Tidy
  BY InitTidy
<1>2. \A b \in Blobs : disk[b] # "part"
  BY DEF Init
<1>3. \A i \in Items : \A b \in BlobsOf(i) : b \in Blobs /\ disk[b] # "none"
  BY <1>1, RowsTyped DEF Init
<1>4. \A t \in Tasks : task[t].pc \in {"idle", "scan"}
  BY DEF Init, Idle, BootTask
<1> QED BY <1>2, <1>3, <1>4, Constants DEF Bytes, RowsHaveBytes, Holds

LEMMA StepBytes == Tidy /\ Bytes /\ [Next]_vars => Bytes'
<1> SUFFICES ASSUME Tidy, Bytes, [Next]_vars PROVE Bytes'
  OBVIOUS
<1>1. RowsHaveBytes'
  <2>1. ASSUME NEW i \in Items, NEW b \in BlobsOf(i)' PROVE disk'[b] # "none"
    <3>1. b \in Blobs /\ disk[b] # "none"
      BY <2>1, RowsHeld, RowsTyped DEF Bytes, RowsHaveBytes
    <3> QED BY <3>1, FilesStay
  <2>2. \A b \in Originals : disk'[b] # "part"
    BY FilesStay DEF Bytes, RowsHaveBytes
  <2> QED BY <2>1, <2>2 DEF RowsHaveBytes
<1>2. ASSUME NEW t \in Tasks PROVE Holds(t)'
  <2>0. Holds(t)
    BY DEF Bytes
  <2>1. CASE Still(t)
    <3>1. Current(t)' = Current(t)
      BY <2>1 DEF Current, Still
    <3>2. task[t].pc \in {"create", "insert", "swap", "append"} =>
            Original(task[t].src) \in Blobs
      BY Constants DEF Tidy, GoodTask, HasSrc
    <3>3. task[t].pc = "record" => Current(t) \in Blobs
      BY CurrentMinted DEF Minting, Deriving
    <3> QED BY <2>0, <2>1, <3>1, <3>2, <3>3, FilesStay DEF Holds, Still
  <2>2. CASE Restart
    <3>1. task'[t].pc \in {"idle", "scan"}
      BY <2>2 DEF Restart, Idle, BootTask
    <3> QED BY <3>1 DEF Holds
  <2>3. CASE DeleteItem \/ DeleteVariant \/ UNCHANGED vars
    BY <2>1, <2>3 DEF DeleteItem, DeleteVariant, vars, Still
  <2>4. ASSUME NEW u \in Tasks,
               \/ u \in Requests /\ Handler(u)
               \/ Derivation(u)
               \/ u = Boot /\ Boots
        PROVE  Holds(t)'
    BY <2>0, <2>1, <2>4, Bystanders, ActorHolds
  <2> QED BY <2>2, <2>3, <2>4, Constants DEF Next, Boots
<1> QED BY <1>1, <1>2 DEF Bytes

\* For any number of items, rungs and overlapping requests: every row has a
\* file, and no torn store, failure or restart ever touches an original's.
THEOREM RowsAlwaysHaveBytes == Spec => []RowsHaveBytes
<1>1. Bytes => RowsHaveBytes
  BY DEF Bytes
<1> QED BY <1>1, InitTidy, StepTidy, InitBytes, StepBytes, PTL DEF Spec

-----------------------------------------------------------------------------
(* Torn files.  Whoever is alone in storing its blob has truncated the     *)
(* temp file last, and finds it whole when it renames it.                  *)

Busy == {"open", "write", "rename"}

Alone(t) ==
    task[t].pc \in {"write", "rename"} /\ Current(t) \notin twins =>
      /\ task[t].file = "tmp" /\ task[t].fresh = TRUE
      /\ task[t].pc = "rename" => tmp[Current(t)] = "whole"
Paired(t, u) ==
    t # u /\ task[t].pc \in Busy /\ task[u].pc \in Busy /\ Current(t) = Current(u)
      => Current(t) \in twins

Untorn == /\ TornOnlyByTwins
          /\ \A t \in Tasks : Alone(t)
          /\ \A t, u \in Tasks : Paired(t, u)

\* A step that stores nothing in memory.
Aside == /\ \A t \in Tasks : task'[t] = task[t] \/ task'[t].pc \notin Busy
         /\ UNCHANGED <<tmp, twins>>
         /\ \A b \in Blobs : disk'[b] = "part" => disk[b] = "part"

LEMMA AsideUntorn == ASSUME Untorn, Aside PROVE Untorn'
<1>1. TornOnlyByTwins'
  BY DEF Untorn, Aside, TornOnlyByTwins
<1>2. ASSUME NEW t \in Tasks PROVE Alone(t)'
  <2>1. CASE task'[t] = task[t]
    <3>1. Current(t)' = Current(t)
      BY <2>1 DEF Current
    <3> QED BY <2>1, <3>1 DEF Untorn, Aside, Alone
  <2> QED BY <2>1 DEF Aside, Alone, Busy
<1>3. ASSUME NEW t \in Tasks, NEW u \in Tasks PROVE Paired(t, u)'
  <2>1. CASE task'[t] = task[t] /\ task'[u] = task[u]
    <3>1. Current(t)' = Current(t) /\ Current(u)' = Current(u)
      BY <2>1 DEF Current
    <3> QED BY <2>1, <3>1 DEF Untorn, Aside, Paired
  <2> QED BY <2>1 DEF Aside, Paired
<1> QED BY <1>1, <1>2, <1>3 DEF Untorn

\* Only the four steps of MediaStore::store are not such steps.
LEMMA OthersAside ==
    ASSUME Tidy, [Next]_vars,
           \A t \in Tasks : ~Check(t) /\ ~Open(t) /\ ~Write(t) /\ ~Rename(t)
    PROVE  Aside
<1> USE Constants
<1>0. Idle \in Task /\ \A t \in Tasks : task[t] \in Task
  BY DEF Tidy, TypeOK, GoodTask
<1>1. UNCHANGED <<tmp, twins>>
  BY DEF Next, Handler, Derivation, Upload, Replace, AppendPart, Commit, Create, Insert, Swap,
     Rederive, Edit, SetEdit, PickSource, Drop, Params, HangUp, Derive, Record, Fail,
     BootScan, BootPick, Size, DeleteItem, DeleteVariant, Restart, Files, History, vars
<1>2. \/ UNCHANGED disk
      \/ \E r \in Requests : disk' = [disk EXCEPT ![Original(task[r].src)] =
                                        IF @ = "none" THEN "whole" ELSE @]
  BY DEF Next, Handler, Derivation, Upload, Replace, AppendPart, Commit, Create, Insert, Swap,
     Rederive, Edit, SetEdit, PickSource, Drop, Params, HangUp, Derive, Record, Fail,
     BootScan, BootPick, Size, DeleteItem, DeleteVariant, Restart, Files, vars
<1>3. \A b \in Blobs : disk'[b] = "part" => disk[b] = "part"
  BY <1>2 DEF Tidy, TypeOK
<1>4. ASSUME NEW t \in Tasks PROVE task'[t] = task[t] \/ task'[t].pc \notin Busy
  <2>1. \A u \in Tasks : Finish(u) => task'[t] = task[t] \/ task'[t].pc \notin Busy
    BY FinishGood DEF Busy
  <2>2. \A u \in Tasks : \A p : Set(u, p) => task'[t] \in {task[t], p}
    BY DEF Set, Tidy
  <2>q. \A u \in Tasks : \A p : Set(u, p) /\ p.pc \notin Busy
                              => task'[t] = task[t] \/ task'[t].pc \notin Busy
    BY <2>2
  <2>p. \A u \in Tasks : \A pc \in Pcs \ Busy :
          Set(u, [task[u] EXCEPT !.pc = pc]) => task'[t] = task[t] \/ task'[t].pc \notin Busy
    BY <1>0, <2>2 DEF Task
  <2>3. ASSUME NEW r \in Requests, Upload(r) \/ Replace(r) \/ Rederive(r)
        PROVE  task'[t] = task[t] \/ task'[t].pc \notin Busy
    <3>1. \A i, u :
            /\ [Idle EXCEPT !.pc = "commit", !.op = "upload", !.src = u].pc = "commit"
            /\ [Idle EXCEPT !.pc = "commit", !.op = "replace", !.src = u, !.item = i].pc = "commit"
            /\ [Idle EXCEPT !.pc = "source", !.op = "edit", !.item = i].pc = "source"
      BY DEF Idle
    <3>2. CASE Upload(r)
      BY <2>q, <3>1, <3>2 DEF Upload, Busy
    <3>3. CASE Replace(r)
      BY <2>q, <3>1, <3>3 DEF Replace, Busy
    <3>4. CASE Rederive(r)
      BY <2>q, <3>1, <3>4 DEF Rederive, Busy
    <3> QED BY <2>3, <3>2, <3>3, <3>4
  <2>4. ASSUME NEW r \in Requests, AppendPart(r)
        PROVE  task'[t] = task[t] \/ task'[t].pc \notin Busy
    <3>1. \A i, u, seen : [Idle EXCEPT !.pc = "commit", !.op = "append", !.src = u,
                                       !.item = i, !.seen = seen].pc = "commit"
      BY DEF Idle
    <3> QED BY <2>2, <2>4, <3>1 DEF AppendPart, Busy
  <2>5. ASSUME NEW r \in Requests, Edit(r)
        PROVE  task'[t] = task[t] \/ task'[t].pc \notin Busy
    <3>1. \A i, e : [Idle EXCEPT !.pc = "set", !.op = "edit", !.item = i, !.edit = e].pc = "set"
      BY DEF Idle
    <3> QED BY <2>2, <2>5, <3>1 DEF Edit, Busy
  <2>6. ASSUME NEW r \in Requests, Commit(r)
        PROVE  task'[t] = task[t] \/ task'[t].pc \notin Busy
    <3>1. task[r].op \in {"upload", "replace", "append"}
      BY <2>6 DEF Commit, Tidy, GoodTask
    <3> QED BY <2>1, <2>p, <2>6, <3>1 DEF Commit, Pcs, Busy
  <2>7. ASSUME NEW r \in Requests,
               Insert(r) \/ Swap(r) \/ SetEdit(r) \/ Drop(r) \/ HangUp(r)
        PROVE  task'[t] = task[t] \/ task'[t].pc \notin Busy
    BY <2>1, <2>p, <2>7 DEF Insert, Swap, SetEdit, Drop, HangUp, Pcs, Busy
  <2>8. ASSUME NEW r \in Requests, Create(r) \/ PickSource(r) \/ Params(r)
        PROVE  task'[t] = task[t] \/ task'[t].pc \notin Busy
    <3>1. \A x : /\ [task[r] EXCEPT !.pc = "insert", !.item = x].pc = "insert"
                 /\ [task[r] EXCEPT !.pc = "drop", !.src = x].pc = "drop"
                 /\ [task[r] EXCEPT !.pc = "derive", !.edit = x].pc = "derive"
      BY <1>0 DEF Task
    <3>2. CASE Create(r)
      BY <2>q, <3>1, <3>2 DEF Create, Busy
    <3>3. CASE PickSource(r)
      BY <2>1, <2>q, <3>1, <3>3 DEF PickSource, Busy
    <3>4. CASE Params(r)
      BY <2>q, <3>1, <3>4 DEF Params, Busy
    <3> QED BY <2>8, <3>2, <3>3, <3>4
  <2>9. ASSUME NEW u \in Tasks, Derivation(u)
        PROVE  task'[t] = task[t] \/ task'[t].pc \notin Busy
    <3>1. \A pc, x : [task[u] EXCEPT !.pc = pc, !.rung = x].pc = pc
      BY <1>0 DEF Task
    <3>2. CASE Derive(u)
      <4>1. Finish(u) \/ \E pc \in {"size", "check"} : Set(u, [task[u] EXCEPT !.pc = pc, !.rung = 1])
        BY <3>2 DEF Derive
      <4> QED BY <2>1, <2>q, <3>1, <4>1 DEF Busy
    <3>3. CASE Record(u)
      <4>1. \A x : [task[u] EXCEPT !.pc = "check", !.rung = @ + 1].pc = "check"
        BY <1>0 DEF Task
      <4> QED BY <2>1, <2>q, <3>3, <4>1 DEF Record, Busy
    <3>4. CASE Fail(u)
      BY <2>1, <3>4 DEF Fail
    <3> QED BY <2>9, <3>2, <3>3, <3>4 DEF Derivation
  <2>10. CASE Boots
    <3>1. CASE Size
      BY <2>p, <3>1 DEF Size, Pcs, Busy
    <3>2. CASE BootScan
      <4>1. \A x : [Idle EXCEPT !.op = "backfill", !.todo = x].pc = "idle"
        BY DEF Idle
      <4> QED BY <2>2, <3>2, <4>1 DEF BootScan, Busy
    <3>3. CASE BootPick
      <4>1. \A m, x, y, z :
              /\ [Idle EXCEPT !.op = "backfill", !.todo = x].pc = "idle"
              /\ [[Idle EXCEPT !.op = "backfill", !.todo = x] EXCEPT
                    !.pc = "derive", !.item = m, !.edit = y, !.src = z].pc = "derive"
        BY DEF Idle
      <4>2. PICK m, x, y, z :
              \/ Set(Boot, [Idle EXCEPT !.op = "backfill", !.todo = x])
              \/ Set(Boot, [[Idle EXCEPT !.op = "backfill", !.todo = x] EXCEPT
                    !.pc = "derive", !.item = m, !.edit = y, !.src = z])
        BY <3>3 DEF BootPick
      <4> QED BY <2>q, <4>1, <4>2 DEF Busy
    <3> QED BY <2>10, <3>1, <3>2, <3>3 DEF Boots
  <2>11. CASE Restart
    BY <2>11 DEF Restart, BootTask, Idle, Busy
  <2>12. CASE DeleteItem \/ DeleteVariant \/ UNCHANGED vars
    BY <2>12 DEF DeleteItem, DeleteVariant, vars
  <2>13. ASSUME NEW r \in Requests, Handler(r)
         PROVE  task'[t] = task[t] \/ task'[t].pc \notin Busy
    BY <2>3, <2>4, <2>5, <2>6, <2>7, <2>8, <2>13 DEF Handler
  <2> QED BY <2>9, <2>10, <2>11, <2>12, <2>13 DEF Next, Boots
<1> QED BY <1>1, <1>3, <1>4 DEF Aside

LEMMA InitUntorn == Init => Untorn
<1> SUFFICES ASSUME Init PROVE Untorn
  OBVIOUS
<1>1. TornOnlyByTwins
  BY DEF Init, TornOnlyByTwins
<1>2. \A t \in Tasks : task[t].pc \notin Busy
  BY DEF Init, Idle, BootTask, Busy
<1> QED BY <1>1, <1>2 DEF Untorn, Alone, Paired, Busy

\* The four steps of MediaStore::store.
LEMMA StoreUntorn ==
    ASSUME Tidy, Untorn, NEW t \in Tasks, Check(t) \/ Open(t) \/ Write(t) \/ Rename(t)
    PROVE  Untorn'
<1> DEFINE q == task[t]
           b == Current(t)
<1>0. /\ disk \in [Blobs -> File] /\ tmp \in [Blobs -> File]
      /\ q \in Task /\ task \in [Tasks -> Task]
  BY DEF Tidy, TypeOK, GoodTask
<1>b. b \in Blobs
  BY CurrentMinted DEF Check, Open, Write, Rename, Minting, Deriving
<1>t. TornOnlyByTwins /\ Alone(t)
  BY DEF Untorn
\* The others keep their place, their blob, and everything about it unless
\* it is the blob of this step.
<1>s. \A u \in Tasks \ {t} : Still(u)
  BY Bystanders DEF Derivation
<1>u. \A u \in Tasks \ {t} : Current(u)' = Current(u)
  BY <1>s DEF Still, Current
<1>v. \A u \in Tasks : task[u].pc \in Busy => Current(u) \in Blobs
  BY CurrentMinted DEF Busy, Minting, Deriving
<1>g. twins \subseteq twins'
  BY DEF Check, Open, Write, Rename, History
<1>c. CASE Check(t)
  <2>1. /\ task'[t].pc \in {"open", "record"} /\ task'[t].src = q.src
        /\ task'[t].edit = q.edit /\ task'[t].rung = q.rung
    BY <1>0, <1>c DEF Check, Set, Task
  <2>2. Current(t)' = b
    BY <2>1 DEF Current
  <2>3. UNCHANGED <<disk, tmp>> /\ \A u \in Tasks \ {t} : task'[u] = task[u]
    BY <1>0, <1>c DEF Check, Set, Files
  <2>4. TornOnlyByTwins'
    BY <1>t, <1>g, <2>3 DEF TornOnlyByTwins
  <2>5. ASSUME NEW u \in Tasks PROVE Alone(u)'
    BY <1>g, <1>u, <2>1, <2>3 DEF Untorn, Alone
  <2>6. ASSUME NEW u \in Tasks \ {t}, task'[t].pc \in Busy, task'[u].pc \in Busy,
               Current(u) = b
        PROVE  b \in twins'
    BY <1>0, <1>c, <2>1, <2>3, <2>6 DEF Check, Set, Busy, Storing
  <2>7. ASSUME NEW u \in Tasks, NEW v \in Tasks PROVE Paired(u, v)'
    BY <1>g, <1>u, <2>2, <2>3, <2>6 DEF Untorn, Paired
  <2> QED BY <2>4, <2>5, <2>7 DEF Untorn
<1>o. CASE Open(t)
  <2>1. task'[t] = [q EXCEPT !.pc = "write", !.file = "tmp", !.fresh = TRUE]
    BY <1>o DEF Open
  <2>2. /\ task'[t].pc = "write" /\ task'[t].file = "tmp" /\ task'[t].fresh = TRUE
        /\ task'[t].src = q.src /\ task'[t].edit = q.edit /\ task'[t].rung = q.rung
    BY <1>0, <2>1 DEF Task
  <2>3. Current(t)' = b /\ q.pc = "open"
    BY <1>o, <2>2 DEF Current, Open
  <2>4. disk' = disk /\ twins' = twins /\ tmp' = [tmp EXCEPT ![b] = "part"]
    BY <1>o DEF Open, History
  <2>5. TornOnlyByTwins'
    BY <1>t, <2>4 DEF TornOnlyByTwins
  <2>6. ASSUME NEW u \in Tasks PROVE Alone(u)'
    <3>1. CASE u = t
      BY <2>2, <3>1 DEF Alone
    <3>2. CASE u # t /\ Current(u) = b
      BY <1>s, <1>u, <2>3, <2>4, <3>2 DEF Untorn, Alone, Paired, Busy, Still
    <3>3. CASE u # t /\ Current(u) # b
      <4>1. task'[u] = task[u]
        BY <1>o, <3>3 DEF Open, SameFile
      <4>2. tmp'[Current(u)] = tmp[Current(u)]
        BY <1>0, <2>4, <3>3
      <4> QED BY <1>u, <2>4, <3>3, <4>1, <4>2 DEF Untorn, Alone
    <3> QED BY <3>1, <3>2, <3>3
  <2>7. ASSUME NEW u \in Tasks, NEW v \in Tasks PROVE Paired(u, v)'
    BY <1>s, <1>u, <2>2, <2>3, <2>4 DEF Untorn, Paired, Busy, Still
  <2> QED BY <2>5, <2>6, <2>7 DEF Untorn
<1>w. CASE Write(t)
  <2>1. /\ task'[t].pc = "rename" /\ task'[t].file = q.file /\ task'[t].fresh = q.fresh
        /\ task'[t].src = q.src /\ task'[t].edit = q.edit /\ task'[t].rung = q.rung
    BY <1>0, <1>w DEF Write, Set, Task
  <2>2. Current(t)' = b /\ q.pc = "write"
    BY <1>w, <2>1 DEF Current, Write
  <2>3. twins' = twins /\ \A u \in Tasks \ {t} : task'[u] = task[u]
    BY <1>0, <1>w DEF Write, Set, History
  <2>4. CASE b \notin twins
    <3>1. q.file = "tmp" /\ q.fresh = TRUE
      BY <1>t, <2>2, <2>4 DEF Alone
    <3>2. disk' = disk /\ tmp' = [tmp EXCEPT ![b] = "whole"]
      BY <1>w, <3>1 DEF Write, Written
    <3>3. TornOnlyByTwins'
      BY <1>t, <2>3, <3>2 DEF TornOnlyByTwins
    <3>4. ASSUME NEW u \in Tasks PROVE Alone(u)'
      <4>1. CASE u = t
        BY <1>0, <1>b, <2>1, <2>2, <3>1, <3>2, <4>1 DEF Alone
      <4>2. CASE u # t
        <5>1. task'[u].pc = "rename" => tmp'[Current(u)] = tmp[Current(u)] \/ Current(u) \in twins
          BY <1>0, <2>2, <2>3, <2>4, <3>2, <4>2 DEF Untorn, Paired, Busy
        <5> QED BY <1>u, <2>3, <4>2, <5>1 DEF Untorn, Alone
      <4> QED BY <4>1, <4>2
    <3>5. ASSUME NEW u \in Tasks, NEW v \in Tasks PROVE Paired(u, v)'
      BY <1>u, <2>1, <2>2, <2>3 DEF Untorn, Paired, Busy
    <3> QED BY <3>3, <3>4, <3>5 DEF Untorn
  <2>5. CASE b \in twins
    <3>1. \A c \in Blobs \ {b} : disk'[c] = disk[c]
      BY <1>0, <1>w DEF Write, Files
    <3>2. \A c \in Blobs \ {b} : tmp'[c] = tmp[c]
      BY <1>0, <1>w DEF Write, Files
    <3>3. TornOnlyByTwins'
      BY <1>t, <2>3, <2>5, <3>1 DEF TornOnlyByTwins
    <3>4. ASSUME NEW u \in Tasks PROVE Alone(u)'
      BY <1>u, <1>v, <2>2, <2>3, <2>5, <3>2 DEF Untorn, Alone, Busy
    <3>5. ASSUME NEW u \in Tasks, NEW v \in Tasks PROVE Paired(u, v)'
      BY <1>u, <2>1, <2>2, <2>3 DEF Untorn, Paired, Busy
    <3> QED BY <3>3, <3>4, <3>5 DEF Untorn
  <2> QED BY <2>4, <2>5
<1>r. CASE Rename(t)
  <2>1. task'[t].pc \notin Busy
    <3>1. [q EXCEPT !.pc = "record", !.file = "none", !.fresh = FALSE].pc = "record"
      BY <1>0 DEF Task
    <3> QED BY <1>r, <3>1, FinishGood DEF Rename, Busy
  <2>2. twins' = twins /\ q.pc = "rename"
    BY <1>r DEF Rename, History
  <2>3. \A c \in Blobs \ {b} : disk'[c] = disk[c]
    BY <1>0, <1>r DEF Rename, Files
  <2>4. \A c \in Blobs \ {b} : tmp'[c] = tmp[c]
    BY <1>0, <1>r DEF Rename, Files
  <2>5. disk'[b] = "part" => b \in twins
    BY <1>0, <1>b, <1>r, <1>t, <2>2 DEF Rename, Files, Alone, TornOnlyByTwins
  <2>6. TornOnlyByTwins'
    BY <1>t, <2>2, <2>3, <2>5 DEF TornOnlyByTwins
  <2>7. ASSUME NEW u \in Tasks PROVE Alone(u)'
    <3>1. CASE u = t
      BY <2>1, <3>1 DEF Alone, Busy
    <3>2. CASE u # t /\ Current(u) = b
      BY <1>s, <1>u, <2>2, <3>2 DEF Untorn, Alone, Paired, Busy, Still
    <3>3. CASE u # t /\ Current(u) # b
      <4>1. task'[u] = task[u]
        BY <1>r, <3>3, FinishGood DEF Rename, SameFile
      <4> QED BY <1>u, <1>v, <2>2, <2>4, <3>3, <4>1 DEF Untorn, Alone, Busy
    <3> QED BY <3>1, <3>2, <3>3
  <2>8. ASSUME NEW u \in Tasks, NEW v \in Tasks PROVE Paired(u, v)'
    BY <1>s, <1>u, <2>1, <2>2 DEF Untorn, Paired, Still
  <2> QED BY <2>6, <2>7, <2>8 DEF Untorn
<1> QED BY <1>c, <1>o, <1>w, <1>r

LEMMA StepUntorn == Tidy /\ Untorn /\ [Next]_vars => Untorn'
<1> SUFFICES ASSUME Tidy, Untorn, [Next]_vars PROVE Untorn'
  OBVIOUS
<1>1. CASE \E t \in Tasks : Check(t) \/ Open(t) \/ Write(t) \/ Rename(t)
  BY <1>1, StoreUntorn
<1>2. CASE \A t \in Tasks : ~Check(t) /\ ~Open(t) /\ ~Write(t) /\ ~Rename(t)
  BY <1>2, OthersAside, AsideUntorn
<1> QED BY <1>1, <1>2

\* For any number of tasks: a half-written file is published under a blob's
\* name only after two stores of that blob overlapped.
THEOREM OnlyTwinsTear == Spec => []TornOnlyByTwins
<1>1. Untorn => TornOnlyByTwins
  BY DEF Untorn
<1> QED BY <1>1, InitTidy, StepTidy, InitUntorn, StepUntorn, PTL DEF Spec

-----------------------------------------------------------------------------
(* One request at a time.  While past holds nothing but requests, one task *)
(* works and the others rest; every item but the one it works on, and the  *)
(* ones the backfill has still to do, is complete, and the one it works on *)
(* carries as many rungs as the task has recorded.                         *)

Resting(t) == task[t].pc = "idle" /\ task[t].todo = {}

Sourced(i, u) == \E v \in variants[i] : IsSource(i, v) /\ v.blob = Original(u)
Minted(i, u, e, n) == BlobsOf(i) \ Originals = {Rung(u, e, k) : k \in 1 .. n}
Raw(i) == \E v \in variants[i] : variants[i] = {v} /\ v.blob \in Originals

\* The task's own item.
Own(t) == LET q == task[t] IN
    /\ q.pc \in HasItem \ {"swap"} => Live(q.item)
    /\ q.pc = "commit" => q.op # "append"
    /\ q.pc # "append"
    /\ q.pc = "insert" => variants[q.item] = {}
    /\ q.pc \in {"set", "source"} => \E u \in Uploads : Sourced(q.item, u)
    /\ q.pc \in {"drop", "params"} \cup Deriving => Sourced(q.item, q.src)
    /\ q.pc \in {"params", "derive", "size"} => BlobsOf(q.item) \subseteq Originals
    /\ q.pc \in Deriving => q.edit = item[q.item]
    /\ q.pc \in Minting => Minted(q.item, q.src, q.edit, q.rung - 1)
    /\ q.pc = "size" => q.rung = 1
    /\ q.pc = "write" => q.file = "tmp"
    /\ q.pc \in {"write", "rename"} => tmp[Current(t)] # "none"

\* The items it has still to do, and all the others.
Queue(t) == LET q == task[t] IN
    /\ t # Boot => q.todo = {}
    /\ \A m \in q.todo : /\ Live(m.item) /\ Raw(m.item) /\ m.edit = item[m.item]
                         /\ q.pc \in HasItem => q.item # m.item
    /\ q.pc = "scan" => \A j \in Items : Live(j) => Raw(j) /\ \A v \in variants[j] : ~v.sized
    /\ \A j \in Items : \/ Complete(j)
                        \/ q.pc = "scan"
                        \/ \E m \in q.todo : m.item = j
                        \/ q.pc \in HasItem /\ q.item = j

Sole(t) == Own(t) /\ Queue(t) /\ \A u \in Tasks \ {t} : Resting(u)

Unborn == \A i \in Items : item[i] = NoItem => variants[i] = {}

Single == Unborn /\ (past \subseteq {"request"} => \E t \in Tasks : Sole(t))

\* An item that no statement touches stays as it is.
Same(j) == item'[j] = item[j] /\ variants'[j] = variants[j]

LEMMA SameKeeps ==
    ASSUME NEW j, Same(j)
    PROVE  /\ Live(j)' = Live(j) /\ Complete(j)' = Complete(j) /\ Raw(j)' = Raw(j)
           /\ BlobsOf(j)' = BlobsOf(j)
           /\ \A u : Sourced(j, u)' = Sourced(j, u)
           /\ \A u, e, n : Minted(j, u, e, n)' = Minted(j, u, e, n)
<1>1. Live(j)' = Live(j) /\ BlobsOf(j)' = BlobsOf(j) /\ Raw(j)' = Raw(j)
  BY DEF Same, Live, BlobsOf, Raw
<1>2. \A v : IsSource(j, v)' = IsSource(j, v)
  BY DEF Same, IsSource
<1>3. \A u : Sourced(j, u)' = Sourced(j, u)
  BY <1>2 DEF Same, Sourced
<1>4. \A u, e, n : Minted(j, u, e, n)' = Minted(j, u, e, n)
  BY <1>1 DEF Minted
<1>5. Complete(j)' = Complete(j)
  BY <1>1, <1>2 DEF Same, Complete
<1> QED BY <1>1, <1>3, <1>4, <1>5

\* The task goes on with its item, or ends with the item complete.
LEMMA QueueKeeps ==
    ASSUME NEW t \in Tasks, Queue(t), task[t].pc \in HasItem,
           NEW i, i = task[t].item,
           task'[t].todo = task[t].todo,
           \/ task'[t].pc \in HasItem /\ task'[t].item = i
           \/ task'[t].pc = "idle" /\ Complete(i)',
           \A j \in Items \ {i} : Same(j),
           task[t].todo \subseteq [item : Items, edit : Edits]
    PROVE  Queue(t)'
<1>1. \A j \in Items \ {i} : /\ item'[j] = item[j]
                             /\ Live(j)' = Live(j) /\ Complete(j)' = Complete(j) /\ Raw(j)' = Raw(j)
  BY SameKeeps DEF Same
<1>2. "scan" \notin HasItem /\ "idle" \notin HasItem
  BY DEF HasItem, Deriving
<1>3. task'[t].pc # "scan" /\ (task'[t].pc \in HasItem => task'[t].item = i)
  BY <1>2
<1>4. \A m \in task[t].todo : m.item \in Items \ {i}
  BY DEF Queue
<1>5. t # Boot => task'[t].todo = {}
  BY DEF Queue
<1>6. ASSUME NEW m \in task'[t].todo
      PROVE  /\ Live(m.item)' /\ Raw(m.item)' /\ m.edit = item'[m.item]
             /\ task'[t].pc \in HasItem => task'[t].item # m.item
  <2>1. m \in task[t].todo
    OBVIOUS
  <2>2. Live(m.item) /\ Raw(m.item) /\ m.edit = item[m.item]
    BY <2>1 DEF Queue
  <2>3. m.item \in Items /\ m.item # i
    BY <1>4, <2>1
  <2>4. Live(m.item)' /\ Raw(m.item)' /\ item'[m.item] = item[m.item]
    BY <1>1, <2>2, <2>3
  <2>5. task'[t].pc \in HasItem => task'[t].item # m.item
    BY <1>3, <2>3
  <2> QED BY <2>2, <2>4, <2>5
<1>7. ASSUME NEW j \in Items
      PROVE  \/ Complete(j)'
             \/ \E m \in task'[t].todo : m.item = j
             \/ task'[t].pc \in HasItem /\ task'[t].item = j
  <2>1. CASE j = i
    BY <1>3, <2>1
  <2>2. CASE j # i
    BY <1>1, <1>2, <2>2 DEF Queue
  <2> QED BY <2>1, <2>2
<1> QED BY <1>3, <1>5, <1>6, <1>7 DEF Queue

\* The only task that can take a step but an arrival.
LEMMA StepsAlone ==
    ASSUME Tidy, NEW t \in Tasks, NEW a \in Tasks, a # t, Sole(t),
           (a \in Requests /\ Handler(a)) \/ Derivation(a) \/ (a = Boot /\ Boots),
           past' \subseteq {"request"}
    PROVE  a \in Requests /\ (Upload(a) \/ Replace(a) \/ Rederive(a) \/ Edit(a)) /\ Resting(t)
<1>1. task[a].pc = "idle" /\ task[a].todo = {}
  BY DEF Sole, Resting
<1>2. ~Derivation(a) /\ ~(a = Boot /\ Boots)
  BY <1>1 DEF Derivation, Derive, Check, Open, Write, Rename, Record, Fail, Boots, BootScan,
              BootPick, Size
<1>3. Handler(a) => Upload(a) \/ Replace(a) \/ AppendPart(a) \/ Rederive(a) \/ Edit(a)
  BY <1>1 DEF Handler, Commit, Create, Insert, Swap, SetEdit, PickSource, Drop, Params, HangUp
<1>4. ~AppendPart(a)
  <2>1. AppendPart(a) => "other" \in past'
    BY DEF AppendPart, Arrive
  <2>2. "other" # "request"
    OBVIOUS
  <2> QED BY <2>1, <2>2
<1>5. Upload(a) \/ Replace(a) \/ Rederive(a) \/ Edit(a) => Resting(t)
  <2>1. Upload(a) \/ Replace(a) \/ Rederive(a) \/ Edit(a) => Arrive(a, "request")
    BY DEF Upload, Replace, Rederive, Edit
  <2>2. "other" # "request"
    OBVIOUS
  <2>3. Arrive(a, "request") => Resting(t)
    BY <2>2 DEF Arrive, Resting
  <2> QED BY <2>1, <2>3
<1> QED BY <1>2, <1>3, <1>4, <1>5

LEMMA SetTask ==
    ASSUME Tidy, NEW t \in Tasks, NEW q, Set(t, q)
    PROVE  task'[t] = q /\ \A u \in Tasks \ {t} : task'[u] = task[u]
  BY DEF Tidy, Set

LEMMA SourceThere ==
    ASSUME NEW i \in Items, Live(i), Complete(i) PROVE \E u \in Uploads : Sourced(i, u)
<1>1. PICK v \in variants[i] : IsSource(i, v)
  BY DEF Complete
<1>2. PICK u \in Uploads : v.blob = Original(u)
  BY <1>1 DEF IsSource, Originals
<1> QED BY <1>1, <1>2 DEF Sourced

\* A request that comes when all rest.
LEMMA FreshSole ==
    ASSUME Tidy, NEW a \in Requests, \A u \in Tasks : Resting(u), \A j \in Items : Complete(j),
           item' = item, variants' = variants,
           \A u \in Tasks \ {a} : task'[u] = task[u],
           task'[a].todo = {},
           \/ task'[a].pc = "commit" /\ task'[a].op # "append"
           \/ task'[a].pc \in {"source", "set"} /\ task'[a].item \in Items /\ Live(task'[a].item)
    PROVE  Sole(a)'
<1>1. \A j : Same(j)
  BY DEF Same
<1>2. \A j \in Items : Complete(j)'
  BY <1>1, SameKeeps
<1>3. a # Boot
  BY MediaAssumption
<1>4. task'[a].pc # "scan"
  OBVIOUS
<1>5. Queue(a)'
  BY <1>2, <1>3, <1>4 DEF Queue
<1>6. CASE task'[a].pc = "commit" /\ task'[a].op # "append"
  <2>1. Own(a)'
    BY <1>6 DEF Own, HasItem, Minting, Deriving
  <2> QED BY <1>5, <2>1 DEF Sole, Resting, Tasks
<1>7. CASE task'[a].pc \in {"source", "set"} /\ task'[a].item \in Items /\ Live(task'[a].item)
  <2>1. PICK i \in Items : i = task'[a].item
    BY <1>7
  <2>2. PICK u \in Uploads : Sourced(i, u)
    BY <1>7, <2>1, SourceThere
  <2>3. Sourced(i, u)' /\ Live(i)'
    BY <1>1, <1>7, <2>1, <2>2, SameKeeps
  <2>4. Own(a)'
    BY <1>7, <2>1, <2>3 DEF Own, HasItem, Minting, Deriving
  <2> QED BY <1>5, <2>4 DEF Sole, Resting, Tasks
<1> QED BY <1>6, <1>7

LEMMA ArrivalSole ==
    ASSUME Tidy, NEW a \in Requests, NEW t \in Tasks, Sole(t), Resting(t),
           Upload(a) \/ Replace(a) \/ Rederive(a) \/ Edit(a)
    PROVE  Sole(a)'
<1>1. \A u \in Tasks : Resting(u)
  BY DEF Sole
<1>2. \A j \in Items : Complete(j)
  BY DEF Sole, Queue, Resting, HasItem, Deriving
<1>3. a \in Tasks
  BY DEF Tasks
<1>4. item' = item /\ variants' = variants
  BY DEF Upload, Replace, Rederive, Edit, Tables
<1>5. ASSUME NEW q, Set(a, q), q.todo = {},
             \/ q.pc = "commit" /\ q.op # "append"
             \/ q.pc \in {"source", "set"} /\ q.item \in Items /\ Live(q.item)
      PROVE  Sole(a)'
  <2>1. task'[a] = q /\ \A u \in Tasks \ {a} : task'[u] = task[u]
    BY <1>3, <1>5, SetTask
  <2> QED BY <1>1, <1>2, <1>4, <1>5, <2>1, FreshSole
<1>6. CASE Upload(a)
  <2>1. PICK u \in Uploads : Set(a, [Idle EXCEPT !.pc = "commit", !.op = "upload", !.src = u])
    BY <1>6 DEF Upload
  <2> QED BY <1>5, <2>1 DEF Idle
<1>7. CASE Replace(a)
  <2>1. PICK u \in Uploads, i \in Items :
          Set(a, [Idle EXCEPT !.pc = "commit", !.op = "replace", !.src = u, !.item = i])
    BY <1>7 DEF Replace
  <2> QED BY <1>5, <2>1 DEF Idle
<1>8. CASE Rederive(a)
  <2>1. PICK i \in Items :
          Live(i) /\ Set(a, [Idle EXCEPT !.pc = "source", !.op = "edit", !.item = i])
    BY <1>8 DEF Rederive
  <2> QED BY <1>5, <2>1 DEF Idle
<1>9. CASE Edit(a)
  <2>1. PICK i, e :
          i \in Items /\ Live(i)
          /\ Set(a, [Idle EXCEPT !.pc = "set", !.op = "edit", !.item = i, !.edit = e])
    BY <1>9 DEF Edit
  <2> QED BY <1>5, <2>1 DEF Idle
<1> QED BY <1>6, <1>7, <1>8, <1>9

\* The rows' blobs decide about an item's source and its rungs.
LEMMA OneRow ==
    ASSUME NEW i, NEW v, variants'[i] = {v}, v.blob \in Originals, v.id \in Nat
    PROVE  /\ \A u : v.blob = Original(u) => Sourced(i, u)'
           /\ BlobsOf(i)' = {v.blob} /\ BlobsOf(i)' \subseteq Originals
<1>1. IsSource(i, v)'
  BY DEF IsSource
<1> QED BY <1>1 DEF Sourced, BlobsOf

LEMMA RowsSame ==
    ASSUME NEW i, variants'[i] = variants[i]
    PROVE  BlobsOf(i)' = BlobsOf(i) /\ \A u : Sourced(i, u)' = Sourced(i, u)
  BY DEF BlobsOf, Sourced, IsSource

LEMMA RequestSole ==
    ASSUME Tidy, NEW r \in Requests, Sole(r),
           Unborn,
           \/ Commit(r) \/ Create(r) \/ Insert(r) \/ Swap(r)
           \/ SetEdit(r) \/ PickSource(r) \/ Drop(r) \/ Params(r)
    PROVE  Sole(r)'
<1> DEFINE q == task[r]
<1>0. /\ r \in Tasks /\ r # Boot /\ q \in GoodTask /\ q \in Task
      /\ task \in [Tasks -> GoodTask]
      /\ variants \in [Items -> SUBSET Variant] /\ item \in [Items -> Edits \cup {NoItem, Gone}]
      /\ serial \in [Items -> Nat]
  BY MediaAssumption DEF Tidy, TypeOK, GoodTask, Tasks
<1>1. Own(r) /\ Queue(r) /\ \A u \in Tasks \ {r} : Resting(u)
  BY DEF Sole
<1>2. q.todo = {}
  BY <1>0, <1>1 DEF Queue
<1>3. ASSUME NEW p, Set(r, p), Own(r)', Queue(r)' PROVE Sole(r)'
  BY <1>0, <1>1, <1>3, SetTask DEF Sole, Resting
<1>4. ASSUME Finish(r), q.pc \in HasItem, Complete(q.item),
             item' = item, variants' = variants
      PROVE  Sole(r)'
  <2>1. task'[r] = Idle /\ Set(r, Idle)
    BY <1>0, <1>4, SetTask DEF Finish, Rest
  <2>2. Idle.pc = "idle" /\ Idle.todo = {}
    BY DEF Idle
  <2>3. \A j : Same(j)
    BY <1>4 DEF Same
  <2>4. PICK i : i = q.item
    OBVIOUS
  <2>5. Complete(i)'
    BY <1>4, <2>3, <2>4, SameKeeps
  <2>6. Queue(r)'
    BY <1>0, <1>1, <1>2, <1>4, <2>1, <2>2, <2>3, <2>4, <2>5, QueueKeeps
  <2>7. Own(r)'
    BY <2>1, <2>2 DEF Own, HasItem, Minting, Deriving
  <2> QED BY <1>3, <2>1, <2>6, <2>7
<1>5. CASE Commit(r)
  <2>1. q.pc = "commit" /\ q.op \in {"upload", "replace"}
    BY <1>0, <1>1, <1>5 DEF Commit, Own, GoodTask
  <2>2. PICK pc \in {"create", "swap"} : Set(r, [q EXCEPT !.pc = pc])
    BY <1>5, <2>1 DEF Commit
  <2>3. task'[r].pc = pc /\ task'[r].todo = {}
    BY <1>0, <1>2, <2>2, SetTask DEF Task
  <2>4. \A j : Same(j)
    BY <1>5 DEF Commit, Tables, Same
  <2>5. \A j \in Items : Complete(j)
    BY <1>1, <1>2, <2>1 DEF Queue, HasItem, Deriving
  <2>6. Queue(r)'
    BY <1>0, <2>3, <2>4, <2>5, SameKeeps DEF Queue
  <2>7. Own(r)'
    BY <2>3 DEF Own, HasItem, Minting, Deriving
  <2> QED BY <1>3, <2>2, <2>6, <2>7
<1>6. CASE Create(r)
  <2>1. PICK i \in Items : /\ item[i] = NoItem /\ item' = [item EXCEPT ![i] = Plain]
                           /\ Set(r, [q EXCEPT !.pc = "insert", !.item = i])
    BY <1>6 DEF Create
  <2>2. task'[r].pc = "insert" /\ task'[r].todo = {} /\ task'[r].item = i
    <3>1. PICK p : p = [q EXCEPT !.pc = "insert", !.item = i]
      OBVIOUS
    <3>2. task'[r] = p
      BY <1>0, <2>1, <3>1, SetTask
    <3>3. p.pc = "insert" /\ p.todo = q.todo /\ p.item = i
      BY <1>0, <3>1 DEF Task
    <3> QED BY <1>2, <3>2, <3>3
  <2>3. variants' = variants /\ q.pc = "create"
    BY <1>6 DEF Create
  <2>4. \A j \in Items \ {i} : Same(j)
    BY <1>0, <2>1, <2>3 DEF Same
  <2>5. \A j \in Items : Complete(j)
    BY <1>1, <1>2, <2>3 DEF Queue, HasItem, Deriving
  <2>6. Queue(r)'
    BY <1>0, <2>2, <2>4, <2>5, SameKeeps DEF Queue, HasItem
  <2>7. Live(i)' /\ variants'[i] = {}
    BY <1>0, <2>1, <2>3, Constants DEF Live, Unborn
  <2>8. Own(r)'
    BY <2>2, <2>7 DEF Own, HasItem, Minting, Deriving
  <2> QED BY <1>3, <2>1, <2>6, <2>8
<1>7. CASE Insert(r) \/ Swap(r)
  <2>1. q.pc \in {"insert", "swap"} /\ q.item \in Items /\ q.src \in Uploads /\ q.pc \in HasItem
    BY <1>0, <1>1, <1>7 DEF Insert, Swap, Own, GoodTask, HasItem, HasSrc
  <2>2. PICK i \in Items : i = q.item
    BY <2>1
  <2>3. CASE Insert(r) \/ Live(i)
    <3>1. Live(i)
      BY <1>1, <1>7, <2>1, <2>2, <2>3 DEF Own, Insert
    <3>2. /\ AddOriginal(i, q.src, {}) /\ Set(r, [q EXCEPT !.pc = "params"])
          /\ item' = item
      <4>1. CASE Insert(r)
        <5>1. q.pc = "insert"
          BY <1>1, <4>1 DEF Insert, Own
        <5>2. variants[i] = {}
          BY <1>1, <2>2, <5>1 DEF Own
        <5>3. CanInsert(i, Original(q.src))
          BY <3>1, <5>2 DEF CanInsert, BlobsOf
        <5> QED BY <2>2, <4>1, <5>1, <5>2, <5>3 DEF Insert
      <4>2. CASE Swap(r)
        BY <2>2, <3>1, <4>2 DEF Swap
      <4> QED BY <1>7, <4>1, <4>2
    <3> DEFINE v == OriginalRow(q.src, serial[i])
    <3>3. variants' = [variants EXCEPT ![i] = {v}]
      BY <3>2 DEF AddOriginal
    <3>4. /\ v.blob = Original(q.src) /\ v.id \in Nat /\ v.blob \in Originals
      BY <1>0, <2>1, Constants DEF OriginalRow
    <3>5. variants'[i] = {v} /\ \A j \in Items \ {i} : Same(j)
      BY <1>0, <3>2, <3>3 DEF Same
    <3> HIDE DEF v
    <3>6. PICK u : u = q.src
      OBVIOUS
    <3>7. Sourced(i, u)' /\ BlobsOf(i)' \subseteq Originals
      BY <3>4, <3>5, <3>6, OneRow
    <3>8. Live(i)'
      BY <3>1, <3>2 DEF Live
    <3>9. /\ task'[r].pc = "params" /\ task'[r].todo = {}
          /\ task'[r].item = i /\ task'[r].src = u
      BY <1>0, <1>2, <2>2, <3>2, <3>6, SetTask DEF Task
    <3>10. Queue(r)'
      BY <1>0, <1>1, <1>2, <2>1, <2>2, <3>5, <3>9, QueueKeeps DEF HasItem
    <3>11. Own(r)'
      BY <3>7, <3>8, <3>9 DEF Own, HasItem, Minting, Deriving
    <3> QED BY <1>3, <3>2, <3>10, <3>11
  <2>4. CASE Swap(r) /\ ~Live(i)
    <3>1. Complete(i)
      BY <2>4 DEF Complete
    <3> QED BY <1>4, <2>1, <2>2, <2>4, <3>1 DEF Swap
  <2> QED BY <1>7, <2>3, <2>4
<1>8. CASE SetEdit(r)
  <2>1. q.pc = "set" /\ q.item \in Items /\ q.edit \in Edits /\ q.pc \in HasItem
    BY <1>0, <1>8 DEF SetEdit, GoodTask, Task, HasItem
  <2>2. PICK i \in Items : i = q.item
    BY <2>1
  <2>3. PICK u \in Uploads : Sourced(i, u)
    BY <1>1, <2>1, <2>2 DEF Own
  <2>4. Live(i)
    BY <1>1, <2>1, <2>2 DEF Own
  <2>5. item' = [item EXCEPT ![i] = q.edit] /\ variants' = variants
    BY <1>8, <2>2, <2>4 DEF SetEdit
  <2>6. Live(i)' /\ \A j \in Items \ {i} : Same(j)
    BY <1>0, <2>1, <2>5 DEF Live, Same
  <2>7. Sourced(i, u)'
    BY <2>3, <2>5, RowsSame
  <2>8. Set(r, [q EXCEPT !.pc = "source"])
    BY <1>8 DEF SetEdit
  <2>9. task'[r].pc = "source" /\ task'[r].todo = {} /\ task'[r].item = i
    BY <1>0, <1>2, <2>2, <2>8, SetTask DEF Task
  <2>10. Queue(r)'
    BY <1>0, <1>1, <1>2, <2>1, <2>2, <2>6, <2>9, QueueKeeps DEF HasItem
  <2>11. Own(r)'
    BY <2>6, <2>7, <2>9 DEF Own, HasItem, Minting, Deriving
  <2> QED BY <1>3, <2>8, <2>10, <2>11
<1>9. CASE PickSource(r)
  <2>1. q.pc = "source" /\ q.item \in Items /\ q.pc \in HasItem
    BY <1>0, <1>9 DEF PickSource, GoodTask, HasItem
  <2>2. PICK i \in Items : i = q.item
    BY <2>1
  <2>3. variants[i] # {} /\ Live(i)
    BY <1>1, <2>1, <2>2 DEF Own, Sourced
  <2>4. PICK v \in variants[i] :
          IsSource(i, v) /\ Set(r, [q EXCEPT !.pc = "drop", !.src = v.blob.src])
    BY <1>9, <2>2, <2>3 DEF PickSource
  <2>5. PICK u : u = v.blob.src
    OBVIOUS
  <2>6. v.blob = Original(u)
    BY <2>4, <2>5 DEF IsSource, Originals, Original
  <2>7. Sourced(i, u)
    BY <2>4, <2>6 DEF Sourced
  <2>8. \A j : Same(j)
    BY <1>9 DEF PickSource, Tables, Same
  <2>9. Sourced(i, u)' /\ Live(i)'
    BY <2>3, <2>7, <2>8, SameKeeps
  <2>10. /\ task'[r].pc = "drop" /\ task'[r].todo = {}
         /\ task'[r].item = i /\ task'[r].src = u
    <3>1. PICK p : p = [q EXCEPT !.pc = "drop", !.src = v.blob.src]
      OBVIOUS
    <3>2. task'[r] = p
      BY <1>0, <2>4, <3>1, SetTask
    <3>3. p.pc = "drop" /\ p.todo = q.todo /\ p.item = q.item /\ p.src = v.blob.src
      BY <1>0, <3>1 DEF Task
    <3> QED BY <1>2, <2>2, <2>5, <3>2, <3>3
  <2>11. Queue(r)'
    BY <1>0, <1>1, <1>2, <2>1, <2>2, <2>8, <2>10, QueueKeeps DEF HasItem
  <2>12. Own(r)'
    BY <2>9, <2>10 DEF Own, HasItem, Minting, Deriving
  <2> QED BY <1>3, <2>4, <2>11, <2>12
<1>10. CASE Drop(r)
  <2>1. q.pc = "drop" /\ q.item \in Items /\ q.src \in Uploads /\ q.pc \in HasItem
    BY <1>0, <1>10 DEF Drop, GoodTask, HasItem, HasSrc
  <2>2. PICK i \in Items, u \in Uploads : i = q.item /\ u = q.src
    BY <2>1
  <2>3. Sourced(i, u) /\ Live(i)
    BY <1>1, <2>1, <2>2 DEF Own
  <2>4. PICK v \in variants[i] : IsSource(i, v) /\ v.blob = Original(u)
    BY <2>3 DEF Sourced
  <2>5. /\ variants' = [variants EXCEPT ![i] =
                         {w \in @ : ~IsAvif(w.blob) \/ w.blob = Original(u)}]
        /\ item' = item
    BY <1>10, <2>2 DEF Drop
  <2>6. variants'[i] = {w \in variants[i] : ~IsAvif(w.blob) \/ w.blob = Original(u)}
    BY <1>0, <2>5
  <2>7. v \in variants'[i] /\ variants'[i] \subseteq variants[i]
    BY <2>4, <2>6
  <2>8. IsSource(i, v)'
    BY <2>4, <2>7 DEF IsSource
  <2>9. Sourced(i, u)'
    BY <2>4, <2>7, <2>8 DEF Sourced
  <2>10. BlobsOf(i)' \subseteq Originals
    <3>1. ASSUME NEW w \in variants'[i] PROVE w.blob \in Originals
      <4>1. w.blob \in Blobs
        BY <1>0, <2>7 DEF Variant
      <4>2. CASE ~IsAvif(w.blob)
        BY <4>1, <4>2 DEF IsAvif, Blobs, Derived
      <4>3. CASE w.blob = Original(u)
        BY <2>4, <4>3 DEF IsSource
      <4> QED BY <2>6, <4>2, <4>3
    <3> QED BY <3>1 DEF BlobsOf
  <2>11. Live(i)' /\ \A j \in Items \ {i} : Same(j)
    BY <1>0, <2>3, <2>5 DEF Live, Same
  <2>12. Set(r, [q EXCEPT !.pc = "params"])
    BY <1>10 DEF Drop
  <2>13. /\ task'[r].pc = "params" /\ task'[r].todo = {}
         /\ task'[r].item = i /\ task'[r].src = u
    BY <1>0, <1>2, <2>2, <2>12, SetTask DEF Task
  <2>14. Queue(r)'
    BY <1>0, <1>1, <1>2, <2>1, <2>2, <2>11, <2>13, QueueKeeps DEF HasItem
  <2>15. Own(r)'
    BY <2>9, <2>10, <2>11, <2>13 DEF Own, HasItem, Minting, Deriving
  <2> QED BY <1>3, <2>12, <2>14, <2>15
<1>11. CASE Params(r)
  <2>1. q.pc = "params" /\ q.item \in Items /\ q.src \in Uploads /\ q.pc \in HasItem
    BY <1>0, <1>11 DEF Params, GoodTask, HasItem, HasSrc
  <2>2. PICK i \in Items, u \in Uploads : i = q.item /\ u = q.src
    BY <2>1
  <2>3. Sourced(i, u) /\ Live(i) /\ BlobsOf(i) \subseteq Originals
    BY <1>1, <2>1, <2>2 DEF Own
  <2>4. Set(r, [q EXCEPT !.pc = "derive", !.edit = item[i]])
    BY <1>11, <2>2, <2>3 DEF Params
  <2>5. \A j : Same(j)
    BY <1>11 DEF Params, Tables, Same
  <2>6. Sourced(i, u)' /\ Live(i)' /\ BlobsOf(i)' \subseteq Originals /\ item'[i] = item[i]
    BY <2>3, <2>5, SameKeeps DEF Same
  <2>7. /\ task'[r].pc = "derive" /\ task'[r].todo = {} /\ task'[r].item = i
        /\ task'[r].src = u /\ task'[r].edit = item[i]
    <3>1. PICK p : p = [q EXCEPT !.pc = "derive", !.edit = item[i]]
      OBVIOUS
    <3>2. task'[r] = p
      BY <1>0, <2>4, <3>1, SetTask
    <3>3. /\ p.pc = "derive" /\ p.todo = q.todo /\ p.item = q.item /\ p.src = q.src
          /\ p.edit = item[i]
      BY <1>0, <3>1 DEF Task
    <3> QED BY <1>2, <2>2, <3>2, <3>3
  <2>8. Queue(r)'
    BY <1>0, <1>1, <1>2, <2>1, <2>2, <2>5, <2>7, QueueKeeps DEF HasItem, Deriving
  <2>9. Own(r)'
    BY <2>6, <2>7 DEF Own, HasItem, Minting, Deriving
  <2> QED BY <1>3, <2>4, <2>8, <2>9
<1> QED BY <1>5, <1>6, <1>7, <1>8, <1>9, <1>10, <1>11

LEMMA MintedNone ==
    ASSUME NEW i, NEW u, NEW e
    PROVE  BlobsOf(i) \subseteq Originals <=> Minted(i, u, e, 0)
  BY DEF Minted

\* A derivation that works alone.
LEMMA DerivationSole ==
    ASSUME Tidy, Bytes, NEW t \in Tasks, Sole(t), Derivation(t), ~Fail(t)
    PROVE  Sole(t)'
<1> DEFINE q == task[t]
<1>0. /\ q \in GoodTask /\ q \in Task /\ task \in [Tasks -> GoodTask]
      /\ variants \in [Items -> SUBSET Variant] /\ disk \in [Blobs -> File] /\ tmp \in [Blobs -> File]
      /\ Rungs \in Nat \ {0}
  BY MediaAssumption DEF Tidy, TypeOK, GoodTask
<1>1. Own(t) /\ Queue(t) /\ \A u \in Tasks \ {t} : Resting(u)
  BY DEF Sole
<1>2. q.pc \in Deriving /\ q.pc \in HasItem
  BY DEF Derivation, Derive, Check, Open, Write, Rename, Record, Fail, Deriving, HasItem
<1>3. /\ q.item \in Items /\ q.src \in Uploads /\ q.edit \in Edits
      /\ q.todo \subseteq [item : Items, edit : Edits]
      /\ q.pc # "derive" => q.rung \in 1 .. Rungs /\ Current(t) \in Derived
  BY <1>0, <1>2, CurrentMinted DEF GoodTask, HasSrc, Task, Minting
<1>4. PICK i \in Items, u \in Uploads, e \in Edits : i = q.item /\ u = q.src /\ e = q.edit
  BY <1>3
<1>5. /\ Live(i) /\ Sourced(i, u) /\ e = item[i]
      /\ q.pc = "derive" => Minted(i, u, e, 0)
      /\ q.pc # "derive" => Minted(i, u, e, q.rung - 1)
  <2>1. Live(i) /\ Sourced(i, u) /\ e = item[i]
    BY <1>1, <1>2, <1>4 DEF Own, Deriving
  <2> QED BY <1>1, <1>2, <1>4, <2>1, MintedNone DEF Own, Minting
<1>6. ASSUME task'[t].todo = q.todo, \A v \in Tasks \ {t} : task'[v] = task[v], Own(t)',
             \/ task'[t].pc \in HasItem /\ task'[t].item = i
             \/ task'[t].pc = "idle" /\ Complete(i)',
             \A j \in Items \ {i} : Same(j)
      PROVE  Sole(t)'
  <2>1. Queue(t)'
    BY <1>1, <1>2, <1>3, <1>4, <1>6, QueueKeeps
  <2> QED BY <1>1, <1>6, <2>1 DEF Sole, Resting
\* A step that leaves the tables alone.
<1>7. ASSUME NEW pc \in {"size", "check", "open", "write", "rename", "record"}, NEW k \in 1 .. Rungs,
             item' = item, variants' = variants,
             task'[t].pc = pc, task'[t].todo = q.todo, task'[t].item = i, task'[t].src = u,
             task'[t].edit = e, task'[t].rung = k,
             \A v \in Tasks \ {t} : task'[v] = task[v],
             Minted(i, u, e, k - 1),
             pc = "size" => k = 1,
             pc = "write" => task'[t].file = "tmp",
             pc \in {"write", "rename"} => tmp'[Rung(u, e, k)] # "none"
      PROVE  Sole(t)'
  <2>1. \A j : Same(j)
    BY <1>7 DEF Same
  <2>2. /\ Live(i)' /\ Sourced(i, u)' /\ e = item'[i] /\ Minted(i, u, e, k - 1)'
        /\ Minted(i, u, e, 0)' = Minted(i, u, e, 0)
        /\ BlobsOf(i)' = BlobsOf(i)
    BY <1>5, <1>7, <2>1, SameKeeps
  <2>3. pc = "size" => BlobsOf(i)' \subseteq Originals
    <3>1. pc = "size" => Minted(i, u, e, 0)
      BY <1>7
    <3> QED BY <2>2, <3>1, MintedNone
  <2>4. Current(t)' = Rung(u, e, k)
    BY <1>7 DEF Current
  <2>5. Own(t)'
    BY <1>7, <2>2, <2>3, <2>4 DEF Own, HasItem, Minting, Deriving
  <2>6. pc \in HasItem
    BY DEF HasItem, Deriving
  <2> QED BY <1>6, <1>7, <2>1, <2>5, <2>6
<1>8. CASE Derive(t)
  <2>1. Original(u) \in BlobsOf(i) /\ Original(u) \in Originals /\ Original(u) \in Blobs
    BY <1>5, Constants DEF Sourced, BlobsOf
  <2>2. disk[Original(u)] = "whole"
    BY <1>0, <2>1 DEF Bytes, RowsHaveBytes, File
  <2>3. PICK pc \in {"size", "check"} : Set(t, [q EXCEPT !.pc = pc, !.rung = 1])
    BY <1>4, <1>8, <2>2 DEF Derive
  <2>4. PICK p : p = [q EXCEPT !.pc = pc, !.rung = 1]
    OBVIOUS
  <2>5. /\ p.pc = pc /\ p.todo = q.todo /\ p.item = i /\ p.src = u /\ p.edit = e /\ p.rung = 1
    BY <1>0, <1>4, <2>4 DEF Task
  <2>6. task'[t] = p /\ \A v \in Tasks \ {t} : task'[v] = task[v]
    BY <2>3, <2>4, SetTask
  <2>7. item' = item /\ variants' = variants /\ q.pc = "derive"
    BY <1>8 DEF Derive, Tables
  <2>8. 1 \in 1 .. Rungs /\ 1 - 1 = 0
    BY <1>0
  <2>9. Minted(i, u, e, 1 - 1)
    BY <1>5, <2>7, <2>8
  <2> QED BY <1>7, <2>5, <2>6, <2>7, <2>8, <2>9
<1>9. CASE Check(t)
  <2>1. PICK pc \in {"open", "record"} : Set(t, [q EXCEPT !.pc = pc])
    BY <1>9 DEF Check
  <2>2. PICK p : p = [q EXCEPT !.pc = pc]
    OBVIOUS
  <2>3. p.pc = pc /\ p.todo = q.todo /\ p.item = i /\ p.src = u /\ p.edit = e /\ p.rung = q.rung
    BY <1>0, <1>4, <2>2 DEF Task
  <2>4. task'[t] = p /\ \A v \in Tasks \ {t} : task'[v] = task[v]
    BY <2>1, <2>2, SetTask
  <2>5. item' = item /\ variants' = variants /\ q.pc = "check"
    BY <1>9 DEF Check, Tables
  <2> QED BY <1>3, <1>5, <1>7, <2>3, <2>4, <2>5
<1>10. CASE Open(t)
  <2>1. PICK p : p = [q EXCEPT !.pc = "write", !.file = "tmp", !.fresh = TRUE]
    OBVIOUS
  <2>2. /\ p.pc = "write" /\ p.todo = q.todo /\ p.item = i /\ p.src = u /\ p.edit = e
        /\ p.rung = q.rung /\ p.file = "tmp"
    BY <1>0, <1>4, <2>1 DEF Task
  <2>3. task'[t] = p
    BY <1>10, <2>1 DEF Open
  <2>4. \A v \in Tasks \ {t} : task'[v] = task[v]
    BY <1>1, <1>10 DEF Open, SameFile, Resting
  <2>5. item' = item /\ variants' = variants /\ q.pc = "open" /\ tmp' = [tmp EXCEPT ![Current(t)] = "part"]
    BY <1>10 DEF Open, Tables
  <2>6. tmp'[Rung(u, e, q.rung)] = "part"
    BY <1>0, <1>3, <1>4, <2>5 DEF Current, Blobs
  <2> QED BY <1>3, <1>5, <1>7, <2>2, <2>3, <2>4, <2>5, <2>6
<1>11. CASE Write(t)
  <2>1. Set(t, [q EXCEPT !.pc = "rename"])
    BY <1>11 DEF Write
  <2>2. PICK p : p = [q EXCEPT !.pc = "rename"]
    OBVIOUS
  <2>3. p.pc = "rename" /\ p.todo = q.todo /\ p.item = i /\ p.src = u /\ p.edit = e /\ p.rung = q.rung
    BY <1>0, <1>4, <2>2 DEF Task
  <2>4. task'[t] = p /\ \A v \in Tasks \ {t} : task'[v] = task[v]
    BY <2>1, <2>2, SetTask
  <2>5. item' = item /\ variants' = variants /\ q.pc = "write"
    BY <1>11 DEF Write, Tables
  <2>6. q.file = "tmp" /\ tmp[Current(t)] # "none"
    BY <1>1, <2>5 DEF Own
  <2>7. PICK f \in Written(t, tmp[Current(t)]) : tmp' = [tmp EXCEPT ![Current(t)] = f]
    BY <1>11, <2>6 DEF Write
  <2>8. f # "none"
    BY <2>6 DEF Written
  <2>9. tmp'[Rung(u, e, q.rung)] # "none"
    BY <1>0, <1>3, <1>4, <2>5, <2>7, <2>8 DEF Current, Blobs
  <2> QED BY <1>3, <1>5, <1>7, <2>3, <2>4, <2>5, <2>9
<1>12. CASE Rename(t)
  <2>1. q.pc = "rename" /\ tmp[Current(t)] # "none"
    BY <1>1, <1>12 DEF Rename, Own
  <2>2. PICK p : p = [q EXCEPT !.pc = "record", !.file = "none", !.fresh = FALSE]
    OBVIOUS
  <2>3. p.pc = "record" /\ p.todo = q.todo /\ p.item = i /\ p.src = u /\ p.edit = e /\ p.rung = q.rung
    BY <1>0, <1>4, <2>2 DEF Task
  <2>4. task'[t] = p
    BY <1>12, <2>1, <2>2 DEF Rename
  <2>5. \A v \in Tasks \ {t} : task'[v] = task[v]
    BY <1>1, <1>12, <2>1 DEF Rename, SameFile, Resting
  <2>6. item' = item /\ variants' = variants
    BY <1>12 DEF Rename, Tables
  <2> QED BY <1>3, <1>5, <1>7, <2>1, <2>3, <2>4, <2>5, <2>6
<1>13. CASE Record(t)
  <2>0. PICK n \in 1 .. Rungs : n = q.rung
    BY <1>3, <1>13 DEF Record
  <2> DEFINE b == Rung(u, e, n)
  <2>1. q.pc = "record" /\ n \in 1 .. Rungs /\ Current(t) = b /\ b \in Derived
    BY <1>3, <1>4, <1>13, <2>0 DEF Record, Current
  <2>2. Minted(i, u, e, n - 1)
    BY <1>5, <2>0, <2>1
  <2>3. b \notin BlobsOf(i)
    <3>1. b \notin Originals
      BY <2>1, Constants
    <3>2. \A k \in 1 .. n - 1 : b # Rung(u, e, k)
      BY <2>1 DEF Rung
    <3> QED BY <2>2, <3>1, <3>2 DEF Minted
  <2>4. /\ variants' = [variants EXCEPT ![i] = @ \cup {RungRow(b)}]
        /\ IF n < Rungs THEN Set(t, [q EXCEPT !.pc = "check", !.rung = @ + 1]) ELSE Finish(t)
        /\ item' = item
    BY <1>4, <1>5, <1>13, <2>0, <2>1, <2>3 DEF Record, CanInsert
  <2>5. variants'[i] = variants[i] \cup {RungRow(b)} /\ \A j \in Items \ {i} : Same(j)
    BY <1>0, <2>4 DEF Same
  <2>6. RungRow(b).blob = b
    BY DEF RungRow
  <2>7. BlobsOf(i)' = BlobsOf(i) \cup {b}
    BY <2>5, <2>6 DEF BlobsOf
  <2>8. Minted(i, u, e, n)'
    <3>1. b \notin Originals
      BY <2>1, Constants
    <3>2. 1 .. n = 1 .. (n - 1) \cup {n}
      BY <2>1
    <3>3. {Rung(u, e, k) : k \in 1 .. n} = {Rung(u, e, k) : k \in 1 .. (n - 1)} \cup {b}
      BY <3>2
    <3>4. (BlobsOf(i) \cup {b}) \ Originals = (BlobsOf(i) \ Originals) \cup {b}
      BY <3>1
    <3> QED BY <2>2, <2>7, <3>3, <3>4 DEF Minted
  <2>9. Live(i)' /\ e = item'[i]
    BY <1>5, <2>4 DEF Live
  <2>10. PICK v \in variants[i] : IsSource(i, v) /\ v.blob = Original(u)
    BY <1>5 DEF Sourced
  <2>11. IsSource(i, v)' /\ v \in variants'[i]
    BY <2>1, <2>5, <2>6, <2>10, Constants DEF IsSource
  <2>12. Sourced(i, u)'
    BY <2>10, <2>11 DEF Sourced
  <2>13. CASE n < Rungs
    <3>1. PICK p : p = [q EXCEPT !.pc = "check", !.rung = @ + 1]
      OBVIOUS
    <3>2. p.pc = "check" /\ p.todo = q.todo /\ p.item = i /\ p.src = u /\ p.edit = e /\ p.rung = n + 1
      BY <1>0, <1>4, <2>0, <3>1 DEF Task
    <3>3. task'[t] = p /\ \A w \in Tasks \ {t} : task'[w] = task[w]
      BY <2>4, <2>13, <3>1, SetTask
    <3>4. Minted(i, u, e, (n + 1) - 1)'
      BY <2>1, <2>8
    <3>5. Own(t)'
      BY <2>9, <2>12, <3>2, <3>3, <3>4 DEF Own, HasItem, Minting, Deriving
    <3> QED BY <1>6, <2>5, <3>2, <3>3, <3>5 DEF HasItem, Deriving
  <2>14. CASE ~(n < Rungs)
    <3>1. n = Rungs
      BY <1>0, <2>1, <2>14
    <3>2. task'[t] = Rest(t) /\ \A w \in Tasks \ {t} : task'[w] = task[w]
      BY <2>4, <2>14, SetTask DEF Finish
    <3>3. Rest(t).pc = "idle" /\ Rest(t).todo = q.todo
      BY <1>1 DEF Rest, Idle, Queue
    <3>4. Complete(i)'
      <4>1. v.blob.src = u
        BY <2>10 DEF Original
      <4> QED BY <2>8, <2>9, <2>11, <3>1, <4>1 DEF Complete, Minted
    <3>5. Own(t)'
      BY <3>2, <3>3 DEF Own, HasItem, Minting, Deriving
    <3> QED BY <1>6, <2>5, <3>2, <3>3, <3>4, <3>5
  <2> QED BY <2>13, <2>14
<1> QED BY <1>8, <1>9, <1>10, <1>11, <1>12, <1>13 DEF Derivation

\* The backfill, alone.
LEMMA BootSole ==
    ASSUME Tidy, Sole(Boot), Boots PROVE Sole(Boot)'
<1> DEFINE q == task[Boot]
<1>0. /\ Boot \in Tasks /\ q \in GoodTask /\ q \in Task
      /\ variants \in [Items -> SUBSET Variant] /\ item \in [Items -> Edits \cup {NoItem, Gone}]
      /\ q.todo \subseteq [item : Items, edit : Edits]
  BY Constants DEF Tidy, TypeOK, GoodTask, Task
<1>1. Own(Boot) /\ Queue(Boot) /\ \A u \in Tasks \ {Boot} : Resting(u)
  BY DEF Sole
<1>2. ASSUME NEW p, Set(Boot, p), Own(Boot)', Queue(Boot)' PROVE Sole(Boot)'
  BY <1>0, <1>1, <1>2, SetTask DEF Sole, Resting
<1>3. CASE BootScan
  <2> DEFINE todo == {[item |-> j, edit |-> item[j]] : j \in
            {k \in Items : Live(k) /\ variants[k] # {} /\ \A v \in variants[k] : ~v.sized}}
  <2>1. q.pc = "scan" /\ \A j : Same(j)
    BY <1>3 DEF BootScan, Tables, Same
  <2>2. PICK p : p = [Idle EXCEPT !.op = "backfill", !.todo = todo]
    OBVIOUS
  <2>3. p.pc = "idle" /\ p.todo = todo
    BY <2>2 DEF Idle
  <2>4. Set(Boot, p)
    BY <1>3, <2>2 DEF BootScan
  <2>5. task'[Boot] = p
    BY <1>0, <2>4, SetTask
  <2>6. \A j \in Items : Live(j) => Raw(j) /\ \A v \in variants[j] : ~v.sized
    BY <1>1, <2>1 DEF Queue
  <2>7. ASSUME NEW m \in todo PROVE Live(m.item)' /\ Raw(m.item)' /\ m.edit = item'[m.item]
    <3>1. PICK j \in Items : Live(j) /\ m = [item |-> j, edit |-> item[j]]
      OBVIOUS
    <3>2. Live(j)' /\ Raw(j)' /\ item'[j] = item[j]
      BY <2>1, <2>6, <3>1, SameKeeps DEF Same
    <3>3. m.item = j /\ m.edit = item[j]
      BY <3>1
    <3> QED BY <3>2, <3>3
  <2>8. ASSUME NEW j \in Items PROVE Complete(j)' \/ \E m \in todo : m.item = j
    <3>1. CASE Live(j)
      <4>1. Raw(j) /\ \A v \in variants[j] : ~v.sized
        BY <2>6, <3>1
      <4>2. [item |-> j, edit |-> item[j]] \in todo
        BY <3>1, <4>1 DEF Raw
      <4> QED BY <4>2
    <3>2. CASE ~Live(j)
      <4>1. Complete(j)
        BY <3>2 DEF Complete
      <4> QED BY <2>1, <4>1, SameKeeps
    <3> QED BY <3>1, <3>2
  <2> HIDE DEF todo
  <2>9. Own(Boot)'
    BY <2>3, <2>5 DEF Own, HasItem, Minting, Deriving
  <2>10. Queue(Boot)'
    BY <2>3, <2>5, <2>7, <2>8 DEF Queue, HasItem, Deriving
  <2> QED BY <1>2, <2>4, <2>9, <2>10
<1>4. CASE BootPick
  <2>1. q.pc = "idle" /\ \A j : Same(j)
    BY <1>4 DEF BootPick, Tables, Same
  <2>2. PICK m \in q.todo :
          LET left == [Idle EXCEPT !.op = "backfill", !.todo = q.todo \ {m}] IN
          \/ variants[m.item] = {} /\ Set(Boot, left)
          \/ \E v \in variants[m.item] :
               /\ v.blob \in Originals
               /\ \A w \in variants[m.item] : w.blob \in Originals => v.id <= w.id
               /\ Set(Boot, [left EXCEPT !.pc = "derive", !.item = m.item,
                                         !.edit = m.edit, !.src = v.blob.src])
    BY <1>4 DEF BootPick
  <2>3. PICK i \in Items : i = m.item
    BY <1>0, <2>2
  <2>4. Live(i) /\ Raw(i) /\ m.edit = item[i]
    BY <1>1, <2>2, <2>3 DEF Queue
  <2>5. PICK v \in variants[i] : variants[i] = {v} /\ v.blob \in Originals
    BY <2>4 DEF Raw
  <2>6. v.id \in Nat
    BY <1>0, <2>5 DEF Variant
  <2>7. PICK p : p = [[Idle EXCEPT !.op = "backfill", !.todo = q.todo \ {m}] EXCEPT
                        !.pc = "derive", !.item = m.item, !.edit = m.edit, !.src = v.blob.src]
    OBVIOUS
  <2>8. Set(Boot, p)
    <3>1. PICK w \in variants[m.item] :
            Set(Boot, [[Idle EXCEPT !.op = "backfill", !.todo = q.todo \ {m}] EXCEPT
                        !.pc = "derive", !.item = m.item, !.edit = m.edit, !.src = w.blob.src])
      BY <2>2, <2>3, <2>5
    <3>2. w = v
      BY <2>3, <2>5, <3>1
    <3> QED BY <2>7, <3>1, <3>2
  <2>9. PICK u : u = v.blob.src
    OBVIOUS
  <2>10. /\ p.pc = "derive" /\ p.todo = q.todo \ {m} /\ p.item = i /\ p.src = u
         /\ p.edit = item[i]
    BY <2>3, <2>4, <2>7, <2>9 DEF Idle
  <2>11. task'[Boot] = p
    BY <1>0, <2>8, SetTask
  <2>12. variants'[i] = {v} /\ item'[i] = item[i] /\ Live(i)'
    BY <2>1, <2>4, <2>5, SameKeeps DEF Same
  <2>13. v.blob = Original(u)
    BY <2>5, <2>9 DEF Originals, Original
  <2>14. Sourced(i, u)' /\ BlobsOf(i)' \subseteq Originals
    BY <2>5, <2>6, <2>12, <2>13, OneRow
  <2>15. Own(Boot)'
    BY <2>10, <2>11, <2>12, <2>14 DEF Own, HasItem, Minting, Deriving
  <2>16. ASSUME NEW n \in q.todo \ {m}
         PROVE  Live(n.item)' /\ Raw(n.item)' /\ n.edit = item'[n.item] /\ i # n.item
    <3>1. PICK j \in Items : j = n.item
      BY <1>0
    <3>2. Live(j) /\ Raw(j) /\ n.edit = item[j]
      BY <1>1, <3>1 DEF Queue
    <3>3. Live(j)' /\ Raw(j)' /\ item'[j] = item[j]
      BY <2>1, <3>2, SameKeeps DEF Same
    <3>4. i # j
      <4>1. \A x, y \in [item : Items, edit : Edits] :
              x.item = y.item /\ x.edit = y.edit => x = y
        OBVIOUS
      <4>2. n \in [item : Items, edit : Edits] /\ m \in [item : Items, edit : Edits] /\ n # m
        BY <1>0, <2>2
      <4>3. ~(n.item = m.item /\ n.edit = m.edit)
        BY <4>1, <4>2
      <4> QED BY <2>3, <2>4, <3>1, <3>2, <4>3
    <3> QED BY <3>1, <3>2, <3>3, <3>4
  <2>17. ASSUME NEW j \in Items
         PROVE  Complete(j)' \/ (\E n \in q.todo \ {m} : n.item = j) \/ i = j
    <3>1. Complete(j) \/ \E n \in q.todo : n.item = j
      BY <1>1, <2>1 DEF Queue, HasItem, Deriving
    <3>2. Complete(j)' = Complete(j)
      BY <2>1, SameKeeps
    <3> QED BY <2>3, <3>1, <3>2
  <2>18. Queue(Boot)'
    <3>1. p.pc \in HasItem /\ p.pc # "scan"
      BY <2>10 DEF HasItem, Deriving
    <3> QED BY <2>10, <2>11, <2>16, <2>17, <3>1 DEF Queue
  <2> QED BY <1>2, <2>8, <2>15, <2>18
<1>5. CASE Size
  <2>1. /\ q.pc = "size" /\ q.item \in Items /\ q.src \in Uploads /\ q.edit \in Edits
        /\ q.pc \in HasItem
    BY <1>0, <1>5 DEF Size, GoodTask, Task, HasItem, HasSrc, Deriving
  <2>2. PICK i \in Items, u \in Uploads, e \in Edits : i = q.item /\ u = q.src /\ e = q.edit
    BY <2>1
  <2>3. /\ Sourced(i, u) /\ Live(i) /\ BlobsOf(i) \subseteq Originals /\ e = item[i] /\ q.rung = 1
    BY <1>1, <2>1, <2>2 DEF Own, Deriving
  <2> DEFINE f(v) == IF v.blob = Original(u) THEN [v EXCEPT !.sized = TRUE] ELSE v
  <2>4. variants' = [variants EXCEPT ![i] = {f(v) : v \in @}] /\ item' = item
    BY <1>5, <2>2 DEF Size
  <2>5. variants'[i] = {f(v) : v \in variants[i]} /\ \A j \in Items \ {i} : Same(j)
    BY <1>0, <2>4 DEF Same
  <2>6. \A v \in variants[i] : f(v).blob = v.blob /\ f(v).id = v.id
    BY <1>0 DEF Variant
  <2> HIDE DEF f
  <2>7. BlobsOf(i)' = BlobsOf(i)
    BY <2>5, <2>6 DEF BlobsOf
  <2>8. PICK v \in variants[i] : IsSource(i, v) /\ v.blob = Original(u)
    BY <2>3 DEF Sourced
  <2>9. IsSource(i, f(v))'
    <3>1. PICK x : x = f(v)
      OBVIOUS
    <3>2. x \in variants'[i] /\ x.blob \in Originals
      BY <2>5, <2>6, <2>8, <3>1 DEF IsSource
    <3>3. ASSUME NEW y \in variants'[i], y.blob \in Originals
          PROVE  /\ IsAvif(x.blob) => IsAvif(y.blob)
                 /\ IsAvif(x.blob) = IsAvif(y.blob) => x.id <= y.id
      <4>1. PICK w \in variants[i] : y = f(w)
        BY <2>5
      <4>2. y.blob = w.blob /\ y.id = w.id /\ x.blob = v.blob /\ x.id = v.id
        BY <2>6, <3>1, <4>1
      <4> QED BY <2>8, <3>3, <4>2 DEF IsSource
    <3>4. IsSource(i, x)'
      BY <3>2, <3>3 DEF IsSource
    <3> QED BY <3>1, <3>4
  <2>10. Sourced(i, u)'
    BY <2>5, <2>6, <2>8, <2>9 DEF Sourced
  <2>11. Minted(i, u, e, 0)' /\ Live(i)' /\ e = item'[i]
    BY <2>3, <2>4, <2>7 DEF Minted, Live
  <2>12. PICK p : p = [q EXCEPT !.pc = "check"]
    OBVIOUS
  <2>13. /\ p.pc = "check" /\ p.todo = q.todo /\ p.item = i /\ p.src = u /\ p.edit = e
         /\ p.rung = 1
    BY <1>0, <2>2, <2>3, <2>12 DEF Task
  <2>14. Set(Boot, p) /\ task'[Boot] = p
    BY <1>0, <1>5, <2>12, SetTask DEF Size
  <2>15. Minted(i, u, e, 1 - 1)'
    BY <2>11
  <2>16. Own(Boot)'
    BY <2>10, <2>11, <2>13, <2>14, <2>15 DEF Own, HasItem, Minting, Deriving
  <2>17. Queue(Boot)'
    BY <1>0, <1>1, <2>1, <2>2, <2>5, <2>13, <2>14, QueueKeeps DEF HasItem, Deriving
  <2> QED BY <1>2, <2>14, <2>16, <2>17
<1> QED BY <1>3, <1>4, <1>5 DEF Boots

LEMMA InitSingle == Init => Single
<1> SUFFICES ASSUME Init PROVE Single
  OBVIOUS
<1> USE Constants
<1>1. PICK legacy \in [Items -> Uploads \cup {NoItem}] :
        /\ item = [i \in Items |-> IF legacy[i] = NoItem THEN NoItem ELSE Plain]
        /\ variants = [i \in Items |-> IF legacy[i] = NoItem THEN {}
             ELSE {[OriginalRow(legacy[i], 0) EXCEPT !.sized = FALSE]}]
  BY DEF Init
<1>2. Unborn
  BY <1>1 DEF Unborn
<1>3. ASSUME NEW j \in Items, Live(j) PROVE Raw(j) /\ \A v \in variants[j] : ~v.sized
  <2>1. legacy[j] \in Uploads
    BY <1>1, <1>3 DEF Live
  <2>2. PICK v : v = [OriginalRow(legacy[j], 0) EXCEPT !.sized = FALSE]
    OBVIOUS
  <2>3. v.blob = Original(legacy[j]) /\ ~v.sized
    BY <2>2 DEF OriginalRow
  <2>4. variants[j] = {v}
    BY <1>1, <1>3, <2>2 DEF Live
  <2> QED BY <2>1, <2>3, <2>4 DEF Raw
<1>4. BootTask.pc = "scan" /\ BootTask.todo = {} /\ Idle.pc = "idle" /\ Idle.todo = {}
  BY DEF BootTask, Idle
<1>5. task[Boot] = BootTask /\ \A u \in Tasks \ {Boot} : task[u] = Idle
  BY DEF Init
<1>6. Own(Boot)
  BY <1>4, <1>5 DEF Own, HasItem, Minting, Deriving
<1>7. Queue(Boot)
  BY <1>3, <1>4, <1>5 DEF Queue, HasItem, Deriving
<1>8. Sole(Boot)
  BY <1>4, <1>5, <1>6, <1>7 DEF Sole, Resting
<1> QED BY <1>2, <1>8 DEF Single

LEMMA UnbornKeeps == Tidy /\ Unborn /\ [Next]_vars => Unborn'
<1> SUFFICES ASSUME Tidy, Unborn, [Next]_vars, NEW i \in Items, item'[i] = NoItem
             PROVE  variants'[i] = {}
  BY DEF Unborn
<1> USE Constants
<1>0. /\ item \in [Items -> Edits \cup {NoItem, Gone}] /\ variants \in [Items -> SUBSET Variant]
      /\ \A t \in Tasks : task[t].edit \in Edits
  BY DEF Tidy, TypeOK, GoodTask, Task
<1>1. CASE item[i] = NoItem /\ variants'[i] = variants[i]
  BY <1>1 DEF Unborn
<1>2. CASE item' = item /\ (variants'[i] = variants[i] \/ Live(i))
  BY <1>1, <1>2 DEF Live
<1>3. ASSUME NEW r \in Requests, Handler(r) PROVE variants'[i] = {}
  <2>1. CASE Create(r) \/ SetEdit(r)
    BY <1>0, <1>1, <2>1 DEF Create, SetEdit, Live, Tasks
  <2>2. CASE Insert(r) \/ Swap(r)
    BY <1>0, <1>2, <2>2 DEF Insert, Swap, CanInsert, AddOriginal
  <2>3. CASE Drop(r)
    BY <1>0, <2>3 DEF Drop, Unborn
  <2>4. CASE Upload(r) \/ Replace(r) \/ AppendPart(r) \/ Rederive(r) \/ Edit(r) \/ Commit(r)
             \/ PickSource(r) \/ Params(r) \/ HangUp(r)
    BY <1>2, <2>4 DEF Upload, Replace, AppendPart, Rederive, Edit, Commit, PickSource, Params,
                      HangUp, Tables
  <2> QED BY <1>3, <2>1, <2>2, <2>3, <2>4 DEF Handler
<1>4. ASSUME NEW t \in Tasks, Derivation(t) PROVE variants'[i] = {}
  <2>1. CASE Record(t)
    BY <1>0, <1>2, <2>1 DEF Record, CanInsert
  <2>2. CASE Derive(t) \/ Check(t) \/ Open(t) \/ Write(t) \/ Rename(t) \/ Fail(t)
    BY <1>2, <2>2 DEF Derive, Check, Open, Write, Rename, Fail, Tables
  <2> QED BY <1>4, <2>1, <2>2 DEF Derivation
<1>5. CASE Size \/ DeleteVariant
  <2>1. CASE Size
    BY <1>0, <2>1 DEF Size, Unborn
  <2>2. CASE DeleteVariant
    BY <1>0, <2>2 DEF DeleteVariant, Unborn
  <2> QED BY <1>5, <2>1, <2>2
<1>6. CASE DeleteItem
  BY <1>0, <1>6, RowAssumption DEF DeleteItem, Unborn
<1>7. CASE BootScan \/ BootPick \/ Restart \/ UNCHANGED vars
  BY <1>2, <1>7 DEF BootScan, BootPick, Restart, vars, Tables
<1> QED BY <1>3, <1>4, <1>5, <1>6, <1>7 DEF Next

\* What is past stays past; all but requests leave a mark on it.
LEMMA PastGrows ==
    ASSUME Tidy, [Next]_vars, past' \subseteq {"request"}
    PROVE  /\ past \subseteq {"request"}
           /\ ~DeleteItem /\ ~DeleteVariant /\ ~Restart
           /\ \A r \in Requests : ~HangUp(r) /\ ~AppendPart(r)
           /\ \A t \in Tasks : ~Fail(t)
<1>0. "other" # "request" /\ "restart" # "request"
  OBVIOUS
<1>1. DeleteItem \/ DeleteVariant => past' = past \cup {"other"}
  BY DEF DeleteItem, DeleteVariant
<1>2. Restart => past' = past \cup {"restart"}
  BY DEF Restart
<1>3. \A r : HangUp(r) => past' = past \cup {"other"}
  BY DEF HangUp
<1>4. \A t : Fail(t) => past' = past \cup {"other"}
  BY DEF Fail
<1>5. \A r : AppendPart(r) => Arrive(r, "other")
  BY DEF AppendPart
<1>6. \A r, kind : Arrive(r, kind) => past \cup {kind} \subseteq past'
  BY DEF Arrive
<1>7. \A r : Upload(r) \/ Replace(r) \/ Rederive(r) \/ Edit(r) => Arrive(r, "request")
  BY DEF Upload, Replace, Rederive, Edit
<1>8. \A r : Commit(r) \/ Create(r) \/ Insert(r) \/ Swap(r) \/ SetEdit(r) \/ PickSource(r)
              \/ Drop(r) \/ Params(r) => past' = past
  BY DEF Commit, Create, Insert, Swap, SetEdit, PickSource, Drop, Params, History
<1>9. \A t : Derive(t) \/ Check(t) \/ Open(t) \/ Write(t) \/ Rename(t) \/ Record(t) => past' = past
  BY DEF Derive, Check, Open, Write, Rename, Record, History
<1>10. Boots \/ UNCHANGED vars => past' = past
  BY DEF Boots, BootScan, BootPick, Size, History, vars
<1>11. past \subseteq past'
  <2>1. \A r : Handler(r) => past \subseteq past'
    BY <1>3, <1>5, <1>6, <1>7, <1>8 DEF Handler
  <2>2. \A t : Derivation(t) => past \subseteq past'
    BY <1>4, <1>9 DEF Derivation
  <2> QED BY <1>1, <1>2, <1>10, <2>1, <2>2 DEF Next, Boots
<1> QED BY <1>0, <1>1, <1>2, <1>3, <1>4, <1>5, <1>6, <1>11

LEMMA StepSingle == Tidy /\ Bytes /\ Single /\ [Next]_vars => Single'
<1> SUFFICES ASSUME Tidy, Bytes, Single, [Next]_vars, past' \subseteq {"request"}
             PROVE  \E t \in Tasks : Sole(t)'
  BY UnbornKeeps DEF Single
<1>1. PICK t \in Tasks : Sole(t)
  BY PastGrows DEF Single
<1>2. Unborn
  BY DEF Single
<1>3. CASE UNCHANGED vars
  <2>1. Own(t)' = Own(t)
    BY <1>3 DEF vars, Own, Live, Sourced, IsSource, BlobsOf, Minted, Current
  <2>2. \A j : Same(j)
    BY <1>3 DEF vars, Same
  <2>3. \A j : Complete(j)' = Complete(j) /\ Raw(j)' = Raw(j) /\ Live(j)' = Live(j)
    BY <2>2, SameKeeps
  <2>4. Queue(t)' = Queue(t)
    BY <1>3, <2>3 DEF vars, Queue
  <2>5. Sole(t)'
    BY <1>1, <1>3, <2>1, <2>4 DEF Sole, vars, Resting
  <2> QED BY <2>5
<1>4. ASSUME NEW a \in Tasks,
             (a \in Requests /\ Handler(a)) \/ Derivation(a) \/ (a = Boot /\ Boots)
      PROVE  \E u \in Tasks : Sole(u)'
  <2>1. CASE a # t
    <3>1. a \in Requests /\ (Upload(a) \/ Replace(a) \/ Rederive(a) \/ Edit(a)) /\ Resting(t)
      BY <1>1, <1>4, <2>1, StepsAlone
    <3> QED BY <1>1, <1>4, <3>1, ArrivalSole
  <2>2. CASE a = t /\ a \in Requests /\ Handler(a)
    <3>1. CASE Upload(a) \/ Replace(a) \/ Rederive(a) \/ Edit(a)
      <4>1. Resting(a)
        <5>1. Arrive(a, "request")
          BY <3>1 DEF Upload, Replace, Rederive, Edit
        <5>2. task[a].pc = "idle"
          BY <5>1 DEF Arrive
        <5>3. task[a].todo = {}
          BY <1>1, <2>2, MediaAssumption DEF Sole, Queue
        <5> QED BY <5>2, <5>3 DEF Resting
      <4> QED BY <1>1, <2>2, <3>1, <4>1, ArrivalSole
    <3>2. CASE ~(Upload(a) \/ Replace(a) \/ Rederive(a) \/ Edit(a))
      BY <1>1, <1>2, <2>2, <3>2, PastGrows, RequestSole DEF Handler
    <3> QED BY <3>1, <3>2
  <2>3. CASE a = t /\ Derivation(a)
    BY <1>1, <2>3, PastGrows, DerivationSole
  <2>4. CASE a = t /\ a = Boot /\ Boots
    BY <1>1, <2>4, BootSole
  <2> QED BY <1>4, <2>1, <2>2, <2>3, <2>4
<1>5. CASE Next
  <2>1. Boot \in Tasks /\ Requests \subseteq Tasks
    BY Constants
  <2>2. (\E r \in Requests : Handler(r)) \/ (\E u \in Tasks : Derivation(u)) \/ Boots
    BY <1>5, PastGrows DEF Next, Boots
  <2>3. ASSUME NEW r \in Requests, Handler(r) PROVE \E u \in Tasks : Sole(u)'
    BY <1>4, <2>1, <2>3
  <2>4. ASSUME NEW a \in Tasks, Derivation(a) PROVE \E u \in Tasks : Sole(u)'
    BY <1>4, <2>4
  <2>5. CASE Boots
    BY <1>4, <2>1, <2>5
  <2> QED BY <2>2, <2>3, <2>4, <2>5
<1> QED BY <1>3, <1>5

\* With one request at a time and nothing failing, every item at rest carries
\* its source and exactly the rungs of that source under its present edit, for
\* any number of items, requests and rungs and any sequence of uploads,
\* replacements, rotations, crops and re-derivations, after any legacy library
\* the backfill found (maybe_add_responsive_variants, delete_avif_rungs_except).
THEOREM AloneAlwaysComplete == Spec => []AloneIsComplete
<1>1. Single => AloneIsComplete
  <2> SUFFICES ASSUME Single, past \subseteq {"request"}, Quiet, NEW i \in Items
               PROVE  Complete(i)
    BY DEF AloneIsComplete
  <2>1. PICK t \in Tasks : Sole(t)
    BY DEF Single
  <2>2. task[t].pc = "idle" /\ task[t].todo = {}
    BY DEF Quiet
  <2> QED BY <2>1, <2>2 DEF Sole, Queue, HasItem, Deriving
<1> QED BY <1>1, InitTidy, StepTidy, InitBytes, StepBytes, InitSingle, StepSingle, PTL DEF Spec

=============================================================================
