-------------------------- MODULE DeadLinks_proofs --------------------------
(***************************************************************************)
(* What holds of the dead-link checker for every set of urls and pages,    *)
(* any number of scan tasks and re-checks, and every value of its periods. *)
(***************************************************************************)
EXTENDS DeadLinks, TLAPS

-----------------------------------------------------------------------------

(***************************************************************************)
(* One row.  The time a streak of n failures has taken, at least: each     *)
(* step of it lies Interval after a check that was at most MaxBusy behind  *)
(* its writing.                                                            *)
(***************************************************************************)
Least(row) == row.first + (row.fails - 1) * (Interval - MaxBusy)

\* By time t the streak's least duration has passed, and the row's own check
\* time lags it by MaxBusy at most.
Spaced(row, t) ==
    row # NoRow /\ row.fails > 0 =>
        Least(row) <= t /\ Least(row) <= row.checked + MaxBusy

\* t is a time that a writer at time n may still hold on to.
Fresh(t, n) == t <= n /\ n <= t + MaxBusy

\* One more failure adds one gap to the least duration.
LEMMA OneMoreGap ==
    ASSUME NEW n \in Int, NEW g \in Int
    PROVE  (n + 1 - 1) * g = (n - 1) * g + g /\ (1 - 1) * g = 0
<1>1. n * g = (n - 1) * g + g
  BY SMT
<1> QED BY <1>1, SMT

\* The row record computes is a row, and keeps the spacing.
LEMMA NextStateSpaced ==
    ASSUME NEW prev \in Row \cup {NoRow}, NEW class \in Classes,
           NEW t \in Int, NEW n \in Int, Fresh(t, n), Spaced(prev, n)
    PROVE  NextState(prev, class, t) \in Row
           /\ Spaced(NextState(prev, class, t), n)
<1> DEFINE new == NextState(prev, class, t)
           old == IF prev = NoRow THEN [fails |-> 0, first |-> Never] ELSE prev
<1>0. /\ Interval \in Nat /\ MaxBusy \in Nat /\ Never \notin Int
      /\ Interval - MaxBusy \in Int
  BY DeadLinksAssumption
<1>1. /\ old.fails \in Nat /\ old.first \in Int \cup {Never}
      /\ Dismissed(prev) \in BOOLEAN
      /\ old.fails = 0 <=> old.first = Never
  BY DEF Row, Dismissed
<1> DEFINE stay == Within(prev, t) /\ old.fails > 0
           f == IF class = "ok" THEN 0
                ELSE IF class \notin Failures \/ stay THEN old.fails
                ELSE old.fails + 1
           b == IF class = "ok" THEN Never
                ELSE IF class \notin Failures \/ old.first # Never
                THEN old.first ELSE t
<1>2. new = [class |-> class, fails |-> f, first |-> b, checked |-> t,
             ignored |-> Dismissed(prev)]
  BY DEF NextState, FirstFailed, Failures
<1>3. f \in Nat /\ b \in Int \cup {Never} /\ (f = 0 <=> b = Never)
  BY <1>1, <1>0
<1>4. prev # NoRow => prev \in Row /\ old = prev
  OBVIOUS
<1>5. prev = NoRow => old.fails = 0
  OBVIOUS
<1>6. ~stay /\ prev # NoRow /\ old.fails > 0 => t - prev.checked >= Interval
  BY <1>4, <1>1, <1>0 DEF Within, Row
<1> SUFFICES new \in Row /\ Spaced(new, n)
  OBVIOUS
<1> HIDE DEF new, old, stay
<1>7. new \in Row
  BY <1>2, <1>3, <1>1 DEF Row
<1>8. new.fails = f /\ new.first = b /\ new.checked = t
  BY <1>2
<1>9. Least(new) = b + (f - 1) * (Interval - MaxBusy)
  BY <1>8 DEF Least
<1>10. SUFFICES ASSUME f > 0
                PROVE  Least(new) <= n /\ Least(new) <= t + MaxBusy
  BY <1>7, <1>8 DEF Spaced
<1>11. b \in Int /\ class # "ok"
  BY <1>3, <1>10, <1>0
<1>12. CASE old.fails = 0
  <2>1. f = 1 /\ b = t
    BY <1>12, <1>1, <1>10, <1>11
  <2>2. Least(new) = t
    BY <2>1, <1>9, <1>0, OneMoreGap
  <2> QED BY <2>2, <1>0 DEF Fresh
<1>13. CASE old.fails # 0
  <2>1. prev # NoRow /\ prev \in Row /\ old = prev /\ prev.fails > 0
    BY <1>13, <1>1, <1>4, <1>5
  <2>2. prev.first \in Int /\ prev.checked \in Int /\ prev.fails \in Nat
    BY <2>1, <1>1, <1>0 DEF Row
  <2>3. Least(prev) \in Int
    BY <2>2, <1>0 DEF Least
  <2>4. Least(prev) <= n /\ Least(prev) <= prev.checked + MaxBusy
    BY <2>1 DEF Spaced
  <2>5. b = prev.first
    BY <2>1, <2>2, <1>11, <1>0
  <2>6. CASE class \notin Failures \/ stay
    <3>1. Least(new) = Least(prev)
      BY <2>6, <1>9, <1>11, <2>1, <2>5 DEF Least
    <3> QED BY <3>1, <2>3, <2>4, <1>0 DEF Fresh
  <2>7. CASE class \in Failures /\ ~stay
    <3>1. t - prev.checked >= Interval
      BY <2>7, <2>1, <1>6
    <3>2. new.fails = prev.fails + 1 /\ new.first = prev.first
      BY <2>7, <2>1, <2>5, <1>8, <1>11
    <3>3. Least(new) = prev.first + (prev.fails + 1 - 1) * (Interval - MaxBusy)
      BY <3>2, <2>2, <1>0 DEF Least
    <3>4. (prev.fails + 1 - 1) * (Interval - MaxBusy)
             = (prev.fails - 1) * (Interval - MaxBusy) + (Interval - MaxBusy)
      BY <2>2, <1>0, OneMoreGap
    <3>5. (prev.fails - 1) * (Interval - MaxBusy) \in Int
      BY <2>2, <1>0
    <3>6. Least(new) = Least(prev) + (Interval - MaxBusy)
      BY <3>3, <3>4, <3>5, <2>2, <1>0 DEF Least
    <3>7. Least(new) <= t
      BY <3>6, <3>1, <2>3, <2>4, <2>2, <1>0
    <3> QED BY <3>6, <3>7, <2>3, <1>0 DEF Fresh
  <2> QED BY <2>6, <2>7
<1> QED BY <1>12, <1>13

\* Time only helps.
LEMMA SpacedLater ==
    ASSUME NEW row \in Row \cup {NoRow}, NEW n \in Int, Spaced(row, n)
    PROVE  Spaced(row, n + 1)
<1>1. Interval \in Nat /\ MaxBusy \in Nat /\ Never \notin Int
  BY DeadLinksAssumption
<1>2. CASE row # NoRow /\ row.fails > 0
  <2>1. row.first \in Int /\ row.fails \in Nat
    BY <1>2, <1>1 DEF Row
  <2>2. Least(row) \in Int
    BY <2>1, <1>1 DEF Least
  <2> QED BY <1>2, <2>2 DEF Spaced
<1> QED BY <1>2 DEF Spaced

\* Setting the flag of a row keeps row and spacing.
LEMMA FlagSpaced ==
    ASSUME NEW row \in Row, NEW n \in Int, Spaced(row, n), NEW b \in BOOLEAN
    PROVE  [row EXCEPT !.ignored = b] \in Row
           /\ Spaced([row EXCEPT !.ignored = b], n)
<1> DEFINE new == [row EXCEPT !.ignored = b]
<1>1. new = [class |-> row.class, fails |-> row.fails, first |-> row.first,
             checked |-> row.checked, ignored |-> b]
  BY DEF Row
<1>2. new \in Row
  BY <1>1 DEF Row
<1>3. Least(new) = Least(row)
  BY <1>1 DEF Least
<1> HIDE DEF new
<1>4. Spaced(new, n)
  BY <1>1, <1>3, NoRowAssumption DEF Spaced
<1> QED BY <1>2, <1>4 DEF new

-----------------------------------------------------------------------------

(***************************************************************************)
(* The invariant.  NotHasty is not inductive: a row in the table was       *)
(* computed from one that a writer held, and from the time it held on to.  *)
(***************************************************************************)
MiscInv ==
    /\ now \in Nat /\ due \in Nat /\ events \in Nat
    /\ content \in [Pages -> (SUBSET Urls) \cup {Gone}]
    /\ refs \in [Pages -> SUBSET Urls]
    /\ running \in BOOLEAN
    /\ passes \in [Urls -> Nat]

CheckInv ==
    /\ check \in [Urls -> Row \cup {NoRow}]
    /\ \A u \in Urls : Spaced(check[u], now)

ScanOk(r) ==
    /\ r \in Scan
    /\ r.pc # "idle" => Fresh(r.started, now)
    /\ \A h \in r.held : Spaced(h.prev, now)

RecheckOk(r) ==
    /\ r \in Recheck
    /\ r.held # {} => Fresh(r.started, now)
    /\ \A h \in r.held : Spaced(h.prev, now)

ScanInv == /\ scan \in [Scans -> Scan]
           /\ \A s \in Scans : ScanOk(scan[s])

RecheckInv == /\ recheck \in [Recheckers -> Recheck]
              /\ \A q \in Recheckers : RecheckOk(recheck[q])

IInv == MiscInv /\ CheckInv /\ ScanInv /\ RecheckInv

\* The invariant's first half is the type invariant.
LEMMA IInvTypes == IInv => TypeOK
BY DEF IInv, MiscInv, CheckInv, ScanInv, RecheckInv, TypeOK

\* Tasks at rest are in order at any time.
LEMMA IdleOk == ScanOk(IdleScan) /\ RecheckOk(IdleRecheck)
BY DEF ScanOk, RecheckOk, IdleScan, IdleRecheck, Scan, ScanPc, Recheck

\* A task replaced by one in order leaves all of them in order.
LEMMA OneScan ==
    ASSUME ScanInv, now' = now, NEW s \in Scans, NEW r, ScanOk(r), SetScan(s, r)
    PROVE  ScanInv'
BY DEF ScanInv, ScanOk, SetScan

LEMMA OneRecheckOk ==
    ASSUME RecheckInv, now' = now, NEW q \in Recheckers, NEW r, RecheckOk(r),
           recheck' = [recheck EXCEPT ![q] = r]
    PROVE  RecheckInv'
BY DEF RecheckInv, RecheckOk

\* A row written by record is in order.
LEMMA OneRow ==
    ASSUME IInv, now' = now, NEW h \in Held, NEW t \in Int, Fresh(t, now),
           Spaced(h.prev, now),
           check' = [check EXCEPT ![h.url] = NextState(h.prev, h.class, t)]
    PROVE  CheckInv'
<1> DEFINE new == NextState(h.prev, h.class, t)
<1>1. now \in Int /\ h.prev \in Row \cup {NoRow} /\ h.class \in Classes /\ h.url \in Urls
  BY DEF IInv, MiscInv, Held
<1>2. new \in Row /\ Spaced(new, now)
  BY <1>1, NextStateSpaced
<1> HIDE DEF new
<1>3. check' = [check EXCEPT ![h.url] = new]
  BY DEF new
<1> QED BY <1>1, <1>2, <1>3 DEF IInv, CheckInv

\* Everything starts in order.
LEMMA InitInv == Init => IInv
<1>1. Init => MiscInv
  <2>1. Init => running \in BOOLEAN
    BY DEF Init
  <2>2. ASSUME Init
        PROVE  /\ now \in Nat /\ due \in Nat /\ events \in Nat
               /\ content \in [Pages -> (SUBSET Urls) \cup {Gone}]
               /\ refs \in [Pages -> SUBSET Urls]
               /\ passes \in [Urls -> Nat]
    BY <2>2 DEF Init
  <2> QED BY <2>1, <2>2 DEF MiscInv
<1>3. Init => CheckInv
  BY DEF Init, CheckInv, Spaced
<1>2. Init => ScanInv /\ RecheckInv
  BY IdleOk DEF Init, ScanInv, RecheckInv, ScanOk, RecheckOk
<1> QED BY <1>1, <1>2, <1>3 DEF IInv

\* Every step of a pass keeps the invariant.
LEMMA ScanStepInv ==
    ASSUME IInv, NEW s \in Scans, Begin(s) \/ ScanStep(s) \/ Fail(s)
    PROVE  IInv'
<1>0. /\ MiscInv /\ CheckInv /\ ScanInv /\ RecheckInv
      /\ scan[s] \in Scan /\ ScanOk(scan[s])
      /\ Day \in Nat /\ MaxBusy \in Nat /\ now \in Nat /\ check \in [Urls -> Row \cup {NoRow}]
  BY DeadLinksAssumption DEF IInv, ScanInv, MiscInv, CheckInv
<1>1. CASE Begin(s)
  <2>1. now' = now /\ check' = check /\ recheck' = recheck
    BY <1>1 DEF Begin
  <2>2. MiscInv'
    BY <1>0, <1>1 DEF MiscInv, Begin, Event
  <2>3. CASE running
    BY <1>0, <1>1, <2>1, <2>2, <2>3 DEF Begin, IInv, CheckInv, ScanInv, ScanOk, RecheckInv, RecheckOk
  <2>4. CASE ~running
    <3> DEFINE r == [IdleScan EXCEPT !.pc = "read", !.started = now,
                                     !.unread = Pages]
    <3>1. SetScan(s, r)
      BY <1>1, <2>4 DEF Begin
    <3>2. ScanOk(r)
      <4>1. r \in Scan
        <5>1. IdleScan \in Scan
          BY IdleOk DEF ScanOk
        <5>2. now \in Int /\ Pages \in SUBSET Pages /\ "read" \in ScanPc
          BY <1>0 DEF ScanPc
        <5> QED BY <5>1, <5>2 DEF Scan
      <4>2. r.started = now /\ r.held = {}
        BY DEF IdleScan
      <4> QED BY <1>0, <4>1, <4>2 DEF ScanOk, Fresh
    <3> HIDE DEF r
    <3>3. ScanInv'
      BY <1>0, <2>1, <3>1, <3>2, OneScan
    <3> QED BY <1>0, <2>1, <2>2, <3>3 DEF IInv, CheckInv, RecheckInv, RecheckOk
  <2> QED BY <2>3, <2>4
<1>2. CASE ReadPage(s)
  <2>1. PICK p \in scan[s].unread :
           SetScan(s, [scan[s] EXCEPT
              !.unread = @ \ {p},
              !.seen = IF content[p] = Gone THEN @
                       ELSE @ \cup {[page |-> p, urls |-> content[p]]},
              !.pc = IF scan[s].unread = {p} THEN "refs" ELSE "read"])
    BY <1>2 DEF ReadPage
  <2> DEFINE seen == IF content[p] = Gone THEN scan[s].seen
                     ELSE scan[s].seen \cup {[page |-> p, urls |-> content[p]]}
             pc == IF scan[s].unread = {p} THEN "refs" ELSE "read"
  <2>2. seen \in SUBSET Seen /\ pc \in ScanPc
    <3>1. p \in Pages /\ scan[s].seen \in SUBSET Seen
      BY <1>0 DEF Scan
    <3>2. content[p] # Gone => [page |-> p, urls |-> content[p]] \in Seen
      BY <3>1, <1>0 DEF Seen, MiscInv
    <3> QED BY <3>1, <3>2 DEF ScanPc
  <2>5. SetScan(s, [scan[s] EXCEPT !.unread = @ \ {p}, !.seen = seen, !.pc = pc])
    BY <2>1
  <2> HIDE DEF seen, pc
  <2> DEFINE r == [scan[s] EXCEPT !.unread = @ \ {p}, !.seen = seen, !.pc = pc]
  <2>3. ScanOk(r)
    <3>1. r \in Scan /\ r.started = scan[s].started /\ r.held = scan[s].held
      BY <1>0, <2>2 DEF Scan
    <3> QED BY <1>0, <1>2, <3>1 DEF ScanOk, ReadPage
  <2> HIDE DEF r
  <2>4. ScanInv'
    BY <1>0, <1>2, <2>5, <2>3, OneScan DEF ReadPage, r
  <2> QED BY <1>0, <1>2, <2>4 DEF ReadPage, IInv, MiscInv, CheckInv, RecheckInv, RecheckOk
<1>3. CASE ReplaceRefs(s)
  <2>1. PICK v \in scan[s].seen :
           /\ refs' = [refs EXCEPT ![v.page] = v.urls]
           /\ SetScan(s, [scan[s] EXCEPT !.seen = @ \ {v}, !.todo = @ \cup v.urls])
    BY <1>3 DEF ReplaceRefs
  <2>2. v \in Seen /\ v.urls \subseteq Urls /\ v.page \in Pages
    BY <2>1, <1>0 DEF Scan, Seen
  <2> DEFINE r == [scan[s] EXCEPT !.seen = @ \ {v}, !.todo = @ \cup v.urls]
  <2>3. ScanOk(r)
    BY <1>0, <2>2 DEF ScanOk, Scan
  <2> HIDE DEF r
  <2>4. ScanInv'
    BY <1>0, <1>3, <2>1, <2>3, OneScan DEF ReplaceRefs, r
  <2> QED BY <1>0, <1>3, <2>1, <2>2, <2>4
       DEF ReplaceRefs, IInv, MiscInv, CheckInv, RecheckInv, RecheckOk
<1>4. CASE StartChecks(s)
  <2> DEFINE r == [scan[s] EXCEPT !.pc = "check"]
  <2>1. ScanOk(r)
    BY <1>0, <1>4 DEF ScanOk, Scan, ScanPc, StartChecks
  <2> HIDE DEF r
  <2>2. ScanInv'
    BY <1>0, <1>4, <2>1, OneScan DEF StartChecks, r
  <2> QED BY <1>0, <1>4, <2>2 DEF StartChecks, IInv, MiscInv, CheckInv, RecheckInv, RecheckOk
<1>5. CASE ReadPrev(s)
  <2>1. PICK u \in scan[s].todo, c \in Classes :
           SetScan(s, [scan[s] EXCEPT !.todo = @ \ {u},
              !.held = @ \cup {[url |-> u, class |-> c, prev |-> check[u]]}])
    BY <1>5 DEF ReadPrev
  <2> DEFINE h == [url |-> u, class |-> c, prev |-> check[u]]
             r == [scan[s] EXCEPT !.todo = @ \ {u}, !.held = @ \cup {h}]
  <2>2. h \in Held /\ Spaced(h.prev, now)
    BY <2>1, <1>0 DEF Held, Scan, CheckInv
  <2>3. SetScan(s, r)
    BY <2>1
  <2> HIDE DEF h
  <2>4. ScanOk(r)
    BY <1>0, <2>2 DEF ScanOk, Scan
  <2> HIDE DEF r
  <2>5. ScanInv'
    BY <1>0, <1>5, <2>3, <2>4, OneScan DEF ReadPrev
  <2> QED BY <1>0, <1>5, <2>5 DEF ReadPrev, IInv, MiscInv, CheckInv, RecheckInv, RecheckOk
<1>6. CASE Record(s)
  <2>1. PICK h \in scan[s].held :
           /\ check' = [check EXCEPT ![h.url] =
                           NextState(h.prev, h.class, scan[s].started)]
           /\ passes' = [passes EXCEPT ![h.url] =
                           IF s = Timer /\ h.class \in Failures THEN @ + 1 ELSE 0]
           /\ SetScan(s, [scan[s] EXCEPT !.held = @ \ {h}])
    BY <1>6 DEF Record
  <2>2. h \in Held /\ Spaced(h.prev, now) /\ h.url \in Urls
    BY <2>1, <1>0 DEF Scan, ScanOk, Held
  <2>3. scan[s].started \in Int /\ Fresh(scan[s].started, now) /\ now' = now
    BY <1>0, <1>6 DEF Scan, ScanOk, Record
  <2>4. CheckInv'
    BY <2>1, <2>2, <2>3, OneRow
  <2> DEFINE r == [scan[s] EXCEPT !.held = @ \ {h}]
  <2>5. ScanOk(r)
    BY <1>0 DEF ScanOk, Scan
  <2> HIDE DEF r
  <2>6. ScanInv'
    BY <1>0, <2>1, <2>3, <2>5, OneScan DEF r
  <2>7. passes' \in [Urls -> Nat]
    BY <2>1, <2>2, <1>0 DEF MiscInv
  <2> QED BY <1>0, <1>6, <2>4, <2>6, <2>7 DEF Record, IInv, MiscInv, RecheckInv, RecheckOk
<1>7. CASE PruneAndFinish(s)
  <2>1. ScanInv'
    BY <1>0, <1>7, IdleOk, OneScan DEF PruneAndFinish
  <2>2. CheckInv'
    BY <1>0, <1>7 DEF PruneAndFinish, CheckInv, Spaced
  <2>3. passes' \in [Urls -> Nat]
    BY <1>0, <1>7 DEF PruneAndFinish, MiscInv
  <2> QED BY <1>0, <1>7, <2>1, <2>2, <2>3 DEF PruneAndFinish, IInv, MiscInv, RecheckInv, RecheckOk
<1>8. CASE Fail(s)
  <2>1. ScanInv'
    BY <1>0, <1>8, IdleOk, OneScan DEF Fail
  <2>2. MiscInv'
    <3>1. events' \in Nat
      BY <1>0, <1>8 DEF Fail, Event, MiscInv
    <3>2. running' \in BOOLEAN
      BY <1>8 DEF Fail
    <3> QED BY <1>0, <1>8, <3>1, <3>2 DEF Fail, MiscInv
  <2>3. now' = now /\ check' = check /\ recheck' = recheck
    BY <1>8 DEF Fail
  <2> QED BY <1>0, <2>1, <2>2, <2>3 DEF IInv, CheckInv, RecheckInv, RecheckOk
<1> QED BY <1>1, <1>2, <1>3, <1>4, <1>5, <1>6, <1>7, <1>8 DEF ScanStep

\* So do the admin's requests, the clock and a restart.
LEMMA OtherStepInv ==
    ASSUME IInv,
           \/ \E q \in Recheckers, u \in Urls, c \in Classes : RecheckRead(q, u, c)
           \/ \E q \in Recheckers : RecheckRecord(q)
           \/ \E u \in Urls, b \in BOOLEAN : SetIgnored(u, b)
           \/ \E p \in Pages, urls \in (SUBSET Urls) \cup {Gone} : EditPage(p, urls)
           \/ Tick
           \/ Crash
    PROVE  IInv'
<1>0. /\ MiscInv /\ CheckInv /\ ScanInv /\ RecheckInv
      /\ MaxBusy \in Nat /\ now \in Nat
  BY DeadLinksAssumption DEF IInv, MiscInv
<1>1. ASSUME NEW q \in Recheckers, NEW u \in Urls, NEW c \in Classes,
             RecheckRead(q, u, c)
      PROVE  IInv'
  <2>1. PICK t \in (now - MaxBusy)..now :
          recheck' = [recheck EXCEPT ![q] = [started |-> t,
                        held |-> {[url |-> u, class |-> c, prev |-> check[u]]}]]
    BY <1>1 DEF RecheckRead
  <2> DEFINE h == [url |-> u, class |-> c, prev |-> check[u]]
             r == [started |-> t, held |-> {h}]
  <2>2. h \in Held /\ Spaced(h.prev, now)
    BY <1>0 DEF Held, CheckInv
  <2>3. recheck' = [recheck EXCEPT ![q] = r]
    BY <2>1
  <2> HIDE DEF h
  <2>4. RecheckOk(r)
    BY <1>0, <2>2 DEF RecheckOk, Recheck, Fresh
  <2> HIDE DEF r
  <2>5. RecheckInv'
    BY <1>0, <1>1, <2>3, <2>4, OneRecheckOk DEF RecheckRead
  <2> QED BY <1>0, <1>1, <2>5 DEF RecheckRead, Event, IInv, MiscInv, CheckInv, ScanInv, ScanOk
<1>2. ASSUME NEW q \in Recheckers, RecheckRecord(q)
      PROVE  IInv'
  <2>1. PICK h \in recheck[q].held :
           /\ check' = [check EXCEPT ![h.url] =
                           NextState(h.prev, h.class, recheck[q].started)]
           /\ passes' = [passes EXCEPT ![h.url] = 0]
    BY <1>2 DEF RecheckRecord
  <2>2. /\ h \in Held /\ Spaced(h.prev, now) /\ h.url \in Urls
        /\ recheck[q].started \in Int /\ Fresh(recheck[q].started, now)
    BY <2>1, <1>0 DEF RecheckInv, RecheckOk, Recheck, Held
  <2>3. now' = now
    BY <1>2 DEF RecheckRecord
  <2>4. CheckInv'
    BY <2>1, <2>2, <2>3, OneRow
  <2>5. RecheckInv'
    BY <1>0, <1>2, <2>3, IdleOk, OneRecheckOk DEF RecheckRecord
  <2> QED BY <1>0, <1>2, <2>1, <2>4, <2>5 DEF RecheckRecord, IInv, MiscInv, ScanInv, ScanOk
<1>3. ASSUME NEW u \in Urls, NEW b \in BOOLEAN, SetIgnored(u, b)
      PROVE  IInv'
  <2>1. check[u] \in Row /\ Spaced(check[u], now)
    BY <1>0, <1>3 DEF SetIgnored, CheckInv
  <2> DEFINE new == [check[u] EXCEPT !.ignored = b]
  <2>2. new \in Row /\ Spaced(new, now)
    BY <1>0, <2>1, FlagSpaced
  <2>3. check' = [check EXCEPT ![u] = new]
    BY <1>3 DEF SetIgnored
  <2> HIDE DEF new
  <2>4. CheckInv'
    BY <1>0, <1>3, <2>2, <2>3 DEF CheckInv, SetIgnored
  <2> QED BY <1>0, <1>3, <2>4
       DEF SetIgnored, Event, IInv, MiscInv, ScanInv, ScanOk, RecheckInv, RecheckOk
<1>4. ASSUME NEW p \in Pages, NEW urls \in (SUBSET Urls) \cup {Gone}, EditPage(p, urls)
      PROVE  IInv'
  <2>1. MiscInv'
    BY <1>0, <1>4 DEF EditPage, Event, MiscInv
  <2> QED BY <1>0, <1>4, <2>1
       DEF EditPage, IInv, CheckInv, ScanInv, ScanOk, RecheckInv, RecheckOk
<1>5. CASE Tick
  <2>1. now' = now + 1
    BY <1>5 DEF Tick
  <2>2. CheckInv'
    BY <1>0, <1>5, <2>1, SpacedLater DEF CheckInv, Tick
  <2>3. ScanInv'
    <3>1. SUFFICES ASSUME NEW s \in Scans PROVE ScanOk(scan[s])'
      BY <1>0, <1>5 DEF ScanInv, Tick
    <3>2. scan[s] \in Scan /\ ScanOk(scan[s])
      BY <1>0 DEF ScanInv
    <3>3. \A h \in scan[s].held : Spaced(h.prev, now + 1)
      BY <1>0, <3>2, SpacedLater DEF ScanOk, Scan, Held
    <3>4. scan[s].pc # "idle" => Fresh(scan[s].started, now + 1)
      BY <1>0, <1>5, <3>2 DEF ScanOk, Scan, Fresh, Tick
    <3> QED BY <1>5, <2>1, <3>2, <3>3, <3>4 DEF ScanOk, Tick
  <2>4. RecheckInv'
    <3>1. SUFFICES ASSUME NEW q \in Recheckers PROVE RecheckOk(recheck[q])'
      BY <1>0, <1>5 DEF RecheckInv, Tick
    <3>2. recheck[q] \in Recheck /\ RecheckOk(recheck[q])
      BY <1>0 DEF RecheckInv
    <3>3. \A h \in recheck[q].held : Spaced(h.prev, now + 1)
      BY <1>0, <3>2, SpacedLater DEF RecheckOk, Recheck, Held
    <3>4. recheck[q].held # {} => Fresh(recheck[q].started, now + 1)
      BY <1>0, <1>5, <3>2 DEF RecheckOk, Recheck, Fresh, Tick
    <3> QED BY <1>5, <2>1, <3>2, <3>3, <3>4 DEF RecheckOk, Tick
  <2> QED BY <1>0, <1>5, <2>2, <2>3, <2>4 DEF Tick, IInv, MiscInv
<1>6. CASE Crash
  <2>1. ScanInv' /\ RecheckInv'
    <3>1. /\ scan' = [s \in Scans |-> IdleScan]
          /\ recheck' = [q \in Recheckers |-> IdleRecheck]
          /\ now' = now
      BY <1>6 DEF Crash
    <3> QED BY <3>1, IdleOk DEF ScanInv, RecheckInv, ScanOk, RecheckOk
  <2>2. MiscInv'
    <3>1. /\ events' \in Nat /\ now' \in Nat /\ due' \in Nat
          /\ passes' \in [Urls -> Nat]
      BY <1>0, <1>6 DEF Crash, Event, MiscInv
    <3>2. running' \in BOOLEAN
      BY <1>6 DEF Crash
    <3> QED BY <1>0, <1>6, <3>1, <3>2 DEF Crash, MiscInv
  <2> QED BY <1>0, <1>6, <2>1, <2>2 DEF Crash, IInv, CheckInv
<1> QED BY <1>1, <1>2, <1>3, <1>4, <1>5, <1>6

\* Steps that change nothing.
LEMMA StutterInv == IInv /\ UNCHANGED vars => IInv'
BY DEF vars, IInv, MiscInv, CheckInv, ScanInv, ScanOk, RecheckInv, RecheckOk

\* The invariant is inductive.
LEMMA StepInv == IInv /\ [Next]_vars => IInv'
BY ScanStepInv, OtherStepInv, StutterInv DEF Next

LEMMA Always == Spec => []IInv
<1>1. Init => IInv
  BY InitInv
<1>2. IInv /\ [Next]_vars => IInv'
  BY StepInv
<1> QED BY <1>1, <1>2, PTL DEF Spec

\* The tables, the slot and what is in flight keep their types, and a row has
\* a streak exactly when it has the time the streak began (next_state).
THEOREM TypeCorrect == Spec => []TypeOK
<1>1. IInv => TypeOK
  BY IInvTypes
<1> QED BY <1>1, Always, PTL

\* "N failures" means N daily passes: N failures in a row's streak take N - 1
\* intervals, less what its writers held on to their clock, whatever passes,
\* re-checks, stale rows, dismissals and restarts did to it.
THEOREM StreakTakesDays == Spec => []NotHasty
<1>1. IInv => NotHasty
  BY DEF IInv, CheckInv, Spaced, Least, NotHasty
<1> QED BY <1>1, Always, PTL

-----------------------------------------------------------------------------

Busy(s) == scan[s].pc # "idle"

\* The slot across the steps of a pass.
LEMMA SlotScanStep ==
    ASSUME ScanInv, SlotTells, NEW s \in Scans, Begin(s) \/ ScanStep(s) \/ Fail(s)
    PROVE  SlotTells'
<1>0. scan \in [Scans -> Scan] /\ scan[s] \in Scan
  BY DEF ScanInv
<1>1. CASE Begin(s) /\ running
  BY <1>1 DEF Begin, SlotTells
<1>2. CASE Begin(s) /\ ~running
  <2>1. running' /\ Busy(s)' /\ \A t \in Scans \ {s} : ~Busy(t)'
    BY <1>0, <1>2 DEF Begin, SetScan, SlotTells, Busy, IdleScan
  <2> QED BY <2>1 DEF SlotTells, Busy
<1>3. CASE ScanStep(s) /\ ~PruneAndFinish(s)
  <2>1. /\ Busy(s) /\ Busy(s)' /\ running' = running
        /\ \A t \in Scans \ {s} : scan'[t] = scan[t]
    <3>1. CASE ReadPage(s)
      BY <1>0, <3>1 DEF ReadPage, SetScan, Busy, Scan
    <3>2. CASE ReplaceRefs(s) \/ StartChecks(s)
      BY <1>0, <3>2 DEF ReplaceRefs, StartChecks, SetScan, Busy, Scan
    <3>3. CASE ReadPrev(s)
      BY <1>0, <3>3 DEF ReadPrev, SetScan, Busy, Scan
    <3>4. CASE Record(s)
      <4>1. PICK h \in scan[s].held :
              scan' = [scan EXCEPT ![s] = [scan[s] EXCEPT !.held = @ \ {h}]]
        BY <3>4 DEF Record, SetScan
      <4>2. scan'[s].pc = scan[s].pc
        BY <1>0, <4>1 DEF Scan
      <4> QED BY <1>0, <3>4, <4>1, <4>2 DEF Record, Busy
    <3> QED BY <1>3, <3>1, <3>2, <3>3, <3>4 DEF ScanStep
  <2> QED BY <2>1 DEF SlotTells, Busy
<1>4. CASE PruneAndFinish(s) \/ Fail(s)
  <2>1. /\ Busy(s) /\ ~Busy(s)' /\ running' = FALSE
        /\ \A t \in Scans \ {s} : scan'[t] = scan[t]
    BY <1>0, <1>4 DEF PruneAndFinish, Fail, SetScan, Busy, IdleScan
  <2> QED BY <2>1 DEF SlotTells, Busy
<1> QED BY <1>1, <1>2, <1>3, <1>4

\* The single-flight slot is taken exactly while one pass runs: failed passes
\* release it, refused triggers and restarts leave no second pass behind.
THEOREM OnePassAtATime == Spec => []SlotTells
<1>1. Init => SlotTells
  BY DEF Init, SlotTells, IdleScan
<1>2. ASSUME IInv, SlotTells, [Next]_vars PROVE SlotTells'
  <2>1. CASE \E s \in Scans : Begin(s) \/ ScanStep(s) \/ Fail(s)
    BY <1>2, <2>1, SlotScanStep DEF IInv
  <2>2. CASE Crash
    BY <2>2 DEF Crash, SlotTells, IdleScan
  <2>3. CASE scan' = scan /\ running' = running
    BY <1>2, <2>3 DEF SlotTells
  <2> QED BY <1>2, <2>1, <2>2, <2>3
       DEF Next, vars, RecheckRead, RecheckRecord, SetIgnored, EditPage, Tick
<1> QED BY <1>1, <1>2, Always, PTL DEF Spec

-----------------------------------------------------------------------------

\* A computed row carries the flag of the row it was computed from.
LEMMA FlagCarried ==
    ASSUME NEW prev \in Row, NEW class, NEW t
    PROVE  NextState(prev, class, t).ignored = prev.ignored
<1>1. Dismissed(prev) = prev.ignored
  BY NoRowAssumption DEF Dismissed, Row
<1> QED BY <1>1 DEF NextState

\* A dismissal, or its withdrawal, is undone only by a pass or a re-check
\* that holds an outdated row: with record in one statement it would stand.
THEOREM DismissalsStand == Spec => DismissLostOnlyByStaleRow
<1> DEFINE Excused(u) == \/ scan' = scan /\ recheck' = recheck
                         \/ \E s \in Scans : Stale(u, scan[s].held)
                         \/ \E q \in Recheckers : Stale(u, recheck[q].held)
           Stands == \A u \in Urls : check[u] # NoRow /\ check'[u] # NoRow
                         /\ check'[u].ignored # check[u].ignored => Excused(u)
<1>1. IInv /\ [Next]_vars => [Stands]_check
  <2> SUFFICES ASSUME IInv, [Next]_vars, check' # check, NEW u \in Urls,
                      check[u] # NoRow, check'[u] # NoRow,
                      check'[u].ignored # check[u].ignored
               PROVE  Excused(u)
    OBVIOUS
  <2>0. check \in [Urls -> Row \cup {NoRow}]
    BY IInvTypes DEF TypeOK
  <2>h. ASSUME NEW held, NEW h \in held, NEW t,
               check' = [check EXCEPT ![h.url] = NextState(h.prev, h.class, t)]
        PROVE  Stale(u, held)
    <3>1. h.url = u
      BY <2>0, <2>h
    <3>2. ~(h.prev = check[u])
      BY <2>0, <2>h, <3>1, FlagCarried
    <3> QED BY <3>1, <3>2 DEF Stale
  <2>1. ASSUME NEW s \in Scans, Record(s) PROVE Excused(u)
    <3>1. PICK h \in scan[s].held :
            check' = [check EXCEPT ![h.url] = NextState(h.prev, h.class, scan[s].started)]
      BY <2>1 DEF Record
    <3> QED BY <2>h, <3>1
  <2>2. ASSUME NEW q \in Recheckers, RecheckRecord(q) PROVE Excused(u)
    BY <2>2, <2>h DEF RecheckRecord
  <2>3. ASSUME NEW s \in Scans, PruneAndFinish(s) PROVE FALSE
    BY <2>3 DEF PruneAndFinish
  <2>4. \/ check' = check
        \/ scan' = scan /\ recheck' = recheck
        \/ \E s \in Scans : Record(s) \/ PruneAndFinish(s)
        \/ \E q \in Recheckers : RecheckRecord(q)
    BY DEF Next, vars, Begin, ScanStep, ReadPage, ReplaceRefs, StartChecks, ReadPrev,
       Fail, RecheckRead, SetIgnored, EditPage, Tick, Crash
  <2> QED BY <2>1, <2>2, <2>3, <2>4
<1> QED BY <1>1, Always, PTL DEF Spec, DismissLostOnlyByStaleRow

-----------------------------------------------------------------------------

(***************************************************************************)
(* A dead link is confirmed in time.  SignalConfirmed is about verdicts    *)
(* that are yet to be written too: a verdict the timer holds was computed  *)
(* from a row that nobody has moved since, or its streak is broken.        *)
(***************************************************************************)
\* The timer's pass holds a verdict on each of its urls once.
OneVerdict ==
    /\ scan[Timer].pc # "check" => scan[Timer].held = {}
    /\ \A h \in scan[Timer].held :
         h.url \notin scan[Timer].todo /\ \A g \in scan[Timer].held : g.url = h.url => g = h

\* The timer is at most MaxBusy late.
Prompt ==
    IF scan[Timer].pc = "idle" THEN now <= due + MaxBusy
                               ELSE scan[Timer].started + Day <= due + MaxBusy

\* A verdict the timer holds was computed from a row with this streak.
From(h, row) == h.prev # NoRow /\ h.prev.fails = row.fails /\ h.prev.checked = row.checked

\* The passes that failed in a row are all counted; the timer is through with
\* the url, or its pass began an interval after the last.
Streak(u) ==
    passes[u] > 0 =>
      /\ check[u] # NoRow /\ check[u].fails >= passes[u]
      /\ check[u].checked + Day <= due + MaxBusy
      /\ \/ scan[Timer].pc = "idle"
         \/ /\ scan[Timer].pc = "check" /\ u \notin scan[Timer].todo
            /\ \A h \in scan[Timer].held : h.url # u
         \/ /\ scan[Timer].started >= check[u].checked + Interval
            /\ \A h \in scan[Timer].held : h.url = u => From(h, check[u])

SInv == OneVerdict /\ Prompt /\ \A u \in Urls : Streak(u)

LEMMA SignalTypes ==
    ASSUME IInv
    PROVE  /\ Timer \in Scans /\ scan[Timer] \in Scan /\ scan[Timer].started \in Int
           /\ scan \in [Scans -> Scan] /\ now \in Nat /\ due \in Nat
           /\ {Interval, Day, MaxBusy, Confirm} \subseteq Nat /\ MaxBusy + Interval <= Day /\ Confirm > 0
           /\ check \in [Urls -> Row \cup {NoRow}] /\ passes \in [Urls -> Nat]
           /\ \A u \in Urls : check[u] # NoRow => check[u].fails \in Nat /\ check[u].checked \in Int
           /\ scan[Timer].pc # "idle" => now <= scan[Timer].started + MaxBusy
           /\ scan[Timer].held \subseteq Held /\ scan[Timer].todo \subseteq Urls
BY DeadLinksAssumption DEF IInv, MiscInv, CheckInv, ScanInv, ScanOk, Scan, Row, Fresh

LEMMA SignalStarts == Init => SInv
BY DeadLinksAssumption DEF Init, SInv, OneVerdict, Prompt, Streak, IdleScan

Keeps(u) ==
    \/ passes'[u] = 0
    \/ /\ passes'[u] = passes[u]
       /\ check'[u].fails = check[u].fails /\ check'[u].checked = check[u].checked
       /\ check[u] # NoRow => check'[u] # NoRow

\* The timer does nothing, and a url keeps its streak or loses its passes.
LEMMA OthersAct ==
    ASSUME IInv, SInv, scan'[Timer] = scan[Timer], UNCHANGED <<now, due>>,
           \A u \in Urls : Keeps(u)
    PROVE  SInv'
<1>1. OneVerdict' /\ Prompt'
  BY DEF SInv, OneVerdict, Prompt
<1>2. ASSUME NEW u \in Urls PROVE Streak(u)'
  BY SignalTypes DEF SInv, Streak, From, Keeps
<1> QED BY <1>1, <1>2 DEF SInv

\* The timer goes on, and writes nothing.
LEMMA TimerActs ==
    ASSUME IInv, SInv, UNCHANGED <<now, due, check, passes>>, OneVerdict',
           scan[Timer].pc # "idle", scan'[Timer].pc # "idle",
           scan'[Timer].started = scan[Timer].started,
           scan[Timer].pc = "check" => scan'[Timer].pc = "check" /\ scan'[Timer].todo \subseteq scan[Timer].todo,
           \A h \in scan'[Timer].held :
             h \in scan[Timer].held \/ (h.url \in scan[Timer].todo /\ h.prev = check[h.url])
    PROVE  SInv'
<1>1. Prompt'
  BY DEF SInv, Prompt
<1>2. ASSUME NEW u \in Urls PROVE Streak(u)'
  <2>1. SUFFICES ASSUME passes[u] > 0 PROVE Streak(u)'
    BY DEF Streak
  <2>2. Streak(u)
    BY DEF SInv
  <2>3. CASE /\ scan[Timer].pc = "check" /\ u \notin scan[Timer].todo
             /\ \A h \in scan[Timer].held : h.url # u
    BY <2>1, <2>2, <2>3 DEF Streak
  <2>4. CASE /\ scan[Timer].started >= check[u].checked + Interval
             /\ \A h \in scan[Timer].held : h.url = u => From(h, check[u])
    BY <2>1, <2>2, <2>4 DEF Streak, From
  <2> QED BY <2>1, <2>2, <2>3, <2>4 DEF Streak
<1> QED BY <1>1, <1>2 DEF SInv

\* The timer is done, or was stopped.
LEMMA TimerRests ==
    ASSUME IInv, SInv, scan[Timer].pc # "idle", scan'[Timer] = IdleScan, UNCHANGED <<now, due>>,
           \A u \in Urls : passes'[u] = 0 \/ (passes'[u] = passes[u] /\ check'[u] = check[u])
    PROVE  SInv'
<1>1. scan'[Timer].pc = "idle" /\ scan'[Timer].held = {}
  BY DEF IdleScan
<1>2. OneVerdict'
  BY <1>1 DEF OneVerdict
<1>3. Prompt'
  BY <1>1, SignalTypes DEF SInv, Prompt
<1>4. ASSUME NEW u \in Urls PROVE Streak(u)'
  BY <1>1, SignalTypes DEF SInv, Streak
<1> QED BY <1>2, <1>3, <1>4 DEF SInv

LEMMA TimerBegins == ASSUME IInv, SInv, Begin(Timer) PROVE SInv'
<1>1. /\ scan[Timer].pc = "idle" /\ now >= due /\ due' = due + Day
      /\ UNCHANGED <<now, check, passes>>
  BY DEF Begin
<1>2. CASE running
  <2>1. scan' = scan
    BY <1>2 DEF Begin
  <2>2. OneVerdict' /\ Prompt'
    BY <1>1, <2>1, SignalTypes DEF SInv, OneVerdict, Prompt
  <2>3. ASSUME NEW u \in Urls PROVE Streak(u)'
    BY <1>1, <2>1, SignalTypes DEF SInv, Streak
  <2> QED BY <2>2, <2>3 DEF SInv
<1>3. CASE ~running
  <2>1. scan'[Timer].pc = "read" /\ scan'[Timer].started = now /\ scan'[Timer].held = {}
    BY <1>3, SignalTypes DEF Begin, SetScan, IdleScan
  <2>2. OneVerdict'
    BY <2>1 DEF OneVerdict
  <2>3. Prompt'
    BY <1>1, <2>1, SignalTypes DEF SInv, Prompt
  <2>4. ASSUME NEW u \in Urls PROVE Streak(u)'
    BY <1>1, <2>1, SignalTypes DEF SInv, Streak
  <2> QED BY <2>2, <2>3, <2>4 DEF SInv
<1> QED BY <1>2, <1>3

\* A failure an interval after a row was checked makes its streak one longer.
LEMMA OneLonger ==
    ASSUME NEW prev \in Row \cup {NoRow}, NEW class \in Failures, NEW t \in Int
    PROVE  /\ NextState(prev, class, t).checked = t
           /\ NextState(prev, class, t).fails >= 1
           /\ prev # NoRow /\ t >= prev.checked + Interval =>
                NextState(prev, class, t).fails = prev.fails + 1
<1>1. Interval \in Nat /\ class # "ok" /\ class \in Classes
  BY DeadLinksAssumption DEF Failures, Classes
<1>2. PICK n, ign, first :
        NextState(prev, class, t) = [class |-> class, fails |-> n, first |-> first, checked |-> t, ignored |-> ign]
        /\ n = LET fails == IF prev = NoRow THEN 0 ELSE prev.fails
               IN  IF Within(prev, t) /\ fails > 0 THEN fails ELSE fails + 1
  BY <1>1 DEF NextState
<1>3. /\ NextState(prev, class, t).fails = n /\ NextState(prev, class, t).checked = t
  BY <1>2
<1>4. prev # NoRow => prev.fails \in Nat /\ prev.checked \in Int
  BY DEF Row
<1>5. prev # NoRow /\ t >= prev.checked + Interval => ~Within(prev, t)
  BY <1>1, <1>4 DEF Within
<1> QED BY <1>2, <1>3, <1>4, <1>5

LEMMA TimerRecords == ASSUME IInv, SInv, Record(Timer) PROVE SInv'
<1>1. PICK h \in scan[Timer].held :
         /\ check' = [check EXCEPT ![h.url] = NextState(h.prev, h.class, scan[Timer].started)]
         /\ passes' = [passes EXCEPT ![h.url] = IF h.class \in Failures THEN @ + 1 ELSE 0]
         /\ SetScan(Timer, [scan[Timer] EXCEPT !.held = @ \ {h}])
  BY DEF Record
<1>2. scan[Timer].pc = "check" /\ UNCHANGED <<now, due>>
  BY DEF Record
<1>3. h \in Held /\ h.url \in Urls /\ h.class \in Classes /\ h.prev \in Row \cup {NoRow}
  BY <1>1, SignalTypes DEF Held
<1>4. /\ scan'[Timer].pc = "check" /\ scan'[Timer].started = scan[Timer].started
      /\ scan'[Timer].todo = scan[Timer].todo /\ scan'[Timer].held = scan[Timer].held \ {h}
  BY <1>1, <1>2, SignalTypes DEF SetScan, Scan
<1>5. OneVerdict' /\ Prompt'
  BY <1>2, <1>4 DEF SInv, OneVerdict, Prompt
<1>6. h.url \notin scan'[Timer].todo /\ \A g \in scan'[Timer].held : g.url # h.url
  BY <1>1, <1>4 DEF SInv, OneVerdict
<1>7. ASSUME NEW u \in Urls, u # h.url PROVE Streak(u)'
  <2>1. passes'[u] = passes[u] /\ check'[u] = check[u]
    BY <1>1, <1>7, SignalTypes
  <2> QED BY <2>1, <1>2, <1>4 DEF SInv, Streak, From
<1>8. Streak(h.url)'
  <2>1. CASE h.class \notin Failures
    BY <2>1, <1>1, <1>3, SignalTypes DEF Streak
  <2>2. CASE h.class \in Failures
    <3> DEFINE t == scan[Timer].started
               new == NextState(h.prev, h.class, t)
    <3>1. check'[h.url] = new /\ passes'[h.url] = passes[h.url] + 1
      BY <1>1, <1>3, <2>2, SignalTypes
    <3>2. new # NoRow
      <4>1. Spaced(h.prev, now) /\ Fresh(t, now)
        <5>1. ScanOk(scan[Timer])
          BY SignalTypes DEF IInv, ScanInv
        <5> QED BY <5>1, <1>1, <1>2 DEF ScanOk
      <4> QED BY <4>1, <1>3, SignalTypes, NextStateSpaced, NoRowAssumption
    <3>3. t \in Int /\ new.checked = t /\ new.fails >= 1
      BY <1>3, <2>2, SignalTypes, OneLonger
    <3>4. passes[h.url] > 0 => new.fails = check[h.url].fails + 1 /\ check[h.url].fails >= passes[h.url]
      <4>1. SUFFICES ASSUME passes[h.url] > 0
            PROVE  new.fails = check[h.url].fails + 1 /\ check[h.url].fails >= passes[h.url]
        OBVIOUS
      <4>2. /\ check[h.url].fails >= passes[h.url] /\ From(h, check[h.url])
            /\ t >= check[h.url].checked + Interval
        BY <4>1, <1>1, <1>2, <1>3 DEF SInv, Streak
      <4>3. h.prev # NoRow /\ t >= h.prev.checked + Interval
        BY <4>2 DEF From
      <4>4. new.fails = h.prev.fails + 1
        BY <4>3, <1>3, <2>2, <3>3, OneLonger
      <4> QED BY <4>2, <4>4 DEF From
    <3>5. new.fails >= passes[h.url] + 1
      <4> HIDE DEF new
      <4>1. passes[h.url] \in Nat
        BY <1>3, SignalTypes
      <4>2. CASE passes[h.url] = 0
        BY <4>2, <3>3
      <4>3. CASE passes[h.url] > 0
        <5>1. check[h.url].fails \in Nat
          BY <4>3, <1>3, SignalTypes DEF SInv, Streak
        <5> QED BY <5>1, <4>1, <4>3, <3>4
      <4> QED BY <4>1, <4>2, <4>3
    <3>6. t + Day <= due + MaxBusy
      BY <1>2 DEF SInv, Prompt
    <3> HIDE DEF new
    <3> QED BY <3>1, <3>2, <3>3, <3>5, <3>6, <1>2, <1>4, <1>6 DEF Streak
  <2> QED BY <2>1, <2>2
<1> QED BY <1>5, <1>7, <1>8 DEF SInv

LEMMA TimerReads == ASSUME IInv, SInv, ReadPrev(Timer) PROVE SInv'
<1>1. PICK u \in scan[Timer].todo, c \in Classes :
         SetScan(Timer, [scan[Timer] EXCEPT !.todo = @ \ {u},
            !.held = @ \cup {[url |-> u, class |-> c, prev |-> check[u]]}])
  BY DEF ReadPrev
<1>2. PICK h : h = [url |-> u, class |-> c, prev |-> check[u]]
  OBVIOUS
<1>3. h.url = u /\ h.prev = check[u]
  BY <1>2
<1>4. /\ scan'[Timer].pc = scan[Timer].pc /\ scan'[Timer].started = scan[Timer].started
      /\ scan'[Timer].todo = scan[Timer].todo \ {u} /\ scan'[Timer].held = scan[Timer].held \cup {h}
  BY <1>1, <1>2, SignalTypes DEF SetScan, Scan
<1>5. scan[Timer].pc = "check" /\ UNCHANGED <<now, due, check, passes>>
  BY DEF ReadPrev
<1>6. OneVerdict'
  BY <1>1, <1>3, <1>4, <1>5 DEF SInv, OneVerdict
<1>7. \A g \in scan'[Timer].held :
         g \in scan[Timer].held \/ (g.url \in scan[Timer].todo /\ g.prev = check[g.url])
  <2>1. u \in scan[Timer].todo
    OBVIOUS
  <2> QED BY <2>1, <1>3, <1>4
<1>8. scan'[Timer].todo \subseteq scan[Timer].todo
  BY <1>4
<1> QED BY <1>4, <1>5, <1>6, <1>7, <1>8, TimerActs

\* What the timer does before it checks.
LEMMA TimerPrepares ==
    ASSUME IInv, SInv, ReadPage(Timer) \/ ReplaceRefs(Timer) \/ StartChecks(Timer)
    PROVE  SInv'
<1>1. /\ scan[Timer].pc \in {"read", "refs"} /\ UNCHANGED <<now, due, check, passes>>
      /\ scan'[Timer].pc \in {"read", "refs", "check"}
      /\ scan'[Timer].started = scan[Timer].started /\ scan'[Timer].held = scan[Timer].held
  <2>1. CASE ReadPage(Timer)
    <3>1. PICK p \in scan[Timer].unread :
            SetScan(Timer, [scan[Timer] EXCEPT
              !.unread = @ \ {p},
              !.seen = IF content[p] = Gone THEN @
                       ELSE @ \cup {[page |-> p, urls |-> content[p]]},
              !.pc = IF scan[Timer].unread = {p} THEN "refs" ELSE "read"])
      BY <2>1 DEF ReadPage
    <3>2. scan[Timer].pc = "read" /\ UNCHANGED <<now, due, check, passes>>
      BY <2>1 DEF ReadPage
    <3>3. /\ scan'[Timer].pc \in {"read", "refs"}
          /\ scan'[Timer].started = scan[Timer].started /\ scan'[Timer].held = scan[Timer].held
      <4>1. PICK old, seen, pc : /\ old = scan[Timer] /\ pc \in {"read", "refs"}
                /\ scan' = [scan EXCEPT ![Timer] =
                              [old EXCEPT !.unread = @ \ {p}, !.seen = seen, !.pc = pc]]
        BY <3>1 DEF SetScan
      <4>2. old \in Scan
        BY <4>1, SignalTypes
      <4>3. PICK new : new = [old EXCEPT !.unread = @ \ {p}, !.seen = seen, !.pc = pc]
        OBVIOUS
      <4>4. new.pc = pc /\ new.started = old.started /\ new.held = old.held
        BY <4>2, <4>3 DEF Scan
      <4>5. scan'[Timer] = new
        <5>1. scan' = [scan EXCEPT ![Timer] = new]
          BY <4>1, <4>3
        <5> QED BY <5>1, SignalTypes
      <4> QED BY <4>1, <4>4, <4>5
    <3> QED BY <3>2, <3>3
  <2>2. CASE ReplaceRefs(Timer)
    <3>0. PICK v : SetScan(Timer, [scan[Timer] EXCEPT !.seen = @ \ {v}, !.todo = @ \cup v.urls])
      BY <2>2 DEF ReplaceRefs
    <3>1. PICK old, seen, todo : /\ old = scan[Timer] /\ old.pc = "refs"
                /\ scan' = [scan EXCEPT ![Timer] = [old EXCEPT !.seen = seen, !.todo = todo]]
      <4>1. PICK old, seen, todo : /\ old = scan[Timer] /\ seen = scan[Timer].seen \ {v}
                                   /\ todo = scan[Timer].todo \cup v.urls
        OBVIOUS
      <4>2. old.pc = "refs"
        BY <2>2, <4>1 DEF ReplaceRefs
      <4>3. scan' = [scan EXCEPT ![Timer] = [old EXCEPT !.seen = seen, !.todo = todo]]
        BY <3>0, <4>1 DEF SetScan
      <4> QED BY <4>1, <4>2, <4>3
    <3>2. UNCHANGED <<now, due, check, passes>>
      BY <2>2 DEF ReplaceRefs
    <3>3. old \in Scan
      BY <3>1, SignalTypes
    <3>4. PICK new : new = [old EXCEPT !.seen = seen, !.todo = todo]
      OBVIOUS
    <3>5. new.pc = old.pc /\ new.started = old.started /\ new.held = old.held
      BY <3>3, <3>4 DEF Scan
    <3>6. scan'[Timer] = new
      <4>1. scan' = [scan EXCEPT ![Timer] = new]
        BY <3>1, <3>4
      <4> QED BY <4>1, SignalTypes
    <3> QED BY <3>1, <3>2, <3>5, <3>6
  <2>3. CASE StartChecks(Timer)
    BY <2>3, SignalTypes DEF StartChecks, SetScan, Scan
  <2> QED BY <2>1, <2>2, <2>3
<1>2. scan'[Timer].held = {}
  BY <1>1 DEF SInv, OneVerdict
<1>3. OneVerdict'
  BY <1>2 DEF OneVerdict
<1> QED BY <1>1, <1>2, <1>3, TimerActs

\* What a pass does to the rows, but for a record of the timer's.
LEMMA Writes ==
    ASSUME IInv, NEW s \in Scans,
           \/ check' = check /\ passes' = passes
           \/ PruneAndFinish(s)
           \/ Record(s) /\ s # Timer
    PROVE  \A u \in Urls : passes'[u] = 0 \/ (passes'[u] = passes[u] /\ check'[u] = check[u])
<1>1. CASE check' = check /\ passes' = passes
  BY <1>1
<1>2. CASE PruneAndFinish(s)
  <2> SUFFICES ASSUME NEW u \in Urls PROVE passes'[u] = 0 \/ (passes'[u] = passes[u] /\ check'[u] = check[u])
    OBVIOUS
  <2> DEFINE old == check[u] # NoRow /\ Orphan(u) /\ check[u].checked < now - Retain
  <2>1. passes'[u] = (IF old THEN 0 ELSE passes[u]) /\ check'[u] = (IF old THEN NoRow ELSE check[u])
    BY <1>2 DEF PruneAndFinish
  <2> QED BY <2>1
<1>3. CASE Record(s) /\ s # Timer
  <2>1. PICK v, new : check' = [check EXCEPT ![v] = new] /\ passes' = [passes EXCEPT ![v] = 0]
    BY <1>3 DEF Record
  <2> QED BY <2>1, SignalTypes
<1> QED BY <1>1, <1>2, <1>3

LEMMA TimerStops == ASSUME IInv, SInv, PruneAndFinish(Timer) \/ Fail(Timer) PROVE SInv'
<1>1. scan[Timer].pc # "idle" /\ scan'[Timer] = IdleScan /\ UNCHANGED <<now, due>>
  BY SignalTypes DEF PruneAndFinish, Fail, SetScan
<1>2. \A u \in Urls : passes'[u] = 0 \/ (passes'[u] = passes[u] /\ check'[u] = check[u])
  BY SignalTypes, Writes DEF Fail
<1> QED BY <1>1, <1>2, TimerRests

\* Another task's pass.
LEMMA OtherPass ==
    ASSUME IInv, SInv, NEW s \in Scans, s # Timer, Begin(s) \/ ScanStep(s) \/ Fail(s)
    PROVE  SInv'
<1>1. scan'[Timer] = scan[Timer] /\ UNCHANGED <<now, due>>
  BY SignalTypes DEF Begin, ScanStep, ReadPage, ReplaceRefs, StartChecks, ReadPrev, Record,
     PruneAndFinish, Fail, SetScan
<1>2. \A u \in Urls : passes'[u] = 0 \/ (passes'[u] = passes[u] /\ check'[u] = check[u])
  BY Writes DEF Begin, ScanStep, ReadPage, ReplaceRefs, StartChecks, ReadPrev, Fail
<1> QED BY <1>1, <1>2, OthersAct DEF Keeps

LEMMA RestStays ==
    ASSUME IInv, SInv, \/ \E q \in Recheckers, u \in Urls, c \in Classes : RecheckRead(q, u, c)
                       \/ \E q \in Recheckers : RecheckRecord(q)
                       \/ \E u \in Urls, b \in BOOLEAN : SetIgnored(u, b)
                       \/ \E p \in Pages, urls \in (SUBSET Urls) \cup {Gone} : EditPage(p, urls)
    PROVE  SInv'
<1>1. scan'[Timer] = scan[Timer] /\ UNCHANGED <<now, due>>
  BY DEF RecheckRead, RecheckRecord, SetIgnored, EditPage
<1>2. \A u \in Urls : Keeps(u)
  <2>1. CASE \E q \in Recheckers : RecheckRecord(q)
    <3>1. PICK v, new : check' = [check EXCEPT ![v] = new] /\ passes' = [passes EXCEPT ![v] = 0]
      BY <2>1 DEF RecheckRecord
    <3> QED BY <3>1, SignalTypes DEF Keeps
  <2>2. CASE check' = check /\ passes' = passes
    BY <2>2 DEF Keeps
  <2>3. ASSUME NEW v \in Urls, NEW b \in BOOLEAN, SetIgnored(v, b), NEW u \in Urls
        PROVE  Keeps(u)
    <3>1. check[v] \in Row /\ check' = [check EXCEPT ![v].ignored = b] /\ passes' = passes
      BY <2>3, SignalTypes DEF SetIgnored
    <3>2. CASE u = v
      <4>1. PICK row, new : row = check[v] /\ new = [row EXCEPT !.ignored = b]
        OBVIOUS
      <4>2. new.fails = row.fails /\ new.checked = row.checked /\ new \in Row
        BY <3>1, <4>1 DEF Row
      <4>3. check'[v] = new
        BY <3>1, <4>1, SignalTypes
      <4> QED BY <3>1, <3>2, <4>1, <4>2, <4>3, NoRowAssumption DEF Keeps
    <3>3. CASE u # v
      BY <3>1, <3>3, SignalTypes DEF Keeps
    <3> QED BY <3>2, <3>3
  <2> QED BY <2>1, <2>2, <2>3 DEF RecheckRead, EditPage
<1> QED BY <1>1, <1>2, OthersAct

LEMMA TimePasses == ASSUME IInv, SInv, Tick PROVE SInv'
<1>1. /\ now' = now + 1 /\ UNCHANGED <<check, scan, due, passes>>
      /\ scan[Timer].pc = "idle" => now < due + MaxBusy
  BY DEF Tick
<1>2. OneVerdict' /\ Prompt'
  BY <1>1, SignalTypes DEF SInv, OneVerdict, Prompt
<1>3. \A u \in Urls : Streak(u)'
  BY <1>1 DEF SInv, Streak, From
<1> QED BY <1>2, <1>3 DEF SInv

LEMMA Restarting == ASSUME IInv, SInv, Crash PROVE SInv'
<1>1. scan'[Timer] = IdleScan /\ due' = now /\ now' = now /\ \A u \in Urls : passes'[u] = 0
  BY SignalTypes DEF Crash
<1> QED BY <1>1, SignalTypes DEF SInv, OneVerdict, Prompt, Streak, IdleScan

\* Three bad passes are a signal: as many passes of the timer as it takes, with
\* nobody writing between them, confirm a dead link, for any periods that
\* leave an interval between two passes however late they are.
THEOREM BadPassesConfirm == Spec => []SignalConfirmed
<1>1. IInv /\ SInv /\ [Next]_vars => SInv'
  <2> SUFFICES ASSUME IInv, SInv, [Next]_vars PROVE SInv'
    OBVIOUS
  <2>1. CASE UNCHANGED vars
    BY <2>1 DEF vars, SInv, OneVerdict, Prompt, Streak, From
  <2>2. ASSUME NEW s \in Scans, Begin(s) \/ ScanStep(s) \/ Fail(s) PROVE SInv'
    <3>1. CASE s = Timer
      BY <2>2, <3>1, TimerBegins, TimerPrepares, TimerReads, TimerRecords, TimerStops DEF ScanStep
    <3> QED BY <2>2, <3>1, OtherPass
  <2> QED BY <2>1, <2>2, RestStays, TimePasses, Restarting DEF Next
<1>2. IInv /\ SInv => SignalConfirmed
  <2> SUFFICES ASSUME IInv, SInv, NEW u \in Urls, passes[u] >= Confirm, check[u].class = "dead"
               PROVE  Confirmed(check[u])
    BY DEF SignalConfirmed
  <2>1. passes[u] > 0 /\ check[u] # NoRow /\ check[u].fails >= passes[u]
    BY SignalTypes DEF SInv, Streak
  <2> QED BY <2>1, SignalTypes DEF Confirmed
<1> QED BY SignalStarts, <1>1, <1>2, Always, PTL DEF Spec

=============================================================================
