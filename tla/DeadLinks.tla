------------------------------ MODULE DeadLinks ------------------------------
(***************************************************************************)
(* The dead-link checker: the link_check and link_ref tables, the daily    *)
(* scan and "Run scan now" behind their single-flight slot, and the        *)
(* admin's per-link re-check, dismissal and page edits.                    *)
(*                                                                         *)
(* Scans and re-checks carry the time they read when they started and use  *)
(* it for every row they write; LinkCheckDao::record reads a row, computes *)
(* the next one and writes it whole, so two of them interleave.            *)
(***************************************************************************)
EXTENDS Integers

CONSTANTS
    Urls, Pages,
    Timer,       \* the detached daily loop of scan::spawn
    Scans,       \* Timer and the "Run scan now" tasks
    Recheckers,  \* concurrent re-check requests
    NoRow,       \* no link_check row
    Never,       \* first_failed_at IS NULL
    Gone,        \* a deleted page
    Confirm,     \* CONFIRM_THRESHOLD
    Interval,    \* MIN_STREAK_INTERVAL_SECS
    Day,         \* DEAD_LINK_SCAN_INTERVAL
    Retain,      \* RETAIN_DAYS
    MaxBusy,     \* bound on how long a scan, a re-check or a late tick takes
    MaxTime,     \* bound on the clock
    MaxEvents    \* bound on triggers, re-checks, edits, errors and crashes

ASSUME DeadLinksAssumption ==
    /\ Timer \in Scans
    /\ Never \notin Int
    /\ {Confirm, Interval, Day, Retain, MaxBusy, MaxTime, MaxEvents} \subseteq Nat
    /\ Confirm > 0
    /\ MaxBusy + Interval <= Day

VARIABLES
    now,
    content,   \* the urls each page's markdown cites
    refs,      \* link_ref: the urls a scan last saw in each page
    check,     \* link_check: one row per url at most
    running,   \* DeadLinkScanState: the single-flight slot
    scan,      \* one pass per scan task
    recheck,   \* one re-check per request
    due,       \* the timer's next tick
    passes,    \* history: failing timer passes in a row, nobody else writing
    events

vars == <<now, content, refs, check, running, scan, recheck, due, passes, events>>

-----------------------------------------------------------------------------

\* Blocked and Unknown behave alike: "review".
Classes  == {"ok", "dead", "transient", "review"}
Failures == {"dead", "transient"}      \* CheckClass::counts_as_failure

\* A row with a streak has the time it began, one without has none.
Row == {r \in [class : Classes, fails : Nat, first : Int \cup {Never},
               checked : Int, ignored : BOOLEAN] :
          r.fails = 0 <=> r.first = Never}
ASSUME NoRowAssumption == NoRow \notin Row

\* A verdict together with the row it will be folded into.
Held == [url : Urls, class : Classes, prev : Row \cup {NoRow}]
Seen == [page : Pages, urls : SUBSET Urls]

ScanPc == {"idle", "read", "refs", "check"}
Scan == [pc : ScanPc, started : Int, unread : SUBSET Pages,
         seen : SUBSET Seen, todo : SUBSET Urls, held : SUBSET Held]
IdleScan == [pc |-> "idle", started |-> 0, unread |-> {}, seen |-> {},
             todo |-> {}, held |-> {}]

Recheck == [started : Int, held : SUBSET Held]
IdleRecheck == [started |-> 0, held |-> {}]

\* LinkCheckRow::is_confirmed_dead
Confirmed(row) == row # NoRow /\ row.class = "dead" /\ row.fails >= Confirm

\* Faults for Within: clicks count; a failure exactly one interval later is
\* too early.
WithinNever(prev, t)  == FALSE
WithinUpTo(prev, t)   == prev # NoRow /\ t - prev.checked <= Interval

Within(prev, t) == prev # NoRow /\ t - prev.checked < Interval

\* Fault for FirstFailed: the start of a streak is not stamped.
FirstFailedKept(first, t) == first

FirstFailed(first, t) == IF first = Never THEN t ELSE first

\* Fault for Dismissed: a link that answers again is no longer dismissed.
DismissedWhileFailing(prev) == prev # NoRow /\ prev.fails > 0 /\ prev.ignored

Dismissed(prev) == prev # NoRow /\ prev.ignored

\* next_state: Ok clears the streak, a failure advances it at most once per
\* interval, a review verdict holds it; the dismissal is carried over.
NextState(prev, class, t) ==
    LET old == IF prev = NoRow THEN [fails |-> 0, first |-> Never] ELSE prev
        row(fails, first) == [class |-> class, fails |-> fails, first |-> first,
                              checked |-> t, ignored |-> Dismissed(prev)] IN
      IF class = "ok" THEN row(0, Never)
      ELSE IF class \notin Failures THEN row(old.fails, old.first)
      ELSE row(IF Within(prev, t) /\ old.fails > 0 THEN old.fails
               ELSE old.fails + 1, FirstFailed(old.first, t))

Event == events < MaxEvents /\ events' = events + 1

-----------------------------------------------------------------------------

Init ==
    /\ now = 0
    /\ content \in [Pages -> SUBSET Urls]
    /\ refs = [p \in Pages |-> {}]
    /\ check = [u \in Urls |-> NoRow]
    /\ running = FALSE
    /\ scan = [s \in Scans |-> IdleScan]
    /\ recheck = [q \in Recheckers |-> IdleRecheck]
    /\ due = 0
    /\ passes = [u \in Urls |-> 0]
    /\ events = 0

(***************************************************************************)
(* run_guarded and run_scan.                                               *)
(***************************************************************************)

SetScan(s, r) == scan' = [scan EXCEPT ![s] = r]

\* try_begin under the lock; a task that finds the slot taken does nothing.
\* The timer comes at its tick, a manual trigger at any time.
Begin(s) ==
    /\ scan[s].pc = "idle"
    /\ IF s = Timer THEN now >= due /\ due' = due + Day /\ UNCHANGED events
       ELSE Event /\ UNCHANGED due
    /\ running' = TRUE
    /\ IF running THEN UNCHANGED scan
       ELSE SetScan(s, [IdleScan EXCEPT !.pc = "read", !.started = now,
                                        !.unread = Pages])
    /\ UNCHANGED <<now, content, refs, check, recheck, passes>>

\* all_pages: the tree is read query by query; deleted pages are not there.
ReadPage(s) ==
    /\ scan[s].pc = "read"
    /\ \E p \in scan[s].unread :
         SetScan(s, [scan[s] EXCEPT
            !.unread = @ \ {p},
            !.seen = IF content[p] = Gone THEN @
                     ELSE @ \cup {[page |-> p, urls |-> content[p]]},
            !.pc = IF scan[s].unread = {p} THEN "refs" ELSE "read"])
    /\ UNCHANGED <<now, content, refs, check, running, recheck, due, passes, events>>

\* replace_for_page, one transaction per page; its urls are to be checked.
ReplaceRefs(s) ==
    /\ scan[s].pc = "refs"
    /\ \E v \in scan[s].seen :
         /\ content[v.page] # Gone \/ v.urls = {}
         /\ refs' = [refs EXCEPT ![v.page] = v.urls]
         /\ SetScan(s, [scan[s] EXCEPT !.seen = @ \ {v}, !.todo = @ \cup v.urls])
    /\ UNCHANGED <<now, content, check, running, recheck, due, passes, events>>

StartChecks(s) ==
    /\ scan[s].pc = "refs" /\ scan[s].seen = {}
    /\ SetScan(s, [scan[s] EXCEPT !.pc = "check"])
    /\ UNCHANGED <<now, content, refs, check, running, recheck, due, passes, events>>

\* A url is checked, then record reads its row.
ReadPrev(s) ==
    /\ scan[s].pc = "check"
    /\ \E u \in scan[s].todo, c \in Classes :
         SetScan(s, [scan[s] EXCEPT !.todo = @ \ {u},
            !.held = @ \cup {[url |-> u, class |-> c, prev |-> check[u]]}])
    /\ UNCHANGED <<now, content, refs, check, running, recheck, due, passes, events>>

\* record writes the row it computed from what it read.
Record(s) ==
    /\ scan[s].pc = "check"
    /\ \E h \in scan[s].held :
         /\ check' = [check EXCEPT ![h.url] =
                         NextState(h.prev, h.class, scan[s].started)]
         /\ passes' = [passes EXCEPT ![h.url] =
                         IF s = Timer /\ h.class \in Failures THEN @ + 1 ELSE 0]
         /\ SetScan(s, [scan[s] EXCEPT !.held = @ \ {h}])
    /\ UNCHANGED <<now, content, refs, running, recheck, due, events>>

Orphan(u) == \A p \in Pages : u \notin refs[p]

\* Fault for PruneAndFinish: the slot is not released.
PruneAndFinishNoRelease(s) ==
    /\ scan[s].pc = "check" /\ scan[s].todo = {} /\ scan[s].held = {}
    /\ SetScan(s, IdleScan)
    /\ UNCHANGED <<now, content, refs, check, running, recheck, due, passes, events>>

\* prune_orphans, the summary, and finish releases the slot.
PruneAndFinish(s) ==
    /\ scan[s].pc = "check" /\ scan[s].todo = {} /\ scan[s].held = {}
    /\ LET old(u) == /\ check[u] # NoRow
                     /\ Orphan(u) /\ check[u].checked < now - Retain IN
         /\ check' = [u \in Urls |-> IF old(u) THEN NoRow ELSE check[u]]
         /\ passes' = [u \in Urls |-> IF old(u) THEN 0 ELSE passes[u]]
    /\ SetScan(s, IdleScan)
    /\ running' = FALSE
    /\ UNCHANGED <<now, content, refs, recheck, due, events>>

\* Any statement but an external record's may fail, and the references of a
\* page deleted meanwhile do fail: the pass ends, the slot is released.
Fail(s) ==
    /\ scan[s].pc # "idle"
    /\ \/ Event
       \/ /\ scan[s].pc = "refs"
          /\ \E v \in scan[s].seen : content[v.page] = Gone /\ v.urls # {}
          /\ UNCHANGED events
    /\ SetScan(s, IdleScan)
    /\ running' = FALSE
    /\ UNCHANGED <<now, content, refs, check, recheck, due, passes>>

ScanStep(s) == \/ ReadPage(s) \/ ReplaceRefs(s) \/ StartChecks(s)
               \/ ReadPrev(s) \/ Record(s) \/ PruneAndFinish(s)

(***************************************************************************)
(* The admin: recheck_one, set_ignored, edits of the content.              *)
(***************************************************************************)

\* The request read its clock at some time in the last MaxBusy.
RecheckRead(q, u, c) ==
    /\ recheck[q].held = {}
    /\ Event
    /\ \E t \in (now - MaxBusy)..now :
         recheck' = [recheck EXCEPT ![q] = [started |-> t,
                       held |-> {[url |-> u, class |-> c, prev |-> check[u]]}]]
    /\ UNCHANGED <<now, content, refs, check, running, scan, due, passes>>

RecheckRecord(q) ==
    /\ \E h \in recheck[q].held :
         /\ check' = [check EXCEPT ![h.url] =
                         NextState(h.prev, h.class, recheck[q].started)]
         /\ passes' = [passes EXCEPT ![h.url] = 0]
    /\ recheck' = [recheck EXCEPT ![q] = IdleRecheck]
    /\ UNCHANGED <<now, content, refs, running, scan, due, events>>

\* set_ignored, a no-op for a url without a row.
SetIgnored(u, b) ==
    /\ check[u] # NoRow
    /\ Event
    /\ check' = [check EXCEPT ![u].ignored = b]
    /\ UNCHANGED <<now, content, refs, running, scan, recheck, due, passes>>

\* A page is edited, or deleted with its references (ON DELETE CASCADE).
EditPage(p, urls) ==
    /\ content[p] \notin {Gone, urls}
    /\ Event
    /\ content' = [content EXCEPT ![p] = urls]
    /\ refs' = IF urls = Gone THEN [refs EXCEPT ![p] = {}] ELSE refs
    /\ UNCHANGED <<now, check, running, scan, recheck, due, passes>>

(***************************************************************************)
(* Time and restarts.                                                      *)
(***************************************************************************)

\* Nothing outlasts MaxBusy, and the timer's tick is not missed for longer.
Tick ==
    /\ now < MaxTime
    /\ \A s \in Scans : scan[s].pc # "idle" => now < scan[s].started + MaxBusy
    /\ \A q \in Recheckers :
          recheck[q].held # {} => now < recheck[q].started + MaxBusy
    /\ scan[Timer].pc = "idle" => now < due + MaxBusy
    /\ now' = now + 1
    /\ UNCHANGED <<content, refs, check, running, scan, recheck, due, passes, events>>

\* A restart scans at once; it begins a new series of daily passes.
Crash ==
    /\ Event
    /\ running' = FALSE
    /\ scan' = [s \in Scans |-> IdleScan]
    /\ recheck' = [q \in Recheckers |-> IdleRecheck]
    /\ due' = now
    /\ passes' = [u \in Urls |-> 0]
    /\ UNCHANGED <<now, content, refs, check>>

Next ==
    \/ \E s \in Scans : Begin(s) \/ ScanStep(s) \/ Fail(s)
    \/ \E q \in Recheckers, u \in Urls, c \in Classes : RecheckRead(q, u, c)
    \/ \E q \in Recheckers : RecheckRecord(q)
    \/ \E u \in Urls, b \in BOOLEAN : SetIgnored(u, b)
    \/ \E p \in Pages, urls \in (SUBSET Urls) \cup {Gone} : EditPage(p, urls)
    \/ Tick
    \/ Crash

Spec == Init /\ [][Next]_vars

-----------------------------------------------------------------------------

\* The types of the tables, of the slot and of what is in flight; a row has a
\* streak exactly when it has the time the streak began.
TypeOK ==
    /\ now \in Nat /\ due \in Nat /\ events \in Nat
    /\ content \in [Pages -> (SUBSET Urls) \cup {Gone}]
    /\ refs \in [Pages -> SUBSET Urls]
    /\ check \in [Urls -> Row \cup {NoRow}]
    /\ running \in BOOLEAN
    /\ scan \in [Scans -> Scan]
    /\ recheck \in [Recheckers -> Recheck]
    /\ passes \in [Urls -> Nat]

\* "N failures" means N daily passes, not N clicks: between two steps of a
\* streak lies an interval, up to the time a writer holds on to its clock -
\* whatever passes, re-checks, stale rows and restarts do.
NotHasty ==
    \A u \in Urls : check[u] # NoRow /\ check[u].fails > 0 =>
       check[u].checked + MaxBusy >=
          check[u].first + (check[u].fails - 1) * (Interval - MaxBusy)

\* The slot is taken exactly while one pass runs, and passes never overlap,
\* across failed passes, refused triggers and restarts.
SlotTells ==
    /\ running <=> \E s \in Scans : scan[s].pc # "idle"
    /\ \A s, t \in Scans : scan[s].pc # "idle" /\ scan[t].pc # "idle" => s = t

\* Three bad passes are a signal: the daily timer's own jitter never makes a
\* pass fall within the interval of the one before it.
SignalConfirmed ==
    \A u \in Urls : passes[u] >= Confirm /\ check[u].class = "dead"
                    => Confirmed(check[u])

Stale(u, held) == \E h \in held : h.url = u /\ h.prev # check[u]

\* next_state: "The manual dismiss survives a re-scan (only set_ignored flips
\* it)."  A row's flag changes in a step of set_ignored, or when record writes
\* a row it computed before another writer changed it.
DismissLostOnlyByStaleRow ==
    [][\A u \in Urls : check[u] # NoRow /\ check'[u] # NoRow
          /\ check'[u].ignored # check[u].ignored
          => \/ scan' = scan /\ recheck' = recheck
             \/ \E s \in Scans : Stale(u, scan[s].held)
             \/ \E q \in Recheckers : Stale(u, recheck[q].held)]_check

=============================================================================
