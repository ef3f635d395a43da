------------------------------ MODULE Greylist ------------------------------
(***************************************************************************)
(* The behavioural greylist: the `greylist` table, the in-memory snapshot  *)
(* the request path reads (GreylistSet), the detection sweep that feeds    *)
(* both, and the admin's pin and release requests.                         *)
(*                                                                         *)
(* The table is durable; the snapshot and the operator allowlist live in   *)
(* the process.  A sweep pass is a long async function: every DB statement *)
(* and every DNS lookup is a step of its own, and the two administrative   *)
(* writers, the allowlist subscriber, the clock and a second pass ("Run    *)
(* sweep now") interleave with it.                                         *)
(***************************************************************************)
EXTENDS Integers

CONSTANTS
    IPs,        \* client addresses
    Crawlers,   \* those whose FCrDNS check confirms a search crawler
    Timer,      \* the detached interval loop of sweep::spawn
    Sweepers,   \* Timer and the "Run sweep now" requests
    Admins,     \* concurrent pin / release requests
    Ttl,        \* GREYLIST_TTL_DAYS
    NoRow,      \* the IP has no row in the table
    Never,      \* expires_at IS NULL
    NoTrip,     \* no feature under evaluation
    MaxTime,    \* bound on the clock
    MaxEvents   \* bound on admin requests, aborts, address changes, crashes

ASSUME GreylistAssumption ==
    /\ Crawlers \subseteq IPs
    /\ Timer \in Sweepers
    /\ Ttl \in Nat \ {0}
    /\ MaxTime \in Nat
    /\ MaxEvents \in Nat
    /\ Never \notin Nat

VARIABLES
    now,      \* the clock, in days
    rows,     \* the greylist table, one row per IP at most
    inner,    \* GreylistSet.inner: the snapshot of the active rows
    allow,    \* GreylistSet.allow: the server's own public addresses
    log,      \* what score() says of each IP's request log in the window
    pass,     \* one sweep pass per sweeper
    req,      \* one admin request per admin
    events    \* environment events so far

vars == <<now, rows, inner, allow, log, pass, req, events>>

-----------------------------------------------------------------------------

Rules    == {"R1", "blunt"}          \* signature probe; 404 burst or flood
Verdicts == Rules \cup {"quiet"}

Row  == [manual : BOOLEAN, reason : Rules \cup {"manual"},
         expires : Nat \cup {Never}]
ASSUME NoRowAssumption == NoRow \notin Row

Trip == [ip : IPs, rule : Rules]

PassPc == {"idle", "eval", "verify", "upsert", "release", "active", "refresh"}
Pass == [pc : PassPc, todo : SUBSET Trip, cur : Trip \cup {NoTrip},
         exp : Nat, rel : SUBSET IPs, snap : SUBSET IPs]

IdlePass == [pc |-> "idle", todo |-> {}, cur |-> NoTrip,
             exp |-> 0, rel |-> {}, snap |-> {}]
\* spawn() reads the active rows once before its first detection pass.
BootPass == [IdlePass EXCEPT !.pc = "active"]

Req     == [pc : {"idle", "pinned", "released"}, ip : IPs \cup {NoTrip}]
IdleReq == [pc |-> "idle", ip |-> NoTrip]

Listed(ip) == rows[ip] # NoRow
Pinned(ip) == Listed(ip) /\ rows[ip].manual

\* GreylistDao::active: a pin, or an automatic row that has not lapsed.
Active(row) == /\ row # NoRow
               /\ row.manual \/ (row.expires # Never /\ row.expires > now)
ActiveIps   == {ip \in IPs : Active(rows[ip])}

\* Fault for Lapsed: the purge forgets `manual = 0`.
LapsedAnyRow(row) ==
    row # NoRow /\ row.expires # Never /\ row.expires <= now

\* GreylistDao::prune_expired
Lapsed(row) == /\ row # NoRow
               /\ ~row.manual
               /\ row.expires # Never
               /\ row.expires <= now

\* Faults for UpsertAuto: a row without an expiry; a longer ban for R1.
UpsertAutoNoExpiry(row, rule, exp) ==
    [manual |-> FALSE, reason |-> rule, expires |-> NoRow]
UpsertAutoLongR1(row, rule, exp) ==
    [manual |-> row # NoRow /\ row.manual, reason |-> rule,
     expires |-> IF rule = "R1" THEN exp + 1 ELSE exp]

\* GreylistDao::upsert_auto keeps `manual` and overwrites the rest.
UpsertAuto(row, rule, exp) ==
    IF row = NoRow
    THEN [manual |-> FALSE, reason |-> rule, expires |-> exp]
    ELSE [row EXCEPT !.reason = rule, !.expires = exp]

\* GreylistDao::pin_manual promotes any row to a pin.
PinRow == [manual |-> TRUE, reason |-> "manual", expires |-> Never]

\* GreylistSet::is_greylisted: the allowlist wins over the snapshot.
IsGreylisted(ip) == ip \notin allow /\ ip \in inner

Event == events < MaxEvents /\ events' = events + 1

-----------------------------------------------------------------------------

Init ==
    /\ now = 0
    /\ rows = [ip \in IPs |-> NoRow]
    /\ inner = {}
    /\ allow = {}
    /\ log \in [IPs -> Verdicts]
    /\ pass = [s \in Sweepers |-> IF s = Timer THEN BootPass ELSE IdlePass]
    /\ req = [a \in Admins |-> IdleReq]
    /\ events = 0

(***************************************************************************)
(* The sweep pass: sweep::run_once.                                        *)
(***************************************************************************)

SetPass(s, p) == pass' = [pass EXCEPT ![s] = p]

\* Read the aggregates, score them, and fix the expiry of the whole pass.
Begin(s) ==
    /\ pass[s].pc = "idle"
    /\ SetPass(s, [IdlePass EXCEPT
            !.pc = "eval",
            !.todo = {t \in Trip : log[t.ip] = t.rule},
            !.exp = now + Ttl])
    /\ IF s = Timer THEN UNCHANGED events ELSE Event
    /\ UNCHANGED <<now, rows, inner, allow, log, req>>

\* The next tripped IP: an allowlisted one is not scored at all, a signature
\* probe is listed without DNS, a blunt rule asks DNS first.
Consider(s) ==
    /\ pass[s].pc = "eval"
    /\ \E t \in pass[s].todo :
         SetPass(s, [pass[s] EXCEPT
             !.todo = @ \ {t},
             !.cur = IF t.ip \in allow THEN NoTrip ELSE t,
             !.pc = IF t.ip \in allow THEN "eval"
                    ELSE IF t.rule = "R1" THEN "upsert" ELSE "verify"])
    /\ UNCHANGED <<now, rows, inner, allow, log, req, events>>

\* Fault for Verdict: a DNS failure counts as "not a crawler".
VerdictNoUnknown(ip) ==
    {"NotCrawler", IF ip \in Crawlers THEN "Verified" ELSE "NotCrawler"}

\* FCrDNS may always be inconclusive (the IP is skipped this tick).
Verdict(ip) == {"Unknown",
                IF ip \in Crawlers THEN "Verified" ELSE "NotCrawler"}

Verify(s) ==
    /\ pass[s].pc = "verify"
    /\ \E v \in Verdict(pass[s].cur.ip) :
         SetPass(s, IF v = "NotCrawler"
                    THEN [pass[s] EXCEPT !.pc = "upsert"]
                    ELSE [pass[s] EXCEPT !.pc = "eval", !.cur = NoTrip])
    /\ UNCHANGED <<now, rows, inner, allow, log, req, events>>

Upsert(s) ==
    /\ pass[s].pc = "upsert"
    /\ LET t == pass[s].cur IN
         rows' = [rows EXCEPT ![t.ip] = UpsertAuto(@, t.rule, pass[s].exp)]
    /\ SetPass(s, [pass[s] EXCEPT !.pc = "eval", !.cur = NoTrip])
    /\ UNCHANGED <<now, inner, allow, log, req, events>>

\* Fault for ReadAllowlist: the pass never releases the operator's rows.
ReadAllowlistSkipped(s) ==
    /\ pass[s].pc = "eval" /\ pass[s].todo = {}
    /\ SetPass(s, [pass[s] EXCEPT !.pc = "release"])
    /\ UNCHANGED <<now, rows, inner, allow, log, req, events>>

\* set.allowlisted() is read once, before the releases.
ReadAllowlist(s) ==
    /\ pass[s].pc = "eval" /\ pass[s].todo = {}
    /\ SetPass(s, [pass[s] EXCEPT !.pc = "release", !.rel = allow])
    /\ UNCHANGED <<now, rows, inner, allow, log, req, events>>

\* Release one operator address; a failed DELETE is logged and passed over.
ReleaseOperator(s) ==
    /\ pass[s].pc = "release"
    /\ \E ip \in pass[s].rel :
         /\ SetPass(s, [pass[s] EXCEPT !.rel = @ \ {ip}])
         /\ \/ rows' = [rows EXCEPT ![ip] = NoRow] /\ UNCHANGED events
            \/ UNCHANGED rows /\ Event
    /\ UNCHANGED <<now, inner, allow, log, req>>

Prune(s) ==
    /\ pass[s].pc = "release" /\ pass[s].rel = {}
    /\ rows' = [ip \in IPs |-> IF Lapsed(rows[ip]) THEN NoRow ELSE rows[ip]]
    /\ SetPass(s, [pass[s] EXCEPT !.pc = "active"])
    /\ UNCHANGED <<now, inner, allow, log, req, events>>

ReadActive(s) ==
    /\ pass[s].pc = "active"
    /\ SetPass(s, [pass[s] EXCEPT !.pc = "refresh", !.snap = ActiveIps])
    /\ UNCHANGED <<now, rows, inner, allow, log, req, events>>

\* Fault for Refresh: the snapshot is extended instead of replaced.
RefreshExtends(s) ==
    /\ pass[s].pc = "refresh"
    /\ inner' = inner \cup pass[s].snap
    /\ SetPass(s, IdlePass)
    /\ UNCHANGED <<now, rows, allow, log, req, events>>

Refresh(s) ==
    /\ pass[s].pc = "refresh"
    /\ inner' = pass[s].snap
    /\ SetPass(s, IdlePass)
    /\ UNCHANGED <<now, rows, allow, log, req, events>>

\* A DB error ends the pass early, before the refresh; a "Run sweep now"
\* pass is also dropped wherever it waits when its client disconnects.
Abort(s) ==
    /\ pass[s].pc # "idle"
    /\ \/ pass[s].pc \in {"upsert", "active"}
       \/ pass[s].pc = "release" /\ pass[s].rel = {}
       \/ s # Timer /\ pass[s].pc # "refresh"
    /\ SetPass(s, IdlePass)
    /\ Event
    /\ UNCHANGED <<now, rows, inner, allow, log, req>>

SweepStep(s) ==
    \/ Begin(s) \/ Consider(s) \/ Verify(s) \/ Upsert(s) \/ ReadAllowlist(s)
    \/ ReleaseOperator(s) \/ Prune(s) \/ ReadActive(s) \/ Refresh(s)

(***************************************************************************)
(* The admin handlers: the table first, then the snapshot.                 *)
(***************************************************************************)

SetReq(a, pc, ip) == req' = [req EXCEPT ![a] = [pc |-> pc, ip |-> ip]]

PinInTable(a, ip) ==
    /\ req[a].pc = "idle"
    /\ Event
    /\ rows' = [rows EXCEPT ![ip] = PinRow]
    /\ SetReq(a, "pinned", ip)
    /\ UNCHANGED <<now, inner, allow, log, pass>>

PinInSnapshot(a) ==
    /\ req[a].pc = "pinned"
    /\ inner' = inner \cup {req[a].ip}
    /\ SetReq(a, "idle", NoTrip)
    /\ UNCHANGED <<now, rows, allow, log, pass, events>>

ReleaseInTable(a, ip) ==
    /\ req[a].pc = "idle"
    /\ Event
    /\ rows' = [rows EXCEPT ![ip] = NoRow]
    /\ SetReq(a, "released", ip)
    /\ UNCHANGED <<now, inner, allow, log, pass>>

ReleaseInSnapshot(a) ==
    /\ req[a].pc = "released"
    /\ inner' = inner \ {req[a].ip}
    /\ SetReq(a, "idle", NoTrip)
    /\ UNCHANGED <<now, rows, allow, log, pass, events>>

\* The client hangs up while the handler waits for the DB worker's answer:
\* the statement has run, the snapshot is never touched.
Disconnect(a) ==
    /\ req[a].pc # "idle"
    /\ Event
    /\ SetReq(a, "idle", NoTrip)
    /\ UNCHANGED <<now, rows, inner, allow, log, pass>>

AdminStep(a) == PinInSnapshot(a) \/ ReleaseInSnapshot(a)

(***************************************************************************)
(* The environment.                                                        *)
(***************************************************************************)

\* The IP-broadcast subscriber replaces the allowlist (one address here).
SetPublicIps(ip) ==
    /\ allow # {ip}
    /\ Event
    /\ allow' = {ip}
    /\ UNCHANGED <<now, rows, inner, log, pass, req>>

\* Requests arrive, or leave the one-day window.
Traffic(ip, v) ==
    /\ log[ip] # v
    /\ log' = [log EXCEPT ![ip] = v]
    /\ UNCHANGED <<now, rows, inner, allow, pass, req, events>>

Tick ==
    /\ now < MaxTime
    /\ now' = now + 1
    /\ UNCHANGED <<rows, inner, allow, log, pass, req, events>>

\* The process dies and launchd restarts it: only the table survives.
Crash ==
    /\ Event
    /\ inner' = {} /\ allow' = {}
    /\ pass' = [s \in Sweepers |-> IF s = Timer THEN BootPass ELSE IdlePass]
    /\ req' = [a \in Admins |-> IdleReq]
    /\ UNCHANGED <<now, rows, log>>

Next ==
    \/ \E s \in Sweepers : SweepStep(s) \/ Abort(s)
    \/ \E a \in Admins : AdminStep(a) \/ Disconnect(a)
    \/ \E a \in Admins, ip \in IPs : PinInTable(a, ip) \/ ReleaseInTable(a, ip)
    \/ \E ip \in IPs : SetPublicIps(ip)
    \/ \E ip \in IPs, v \in Verdicts : Traffic(ip, v)
    \/ Tick
    \/ Crash

Spec == Init /\ [][Next]_vars

\* The runtime keeps polling the loop, an accepted "Run sweep now" and the
\* tail of an admin request; it owes nothing to the environment.
Fairness ==
    /\ WF_vars(SweepStep(Timer))
    /\ \A s \in Sweepers \ {Timer} :
         WF_vars(pass[s].pc # "idle" /\ SweepStep(s))
    /\ \A a \in Admins : WF_vars(AdminStep(a))

FairSpec == Spec /\ Fairness

-----------------------------------------------------------------------------

\* The types of the table, of the process's memory and of what is in flight.
TypeOK ==
    /\ now \in 0..MaxTime
    /\ rows \in [IPs -> Row \cup {NoRow}]
    /\ inner \subseteq IPs
    /\ allow \subseteq IPs
    /\ log \in [IPs -> Verdicts]
    /\ pass \in [Sweepers -> Pass]
    /\ req \in [Admins -> Req]
    /\ events \in 0..MaxEvents

\* A verified crawler is never listed by a blunt rule, whatever DNS failures
\* and overlapping passes do (run_once consults FCrDNS before the upsert).
NoBluntCrawler ==
    \A ip \in Crawlers : Listed(ip) => rows[ip].reason # "blunt"

\* A manual pin never lapses: it goes only when an admin releases that IP or
\* when a sweep found that IP on the operator allowlist - not by a re-trip
\* that writes an expiry on it, not by the purge, not by a crash.
PinSticks ==
    [][\A ip \in IPs : Pinned(ip) /\ ~Pinned(ip)' =>
          \/ \E a \in Admins : req[a].pc = "idle" /\ req'[a] =
                                   [pc |-> "released", ip |-> ip]
          \/ \E s \in Sweepers : ip \in pass[s].rel]_rows

\* While passes do not overlap, the expiry of a listed IP only slides forward,
\* across slow passes, aborted passes and restarts.
SlidesForward ==
    [][\A ip \in IPs :
          /\ Listed(ip) /\ rows[ip].expires # Never
          /\ Listed(ip)' /\ rows'[ip].expires # Never
          => rows'[ip].expires >= rows[ip].expires]_rows

\* Once requests, restarts and the clock settle, the toll the middleware
\* applies is exactly the active table minus the operator's addresses: what a
\* stale refresh, a dropped handler or a restart broke is repaired by the loop.
SnapshotConverges ==
    <>[](\A ip \in IPs : IsGreylisted(ip) <=> Active(rows[ip]) /\ ip \notin allow)

\* The operator's own addresses do not persist in the table: an entry listed
\* before the address was known, or by a pass that read an older allowlist,
\* goes in the end.
OperatorRowsPurged == <>[](\A ip \in allow : ~Listed(ip))

=============================================================================
