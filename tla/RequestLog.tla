----------------------------- MODULE RequestLog -----------------------------
(***************************************************************************)
(* The request log and what is read from it: middleware/request_log.rs     *)
(* writes a row for a request in a task of its own, db/dao/request_log.rs  *)
(* queries, reclassifies and prunes the rows, admin/analytics.rs shows     *)
(* them, greylist/detection.rs scores them.                                *)
(*                                                                         *)
(* A request is a record: who sent it, for which path, with which          *)
(* User-Agent and Referer, how it was answered, and whether the greylist's *)
(* toll was the answer.  Of a path, an agent and a referer, only the class *)
(* counts that the code gives it.  Time goes in days.                      *)
(***************************************************************************)
EXTENDS Integers, FiniteSets, FiniteSetsExt

CONSTANTS
    Requests,     \* the requests that are made
    Public,      \* the addresses that may be scored (should_evaluate)
    Unlogged,    \* paths that are not logged: bytes, the challenge, the dashboard
    Embedded,    \* paths of the assets that are built in
    Drawn,       \* paths of diagrams and attachments
    Probes,      \* paths that match SIGNATURE_PATTERNS
    Rulesets,    \* what is_bot may take for a bot, from one release to another
    ScanMin,     \* SCAN_DISTINCT_404_THRESHOLD
    R1Min, R2Min, R3Min,
    Retention,   \* RETAIN_DAYS
    MaxLog,      \* bound on the rows
    MaxDay,      \* bound on the days
    MaxDeploys   \* bound on the releases

\* The answers begin with 2, 3, 4 or 5; a referer is one of the classes.
IsRequest(t) ==
    t \in [addr : {t.addr}, path : {t.path}, status : 200 .. 599, agent : {t.agent},
          referer : {"direct", "external", "noise", "internal"}, tolled : BOOLEAN, ms : Nat]

\* A burst that is punished is one the dashboard calls a scanner.
ASSUME LogAssumption ==
    /\ ScanMin \in Nat /\ R1Min \in Nat \ {0} /\ R2Min \in Nat /\ R3Min \in Nat /\ ScanMin <= R2Min
    /\ \A t \in Requests : IsRequest(t)

VARIABLES
    logged,      \* the rows of request_log
    sending,     \* requests answered whose row is not inserted yet
    rowId,       \* the last id
    day,
    rules,       \* the agents that is_bot takes for bots
    job,         \* the runs of reclassify_bots, and the agents they have left
    settled,     \* the backfill has been through since the boot
    applied,     \* a recompute has been through since the last release
    recomputed,  \* history: the rows a recompute has written
    deploys

logVars == <<logged, sending, rowId, day, rules, job, settled, applied, recomputed, deploys>>

Jobs     == {"backfill", "recompute"}
Finished == [on |-> FALSE, left |-> {}]
Begun(agents) == [on |-> TRUE, left |-> agents]

\* Rows from before the columns existed: no duration, no class, not tolled.
Legacy(n, t) == [id |-> n, day |-> 0, req |-> [t EXCEPT !.tolled = FALSE], bot |-> "null",
                 timed |-> FALSE]

Unset(rs)    == {r.req.agent : r \in {s \in rs : s.bot = "null"}}
EveryAgent(rs) == {r.req.agent : r \in rs}

LogInit ==
    /\ \E t \in Requests : logged \in {{}, {Legacy(1, t)}}
    /\ sending = {} /\ rowId = 1 /\ day = 0 /\ rules \in Rulesets
    /\ job = [j \in Jobs |-> IF j = "backfill" THEN Begun(Unset(logged)) ELSE Finished]
    /\ settled = FALSE /\ applied = FALSE /\ recomputed = {} /\ deploys = 0

-----------------------------------------------------------------------------

(***************************************************************************)
(* Writing.                                                                *)
(***************************************************************************)

\* is_bot: none, or one with a marker.
ClassOf(agent) == IF agent \in rules THEN "bot" ELSE "human"

\* A request that was tolled is no human, whatever its agent says.
StampOf(t) == IF t.tolled THEN "bot" ELSE ClassOf(t.agent)

\* log_requests: the answer goes out, the insert is left to a task.
LogRequest(t) ==
    /\ t.path \notin Unlogged /\ rowId + Cardinality(sending) < MaxLog
    /\ sending' = sending \cup {[req |-> t, bot |-> StampOf(t)]}
    /\ UNCHANGED <<logged, rowId, day, rules, job, settled, applied, recomputed, deploys>>

\* RequestLogDao::insert: the database gives the id and the time.
InsertRow(s) ==
    /\ s \in sending /\ sending' = sending \ {s}
    /\ rowId' = rowId + 1
    /\ logged' = logged \cup
         {[id |-> rowId', day |-> day, req |-> s.req, bot |-> s.bot, timed |-> TRUE]}
    /\ UNCHANGED <<day, rules, job, settled, applied, recomputed, deploys>>

\* An insert that fails is dropped.
DropRow(s) ==
    /\ s \in sending /\ sending' = sending \ {s}
    /\ UNCHANGED <<logged, rowId, day, rules, job, settled, applied, recomputed, deploys>>

\* prune_before, daily.
PruneLog ==
    /\ logged' = {r \in logged : r.day >= day - Retention} /\ logged' # logged
    /\ UNCHANGED <<sending, rowId, day, rules, job, settled, applied, recomputed, deploys>>

\* reclassify_bots: the agents to go through, one by one.
ToClassify(j) == IF j = "backfill" THEN Unset(logged) ELSE EveryAgent(logged)

\* The admin asks for a recompute of every row.
Recompute ==
    /\ ~job["recompute"].on
    /\ job' = [job EXCEPT !["recompute"] = Begun(ToClassify("recompute"))]
    /\ UNCHANGED <<logged, sending, rowId, day, rules, settled, applied, recomputed, deploys>>

\* The fault of a backfill that does not look at what is stamped already.
TouchedAll(j, a) == {r \in logged : r.req.agent = a}
\* The rows that the UPDATE for an agent writes.
Touched(j, a) == {r \in logged : r.req.agent = a /\ (j = "backfill" => r.bot = "null")}

Classify(j, a) ==
    LET rows == Touched(j, a)
    IN  /\ job[j].on /\ a \in job[j].left
        /\ job' = [job EXCEPT ![j].left = @ \ {a}]
        /\ logged' = (logged \ rows) \cup {[r EXCEPT !.bot = ClassOf(a)] : r \in rows}
        /\ recomputed' = IF j = "recompute" THEN recomputed \cup {r.id : r \in rows} ELSE recomputed
        /\ UNCHANGED <<sending, rowId, day, rules, settled, applied, deploys>>

Classified(j) ==
    /\ job[j] = Begun({}) /\ job' = [job EXCEPT ![j] = Finished]
    /\ settled' = TRUE /\ applied' = (applied \/ j = "recompute")
    /\ UNCHANGED <<logged, sending, rowId, day, rules, recomputed, deploys>>

\* An UPDATE fails: the rest is left, and the admin is told, or the log.
Aborted(j) ==
    /\ job[j].on /\ job' = [job EXCEPT ![j] = Finished]
    /\ UNCHANGED <<logged, sending, rowId, day, rules, settled, applied, recomputed, deploys>>

NextDay ==
    /\ day < MaxDay /\ day' = day + 1
    /\ UNCHANGED <<logged, sending, rowId, rules, job, settled, applied, recomputed, deploys>>

\* A release: the tasks are gone, the rules may be others, the backfill starts.
Deploy ==
    /\ deploys < MaxDeploys /\ deploys' = deploys + 1
    /\ rules' \in Rulesets /\ sending' = {}
    /\ job' = [j \in Jobs |-> IF j = "backfill" THEN Begun(ToClassify(j)) ELSE Finished]
    /\ settled' = FALSE /\ applied' = FALSE
    /\ UNCHANGED <<logged, rowId, day, recomputed>>

LogNext ==
    \/ \E t \in Requests : LogRequest(t)
    \/ \E s \in sending : InsertRow(s) \/ DropRow(s)
    \/ \E j \in Jobs : Classified(j) \/ Aborted(j) \/ \E a \in EveryAgent(logged) : Classify(j, a)
    \/ PruneLog \/ Recompute \/ NextDay \/ Deploy

LogSpec == LogInit /\ [][LogNext]_logVars

-----------------------------------------------------------------------------

(***************************************************************************)
(* Reading.  A window is the days from w[1] on and before w[2].            *)
(***************************************************************************)

Forever    == MaxDay + 1
Presets    == {<<day - n, Forever>> : n \in 0 .. Retention}
Custom     == {w \in (0 .. MaxDay) \X (0 .. Forever) : w[1] < w[2]}
Windows    == Presets \cup Custom
Audiences  == {"all", "humans", "bots", "challenged"}

InWindow(w)  == {r \in logged : r.day >= w[1] /\ r.day < w[2]}
Of(au, rs) == {r \in rs : CASE au = "all"        -> TRUE
                            [] au = "humans"     -> r.bot = "human"
                            [] au = "bots"       -> r.bot = "bot"
                            [] au = "challenged" -> r.req.tolled}
Addrs(rs)  == {r.req.addr : r \in rs}
PathsOf(rs)  == {r.req.path : r \in rs}
Failed(rs) == {r \in rs : r.req.status >= 400}
Status(rs, s) == {r \in rs : r.req.status = s}
SumOver(f, S) == MapThenSumSet(LAMBDA x : f[x], S)
Sum(f)        == SumOver(f, DOMAIN f)
\* SELECT key, COUNT( * ) ... GROUP BY key.
CountBy(rs, Key(_)) == [k \in {Key(r) : r \in rs} |-> Cardinality({r \in rs : Key(r) = k})]

CountSince(w, au)      == Cardinality(Of(au, InWindow(w)))
DistinctIpCount(w, au) == Cardinality(Addrs(Of(au, InWindow(w))))
DistinctChallengedIps(w) == Cardinality(Addrs({r \in InWindow(w) : r.req.tolled}))
AudienceCounts(w) ==
    LET Bot(b) == Cardinality({r \in InWindow(w) : r.bot = b})
    IN  [all |-> Cardinality(InWindow(w)), humans |-> Bot("human"), bots |-> Bot("bot")]
CountByUserAgent(w) == CountBy(InWindow(w), LAMBDA r : r.req.agent)

\* The fault of a series that forgets the greylist's audience.
CountByDayAll(w, au) ==
    LET rs == IF au = "challenged" THEN InWindow(w) ELSE Of(au, InWindow(w))
    IN  CountBy(rs, LAMBDA r : r.day)
CountByDay(w, au) == CountBy(Of(au, InWindow(w)), LAMBDA r : r.day)

DistinctIpByDay(w, au) ==
    LET rs == Of(au, InWindow(w))
    IN  [d \in {r.day : r \in rs} |-> Cardinality(Addrs({r \in rs : r.day = d}))]

\* shape_timeseries: every day from the first to the last, 0 where nothing was.
Filled(f, axis)  == [d \in axis |-> IF d \in DOMAIN f THEN f[d] ELSE 0]
TimeSeries(w, au) ==
    LET present == DOMAIN CountByDay(w, au) \cup DOMAIN CountByDay(w, "challenged")
        axis    == IF present = {} THEN {} ELSE Min(present) .. Max(present)
    IN  [total  |-> Filled(CountByDay(w, au), axis),
         unique |-> Filled(DistinctIpByDay(w, au), axis),
         tolls  |-> Filled(CountByDay(w, "challenged"), axis)]

StatusBuckets(w, au) ==
    LET rs == Of(au, InWindow(w))
        N(ss) == Cardinality({r \in rs : r.req.status \in ss})
    IN  [s2xx |-> N(200 .. 299), s3xx |-> N(300 .. 399), s403 |-> N({403}), s404 |-> N({404}),
         s429 |-> N({429}), s4xx |-> N((400 .. 499) \ {403, 404, 429}), s5xx |-> N(500 .. 599)]

\* The top pages, under a ceiling of the status; assets and diagrams are none.
ContentPaths(w, au, ceiling) ==
    LET rs == {r \in Of(au, InWindow(w)) : r.req.status < ceiling}
    IN  PathsOf({r \in rs : r.req.path \notin Embedded \cup Drawn})
NeverSucceeded(w) ==
    {p \in PathsOf(InWindow(w)) :
        LET hits == {r \in InWindow(w) : r.req.path = p} IN hits = Failed(hits)}

\* The leaderboard: raw rows, whatever their audience.
From(w, a) == {r \in InWindow(w) : r.req.addr = a}
NoisyIp(w, a) ==
    [total  |-> Cardinality(From(w, a)),
     paths  |-> Cardinality(PathsOf(From(w, a))),
     dead   |-> Cardinality(PathsOf(Status(From(w, a), 404))),
     errors |-> Cardinality(Failed(From(w, a)))]
IsScanner(row) == row.dead >= ScanMin

\* The drill-down of an address: the pairs of a path and a status.
IpPathStatus(w, a) == CountBy(From(w, a), LAMBDA r : <<r.req.path, r.req.status>>)
IpUserAgents(w, a) == CountBy(From(w, a), LAMBDA r : r.req.agent)
IpDetail(w, a) ==
    LET f == IpPathStatus(w, a)
        On(P(_)) == {ps \in DOMAIN f : P(ps[2])}
    IN  [total |-> Sum(f), paths |-> Cardinality({ps[1] : ps \in DOMAIN f}),
         dead |-> Cardinality({ps[1] : ps \in On(LAMBDA s : s = 404)}),
         errors |-> SumOver(f, On(LAMBDA s : s >= 400))]

\* Detection: what the sweep scores, from the triples of all addresses.
IpPathAggregates(w) == CountBy(InWindow(w), LAMBDA r : <<r.req.addr, r.req.path, r.req.status>>)
Features(w, a) ==
    LET f   == IpPathAggregates(w)
        own == {t \in DOMAIN f : t[1] = a}
        bad == {t \in own : t[3] >= 400}
    IN  [hits   |-> SumOver(f, {t \in bad : t[2] \in Probes}),
         dead   |-> Cardinality({t[2] : t \in {b \in bad : b[3] = 404}}),
         errors |-> SumOver(f, bad),
         total  |-> SumOver(f, own)]
Scored(w) == {a \in Addrs(InWindow(w)) : a \in Public}
Score(f) ==
    CASE f.hits >= R1Min -> "R1"
      [] f.hits < R1Min /\ f.dead >= R2Min -> "R2"
      [] f.hits < R1Min /\ f.dead < R2Min /\ f.total >= R3Min -> "R3"
      [] OTHER -> "clear"

\* Where visits come from: hosts, noise, the site itself, nowhere.
RefererUrls(w)        ==
    CountBy({r \in InWindow(w) : r.req.referer # "direct"}, LAMBDA r : r.req.referer)
DirectRefererCount(w) == Cardinality({r \in InWindow(w) : r.req.referer = "direct"})
GroupReferers(w) ==
    LET n(c) == IF c \in DOMAIN RefererUrls(w) THEN RefererUrls(w)[c] ELSE 0
    IN  [external |-> n("external"), noise |-> n("noise"), internal |-> n("internal"),
         direct |-> DirectRefererCount(w)]

\* Latency: what was timed, but for the assets; diagrams count here.
LatencySamples(w) == {r \in InWindow(w) : r.timed /\ r.req.path \notin Embedded}
Slowest(rs) == Max({r.req.ms : r \in rs})
\* The nearest rank: the least that p percent of the samples do not exceed.
Percentile(rs, p) ==
    LET AtMost(m) == Cardinality({r \in rs : r.req.ms <= m})
    IN  Min({m \in {r.req.ms : r \in rs} : 100 * AtMost(m) >= p * Cardinality(rs)})
ByRoute(w) ==
    [p \in PathsOf(LatencySamples(w)) |->
        LET rs == {r \in LatencySamples(w) : r.req.path = p}
        IN  [count |-> Cardinality(rs), p50 |-> Percentile(rs, 50), p95 |-> Percentile(rs, 95),
             max |-> Slowest(rs)]]

-----------------------------------------------------------------------------

(***************************************************************************)
(* Correctness.                                                            *)
(***************************************************************************)

Quiet == sending = {} /\ \A j \in Jobs : ~job[j].on

\* The audience of every row is right, whatever the backfill, a recompute, the
\* inserts and a release do to it together: only a recompute takes a request
\* that was tolled for a human's; once the backfill is through no row is
\* without a class; once a recompute is through every row has the class of
\* the present rules, or is a tolled one (reclassify_bots, log_requests).
AudienceIsRight ==
    /\ \A r \in logged : r.req.tolled /\ r.bot # "bot" => r.id \in recomputed
    /\ settled => \A r \in logged : r.bot # "null"
    /\ applied => \A r \in logged : r.bot = ClassOf(r.req.agent) \/ (r.req.tolled /\ r.bot = "bot")

\* The reports, each a query of its own, agree: the series and the buckets add up
\* to the totals, the chips to all once every row has a class, the sources to
\* all; the leaderboard, the drill-down and the sweep count an address alike
\* (show_analytics, show_ip_detail, build_features).
EveryReportAgrees ==
    \A w \in Windows :
      /\ \A au \in Audiences :
           LET n == CountSince(w, au)
               series == TimeSeries(w, au)
               good == ContentPaths(w, au, 400)
           IN  /\ Sum(CountByDay(w, au)) = n /\ Sum(StatusBuckets(w, au)) = n
               /\ Sum(series.total) = n /\ DistinctIpCount(w, au) <= Sum(series.unique)
               /\ Sum(series.tolls) = CountSince(w, "challenged")
               /\ good \cap NeverSucceeded(w) = {} /\ good \subseteq ContentPaths(w, au, 10000)
      /\ LET n == AudienceCounts(w) IN settled => n.humans + n.bots = n.all
      /\ Sum(GroupReferers(w)) = CountSince(w, "all")
      /\ Sum(CountByUserAgent(w)) = CountSince(w, "all")
      /\ DistinctChallengedIps(w) <= CountSince(w, "challenged")
      /\ \A a \in Addrs(InWindow(w)) :
           LET row == NoisyIp(w, a)
               f == Features(w, a)
           IN  /\ row = IpDetail(w, a) /\ Sum(IpUserAgents(w, a)) = row.total
               /\ a \in Scored(w) => /\ f.dead = row.dead /\ f.errors = row.errors
                                     /\ Score(f) = "R2" => IsScanner(row)
      /\ LET rs == LatencySamples(w)
             by == ByRoute(w)
         IN  rs # {} => /\ \E p \in DOMAIN by : by[p].max = Slowest(rs)
                        /\ \A p \in DOMAIN by : by[p].p50 <= by[p].p95
                        /\ Percentile(rs, 95) <= Slowest(rs)

\* So they do when nothing is written while they are read: TLC looks at the quiet
\* states of the last day, whose windows include those of every day before.
ReportsAgree == Quiet /\ day = MaxDay => EveryReportAgrees

=============================================================================
