# A TLA+ model of hotchkiss-io

hotchkiss-io is a personal web site in one Rust process: an axum server over one
SQLite file and a content-addressed media directory, with background tasks that
keep its DNS records, its certificate, a behavioural greylist and a dead-link
report up to date. Almost nothing in it holds a lock or a transaction across an
`await`. A request handler is a sequence of queries, a background pass a sequence
of queries, network calls and file operations, and the correctness of the site is
a matter of what happens between them.

This directory models those interleavings. TLC explores every module exhaustively
on a small instance; TLAPS proves the central properties for every value of the
constants. `PROJECT.json` maps each definition to the source lines it stands for
and lists the runs, the mutants that show each property can fail, the findings,
the hazards and the theorems.

Paths below are relative to `src/`.

## 1. The system: inventory

| Component (source) | State it keeps | Operations | What makes it hard | What makes it correct |
|---|---|---|---|---|
| **Greylist** (`greylist/sweep.rs`, `crawler.rs`, `active_set.rs`, `db/dao/greylist.rs`, `web/features/admin/greylist.rs`) | `greylist` table; in-memory snapshot and own-address allowlist | 15-minute sweep, "Run sweep now", pin, release, request-time lookup | a sweep is dozens of awaits long; DNS can be inconclusive; admin requests write the table, then the snapshot | no crawler tolled by a blunt rule, pins stick, bans only slide forward, the snapshot converges to the table |
| **Challenge** (`greylist/challenge.rs`, `web/features/challenge.rs`, `web/middleware/greylist_challenge.rs`, `db/dao/crypto_key.rs`) | a key row; otherwise what browsers hold (token, image, cookie) | the door, interstitial, token, image, answer, clearance | stateless: restarts, other art and other addresses fall between its requests | who paid is let in until the clearance ends, nobody else is |
| **Accounts** (`web/features/login.rs`, `web/session.rs`, `web/middleware/*`, `db/dao/users.rs`, `api_keys.rs`, `web/features/admin/users.rs`) | `users`, `crypto` rows, API keys, cookie sessions that hold a copy of the user | passkey ceremonies, logout, role changes, deletion, keys | a request works on a private copy of its session and saves it with its response; check-then-act on rows | admin power only where it was granted, never no admin |
| **Dead links** (`deadlinks/scan.rs`, `dao.rs`, `web/features/admin/dead_links.rs`) | `link_check`, `link_ref`, a single-flight slot | daily scan, manual scan, re-check, dismissal | a scan takes minutes and writes rows computed from earlier reads | a streak of failures takes days, one pass at a time, a dismissal stands |
| **Probes** (`deadlinks/internal.rs`, `external.rs`, `classify.rs`) | none | classification, walk of the tree, HEAD and GET | a map of the site kept beside the router's; a walk is one query a name | dead only if it was dead, ok only if it was ok |
| **Page tree** (`db/dao/content_pages.rs`, `web/features/pages/*`, `roles.rs`) | `content_pages` (a tree with a gate per page) | create, update, delete, publish, view by path | a path is resolved one query per segment; updates write back a whole row | nothing is shown that was never open to the viewer, no orphan pages, no page opened by accident |
| **Listings** (`listing.rs`, `child_index.rs`, `blog.rs`, `home.rs`, `library.rs`, `three_d.rs`, `seo.rs`, `top_bar.rs`) and **feeds** (`feed.rs`) | none; a feed reader keeps a copy with its validators | indexes, search, pager, tabs, grids, sitemap; conditional GET | the gate is written in SQL and in Rust; count, window and search are queries of their own; a feed reads section after section; dates are in seconds | a list names only what its viewer may open, and all of it; a 304 only for an unchanged feed |
| **Manga ingest** (`web/features/admin/manga_ingest.rs`) | pages and media | reserve a page, store the file, fill the page, roll back | failure in the middle, re-runs | a re-run is idempotent |
| **Media store and items** (`media/mod.rs`, `web/features/admin/media.rs`, `db/dao/media.rs`, `coordinator/backfill_responsive_images.rs`) | `media`, `media_variant`, blob files | upload, replace, append, rotate, crop, re-derive, delete, backfill at boot | spawned derivations nobody waits for; temp files shared by name; rows and files are separate | a row has its bytes, files are whole, an item at rest has exactly its rungs |
| **Media serving** (`web/features/media.rs`, `media_select.rs`, `db/dao/media.rs`, `web/features/pages/write.rs`) | none; shared caches, and the links of saved pages | manifest, negotiated redirect, embed, byte route, page saves | the same bytes may be in several items, each with a gate; the drive may be away | bytes only to whom every owner admits, a hidden item looks missing, links outlive replacements |
| **Public address** (`coordinator/ip_provider_service.rs`, `dns_provider_service.rs`, `dns/cloudflare_client.rs`) | last address, a broadcast channel of capacity one, A records at Cloudflare | hourly fetch, update, 15-minute reconciliation | missed messages, stale resolvers, half-done updates | the domain follows the server and is never unlisted |
| **Certificates** (`coordinator/acme_provider_service.rs`, `acme/*`, `endpoints_provider_service.rs`) | certificate and ACME account rows, a broadcast of certificates, TXT records | load, order, prove, save, announce, reload | outages while the served certificate runs out, restarts inside an order, a certificate announced once | what is served has not expired and is what the provider thinks is served |
| **Request log** (`db/dao/request_log.rs`, `web/middleware/request_log.rs`, `web/features/admin/analytics.rs`, `greylist/detection.rs`) | `request_log` | insert in a task of its own, prune, `is_bot` backfill and recompute, reports, scoring | two jobs and the inserts write the class of the same rows; every number has its own query | a row's audience is right, reports agree with one another and with the sweep |
| **Backups** (`coordinator/backup.rs`) | one file a day | snapshot, rotation | two runs may meet in a file that is removed first | a whole snapshot remains |
| **Boot** (`coordinator/service_coordinator.rs`) | – | builds the services, spawns detached tasks, ends the process when one service fails | what is memory only is empty after a restart | each component's `Restart` / `Crash` / `Reboot` |
| Rendering, derivation, MCP, capture, plumbing, scripts | see `PROJECT.json` | – | stateless | – |

**Interactions.** Handlers and tasks share the SQLite file (one statement is
atomic), the blob directory, and a few in-process values: the greylist snapshot
behind an `RwLock`, the dead-link slot, the session store, the broadcast channels.
The IP provider announces an address to the DNS provider and to the greylist's
allowlist; the sweep reads that allowlist and the request log the middleware
writes; the door reads the snapshot the sweep refreshes, and what it tolls is logged; the
dead-link scan asks the probes, which ask the page tree and the media; page saves look up
media; the manga ingest calls the page-write service and the media upload; the
router runs the session layer, the API-key and role middleware, and the greylist
door before any handler. A failed service ends the process and launchd restarts it
(`service_coordinator.rs`, `start`), so a restart can follow any step.

`PROJECT.json` lists the hazards of this code one by one, each at its line, with
the properties that cover it.

## 2. Plan

Everything of the first plan is written: `Greylist`, `Accounts`, `DeadLinks`, `Pages`, `Media`,
`Latest` with `PublicIp`, `Certificates`, the feed (in `Catalogue`, with the listings) and
`Challenge`; and beyond it `Serving`, `RequestLog`, `Backups` and `Probes`.

What is left, in this order:

1. the columns for order, category and cover in `Pages`, whose writes `Catalogue` and
   `Serving` have in one step, and a sequential specification of the tree (every write atomic) that
   `Pages` implements for writers whose reads are not overtaken: `Catalogue`'s writes;
2. several media roots, ranges and the metadata of audio in `Media` and `Serving`;
3. the session touch and inactivity expiry in `Accounts`;
4. `Greylist` composed with `PublicIp` (the allowlist then follows the channel) and with
   `RequestLog` (the score is then computed, not chosen).

*Runs.* One passing run per group of components, small enough to finish in minutes; a violating run
only where the code disagrees with one of its own comments.

## 3. The modules

Every model has one action per database statement, file operation or network
call, because that is where the code awaits; what lies between two awaits is in one
action. `MC*` modules give the constants values. Modules that share no variable are checked in
one run: a variable `part`, chosen in the initial state and kept, tells which of them moves, and the
others rest where they started (`MCGreylistLog`, `MCAccountsDoor`, `MCTimers`, `MCCatalogue`,
`MCMediaServing`). Their steps commute, so interleaving them would show nothing more.
Definitions that a comment calls a *mutant* or a *fault* are not part of the specifications: each is a plausible slip in one
definition, used to check that a property notices it.

### Greylist

`rows` is the table, `inner` and `allow` the two halves of `GreylistSet`, `log` what the
scoring of `detection.rs` says of each address (an input), `pass` the sweeps in flight and
`req` the admin requests. A pass goes `Begin` (read and score, fix the expiry), `Consider`,
`Verify` (FCrDNS, may be inconclusive), `Upsert`, `ReadAllowlist`, `ReleaseOperator`,
`Prune`, `ReadActive`, `Refresh` – `sweep::run_once` from top to bottom. A pin or release
is two steps, table then snapshot, and the client can hang up in between. `Crash` keeps
only the table. Time is in days.

### Accounts

`role` is the users table, `store` the session store, `req` the requests in flight, each
with its private copy of the session (`copy`), what it read (`was`, `count`) and its
identity. A request arrives by cookie or by API key (`Arrive`, `ArriveWithKey`), learns
who it is (`Lookup*`, the middleware with its fallback to the role in the cookie), runs its
handler statement by statement, and saves the copy with its response if it changed
(`Finish`). Passkey cryptography is the browser's choice of a user. `granted` is a history
variable: who founded the site or was promoted. `Family` behaves like `Registered` here and is
folded into it.

### DeadLinks

`check` and `refs` are the two tables, `running` the slot, `scan` and `recheck` the passes
in flight with the rows they have read (`held`), `due` the timer. `record` is two steps –
read the row, write the next one – so a dismissal, a scan and a re-check can overtake each
other. `NextState` is the Rust `next_state`. What a link answers is a free choice. Time is
in arbitrary units; `MaxBusy` bounds how long a pass, a re-check or a late tick takes.

### Pages

`db` maps ids to rows, `req` are the requests in flight. `Resolve` is one query of
`find_by_path`; `Insert` and `Stamp` are the two statements of `create_page`; `Write` is the
UPDATE of a whole row that was read earlier; `Check`, `Media`, `Rollback` belong to the batch
ingest. `Shut` is the gate of `get_page_path`. A future dropped at an await is `Abort`, which
also stands for a restart. `allowed` and `overlap` are history: what each view could have been
shown so far, and whether two writers were ever in flight together.

### Media

A blob *is* its content: the original of an upload, or rung *k* of an original under an
edit. `disk` and `tmp` are the files and temp files, `item` and `variants` the tables, `task`
everything in flight: requests, the derivations they spawn, the backfill. `Commit` publishes
a staged upload; `Check`, `Open`, `Write`, `Rename`, `Record` are `MediaStore::store` and the
row after it. Deliberate abstractions: one file per request, images only, one root, exactly
`Rungs` rungs per derivation, gates and titles left out, deleting an item's last original left
out, and a store on the blocking pool is not interrupted by a hang-up (the code's is not).

### PublicIp and Latest

`current` and `measured` are the provider, `chan` and `rx` the broadcast channel (the message
it retains, and per receiver whether it is up to date, has a message, or has lagged), `dns` the
DNS provider, `records` Cloudflare's A records and `answer` what a resolver says they are.
`Measure` and `Announce` are the hourly fetch, `DnsRecv` and `Reconcile` the `select!`, and
`Lookup`, `Fetch`, `Create`, `Delete`, `Confirm` the reconciliation call by call. `Latest` is
what the coordinator wants of the channel: a reader holds a value that was the newest when it
took it, and in the end the newest. `PublicIp` instantiates it with `chan` and with what the two
readers work with (`Held`) and has it as a PROPERTY. A static IPv6 server address and an
operator who edits the zone by hand are not modelled; records with one address are one record.

### Serving

`media` and `kept` are the two media tables with items of every kind, `visit` the requests in
flight, `drive` the media root (there, unmounted, or so slow that a request gives up), `shared` a
cache between the site and its visitors, `page` a saved page with its link and cover. A visit is
`Ask`, `Find` (the item and its gate), `Variants`, the pick of `media_select.rs` – `Negotiate`, `Ladder`,
`Embed` – or, on the byte route, `AskFile`, `Gate` (one query for the row and the strictest gate of
all items that hold the bytes) and `Disk`. `PostItem`, `AddRow`, `AddCover`, `ReplaceSet`,
`AppendFile`, `UpdateMetadata`, `EditImage`, `DropItem` and `DropVariant` are what admins do
meanwhile, `SavePage`, `ResolveCover`, `LookUp`, `WritePage` a page save that turns pasted byte
URLs into refs. History: what each request could have been given (`open`, `seen`) and what was ever
public. How files get on the disk is left to `Media`.

### Certificates

A certificate is the time it expires. `stage` is where `refresh_once` stands, from the stored
certificate (`Unchanged`, `Broadcast`, `Renew`) through the order (`CreateOrLoad`, `CleanProof`,
`NewOrder`, `CreateProof`, `Validate`, `Finalize`) to `Save` and `BackOff`; `channel` is the broadcast,
`served` what the endpoint has loaded (`FirstConfig`, `Reload`), `txt` the proofs in the zone. During
`trouble` any step may fail. One unit of time is much longer than an order; `Wait` lets a unit pass
when everybody sleeps.

### Backups

`snapshots` are the files by day, each with its writer and whether it is whole. `StartBackup`,
`RemoveStale`, `Vacuum`, `Copied`, `PruneOne` are `run_backup` and `prune_old_backups` for the daily
run and the run before the image backfill, with `VacuumFails`, `Midnight` and `Reboot` in between.

### RequestLog

`logged` are the rows, `sending` the inserts in flight, `job` the two runs of `reclassify_bots` with
the agents they have left. A request is a record of classes (who, which path, agent and referer,
which answer). `LogRequest`, `InsertRow`, `DropRow`, `PruneLog`, `Recompute`, `Classify`, `Classified`, `Aborted`, `NextDay`
and `Deploy` write; what `show_analytics`, `show_ip_detail` and `build_features` read are
operators, one per query, from `CountSince` to `Percentile`.

### Catalogue

`rows` is `content_pages` with order, category, gate, date and stamp; a write is one step. The
lists of every route are operators over `rows`, `second` and a viewer (`BlogIndex`, `ProjectsIndex`,
`ThreeDIndex`, `LibraryIndex`, `LibrarySection`, `ChildGrid`, `SiblingNav`, `Tabs`, `Sitemap`, ...). The feed has a
state of its own: `AskFeed` with the validators of the client's `copy`, `ReadSection` one by one,
`AnswerFeed`. `since` says what has happened since the copy was collected: two stamps in a second, a
read torn by a write, a section whose gate turned, a section too long for the feed.

### Challenge

`visitor` is what a browser holds: its page, token, digest, images, cookie. `Knock` is the door,
`NewChallenge`, `DrawImage` and `VerifyChallenge` the toll, `Restart` a deployment with the same
key and perhaps other art, `Relist` the sweep, `Around` a login or another address. A seed or a MAC is
the record it is computed from. `paid` is history: until when each visitor has paid.

### Probes

`tree`, `media` and `variants` are the site, `remote` what another host answers, `probe` the check of
one link: `Classify`, then `Resolved` or one `Walk` per name, or `SendHead` and `SendGet`. `Served` is the
other half: what `create_router` gives an admin. Pages and media come and go between the queries.
`seen` is history: whether a visitor would have got the link since the check began, and whether
the tree was ambiguous meanwhile. What becomes of a verdict is in `DeadLinks`.

## 4. The runs

| Run | Shows | Bounds |
|---|---|---|
| `greylist_race` (`MCGreylistLog`) | two overlapping passes, a pin / release request, DNS failures, aborts, restarts: no crawler listed by a blunt rule, pins stick; the request log under its two jobs and a release: audiences are right, reports agree | 1 address (a crawler), 2 passes, 2 days, 3 events; 5 requests of different classes, up to 3 rows, 2 days, 2 sets of bot rules, 1 release |
| `greylist_live` (`MCGreylist`) | under fairness: bans slide forward, the snapshot and the purge of operator rows converge | 1 address, the timer, 2 days, 5 events |
| `accounts` (`MCAccountsDoor`) | nobody gains power not granted; the last admin is lost only through a stale value; the toll is just | 2 users, 1 browser, 2 requests, symmetry; 1 visitor, 2 addresses, 2 arts, freshness 1, clearance 3, clock 5, 3 turns |
| `deadlinks` (`MCTimers`) | streaks take days, one pass at a time, three bad daily passes confirm, dismissals are lost only to stale rows; dead means dead; the certificate served is valid and the current one; a whole snapshot remains | 1 url, 1 page, 2 scans, 1 re-check, 9 units, 2 events; 18 links of every kind, 4 page ids, 1 name, 1 item, 13 behaviours of another host, 3 changes; certificates of life 8, window 5, refresh 3, retry 1, 2 units of trouble between renewals, 2 restarts, 24 units; 5 days, 3 snapshots kept, 1 fault |
| `pages` (`MCCatalogue`) | what is served was allowed, no orphans, a batch alone is idempotent, pages open only on request or by a stale row; lists match the gate; a 304 is true | 2 writers, 1 view, 4 ids, 2 slugs, 3 events; 3 pages below the 5 special ones, 3 ranks, 3 texts, 3 searches, windows of 1 or 2, 3 seconds, 2 writes, 2 fetches |
| `media` (`MCMediaServing`) | rows have their bytes, only twin stores tear a file, requests one at a time leave exactly the right rungs; only allowed bytes are served, a hidden item looks missing, a shared cache holds only what was public, saved links survive | 2 uploads (one AVIF), 1 item, 2 rungs, 2 requests, 2 events, symmetry; 2 items, 2 blobs (a video and its frame), 2 ranks, 2 visitors, 2 variants, 3 events |
| `publicip` (`MCPublicIp`) | the domain is never unlisted and follows the address; the channel implements `Latest` | 3 addresses, any initial records, 3 moves / failures / restarts |
| `accounts_last_admin` | *violation*: two admins demote or delete each other and none is left | 2 users, 2 requests |
| `pages_loosened` | *violation*: an update that names no gate lowers it again | 2 writers |
| `media_partial` | *violation*: a partial file is readable under its content's name | 1 JPEG, 2 requests |
| `media_backfill` | *violation*: a restart makes the backfill skip an item for good | 2 items, no requests |
| `media_original` | *violation*: re-deriving drops an uploaded AVIF | JPEG and AVIF, 1 request |

**Why the bounds are enough.** `MaxEvents` and its like count what the environment or a user starts:
requests, failures, restarts, changes. Loops and the steps of what was started are
not counted. Each hazard needs at most two writers that overlap and one event between
them, so two or three events reach it, and every mutant (one per property) is found under
the run's own configuration. One address, url or item is enough where entries of a table do
not affect each other (greylist rows, links, media files); accounts need two because the
last-admin guard counts; pages need a depth of three because a gate may lie above a parent;
`Serving` needs two items because bytes are shared; `PublicIp` needs three addresses to miss one
between two others. `DeadLinks` runs for nine units with `Day = 4`, `Interval = 3`, which is three
daily passes, the confirmation threshold. `Certificates` runs for three lives of a certificate. `Probes`
needs four ids: the blog, a post, its child, and a page that takes a name that became free.
The windows of `Catalogue` are smaller than the number of pages, so that every limit is met.

**Initial states.** Where a module can start in many states, the composed run pins what its other
parts start from, which makes no difference to them; and two of the parts start narrower than
their modules allow, to save states that only multiply: in `MCTimers` the site is at its fullest only
while the other host is well (it may change in any later step), and in `MCCatalogue` the
fed part starts with all its pages in the two sections of the feed.
`MCCatalogue` also leaves out steps that its part cannot tell from others (`FeedStep`, `ListStep`).

**Deadlock.** `PublicIp` is checked for it: the provider never stops. The other runs say
`CHECK_DEADLOCK FALSE`, because their events or their clock are bounded and a site that nobody
uses any more may rest.

**Symmetry** is used in `accounts` and `media`, which have no liveness property; users,
requests, visitors and their slots are interchangeable there.

**Fairness.** Only `greylist_live` and `publicip` assume it. In the first, the sweep loop, an
accepted manual sweep and the tail of an admin request are weakly fair: the runtime polls a
ready task, and every DNS lookup and statement returns. Requests, crashes, traffic and
the clock are not fair. In the second, both loops and each call are weakly fair (every
request has a timeout of 30 s, `ensure_exists` of 5 minutes, intervals are periodic). `DnsRecv` is
strongly fair: it competes with the reconcile tick in a `select!`, which picks a ready branch at
random, so a message that is there again and again is taken in the end. That a failed
call does not fail for ever is the bound on events; that resolvers forget is weak
fairness of `Propagate`. The fetch of the address is fair too, which leaves out a provider that can
never reach the trace service again: then the code keeps the old address, as it must.
The renewal of the certificate is a safety property instead: `Wait` does not let time pass over a
step that is due, so `ServedIsValid` says that the renewal is in time, not only that it comes.

**Findings** (quoted in full in `PROJECT.json`):

- the last-admin guard counts and commits in separate queries (`web/features/admin/users.rs`);
- `update_page` restores an older gate it was not asked to change (`web/features/pages/write.rs`);
- `MediaStore::store` names its temp file after the content, so two stores of the same bytes
  publish a half-written file (`media/mod.rs`);
- the backfill marks an image as done before it has its rungs (`coordinator/backfill_responsive_images.rs`);
- the guard that protects an uploaded AVIF protects only the present source (`db/dao/media.rs`).

Three passing properties bound these: `LockoutOnlyByStaleRead`, `OpenedOnlyByStaleRow` and
`TornOnlyByTwins` say that nothing *else* leads there.

**Observed while modelling**, where no comment or test of the repository says otherwise; the
models have each of them as the code does it:

- *Feed.* A client that sends only `If-Modified-Since` keeps entries that are gone; two stamps in a
  second, or a read torn between the sections, can give two feeds one ETag. `CopyIsCurrent` names
  these cases.
- *Listings.* `home.rs` takes its rows before it filters them by the gate, so hidden rows can crowd
  out visible ones. `find_by_parent` orders by `page_order` alone, the paged grid by
  `page_order, page_id`. Deleting a gated or scheduled parent brings its children to the top, where
  the parent no longer hides them.
- *Pages over MCP.* `create_page` with a gate or a date writes the page public and live first and
  gates it in a second update; `list_pages` does not look at the parent's ancestors (its callers
  are admins).
- *Challenge.* The interstitial waits for "Continue": a visitor who is slower than the freshness
  window reads "Toll paid" and is tolled again.
- *Request log.* An admin's recompute gives tolled rows the class of their agent (`recomputed` in
  `AudienceIsRight`); the drill-down of an address misses what was logged before the
  retention and not pruned yet; the solve rate may exceed 100 %.
- *Backups.* At boot the daily run and the run of the image backfill can meet in one file: one of
  them fails, or reports a file that the other removed.
- *Certificates.* When saving fails after issuance, every retry orders another certificate.
- *Saved links.* The rewriting of byte URLs is a textual replacement and reaches code and prose.
  The cover of an edited image is picked by `image_ladder`, not `image_ladder_edited`.
- *Probes.* The resolver calls the editor's files (`/3d/editor/<v>/<file>`) dead, though the router
  serves them, and a path under a post (`/blog/<post>/<child>`) ok, though only `/pages/...` serves it; an
  item without files is ok but answers 404. A host that answers HEAD but not GET would be ok too:
  `Remotes` has none.
  Two pages of one name at the top, or a page that comes to the top during a walk, can deceive it.
  The report counts problems that no page cites any more in its header, and shows them in no group.

## 5. What is proved

All proofs are checked by `tlapm` for arbitrary constants that satisfy the modules'
assumptions (listed as `...Assumption`; TLC evaluates each on its instance). They do not depend
on `MaxEvents` or `MaxTime` being small.

- `Greylist_proofs`: `TypeCorrect`; `CrawlersSafe` (an address about to be upserted by a blunt
  rule is not a confirmed crawler: `Cleared`); `PinsStick`; `ExpirySlides`, for the timer as
  only sweeper (what a pass writes is at least as late as what any pass wrote before: `Bounded`).
  `AudienceAlwaysRight`, of `RequestLog`: a row is right, or a run in flight has its agent left to
  classify (`LogInv`), so a run with no agent left has left nothing wrong.
  `ReportsAlwaysAgree`, of `RequestLog`, in every state, also in the middle of a run (`ReportsAgree`, as
  TLC checks it, looks at quiet states only). Its invariant is `LogTyped` alone: the log is finite and
  its rows are typed. The rest is a lemma on sums, `GroupSum`: if `f` has for each key the number of rows
  with that key, its sum over some keys is the number of rows that have one of them. It holds because the
  number of rows with a key in `s`, taken as a function of `s`, solves the recursion by which
  `MapThenSumSet` goes through a set, and any two solutions agree (by the least size at which they
  would not). Each report is then a key: the day, the bucket, the source, the agent, path and
  status; the unique addresses of a day are counted as pairs of day and address.
- `Accounts_proofs`: `TypeCorrect`; `PowerIsGranted` (whatever a request holds – identity, copy,
  role it read – is earned: `Earned`); `LockoutNeedsStaleRead` (a request that reached its
  commit against an admin has counted two: `Counted`). `DoorIsJust`, of `Challenge`: the server
  keeps no list of who paid, so each cookie and token is related to the history of payments (`Honest`),
  and the key is the first one for ever, restarts included.
- `DeadLinks_proofs`: `TypeCorrect`; `StreakTakesDays` (every row, stored or held, is `Spaced`:
  its streak has taken as many intervals as it has steps, less what its writer's clock lags);
  `OnePassAtATime`; `DismissalsStand`; `BadPassesConfirm` (`Streak`: the failing passes of a row are all
  counted in it, and the verdict the timer still holds of its url was computed `From` the row as it is,
  or its pass began an interval after the last).
- `Pages_proofs`: `TypeCorrect`; `NoPageAstray` (`Tree`: each page's parent is there, kept by the
  foreign key through every whole-row update); `OnlyAllowedServed` (`OpenWay`: a view that has met
  no closed page has met only pages open at some moment of the view); `OpenedByRequest`.
  `CopyAlwaysCurrent`, of `Catalogue` (`FeedInv`: all that is collected or held was stamped by now, and
  in this second only if it is known to be busy; whatever the two sections show that the copy has not
  bears a later stamp than the copy's own, `Newer`). So a feed that is no later than the copy is part of it,
  and one that is as long is the same. It needs that the lists take all of a set that has room
  (`Lists`: an ORDER BY gives every row once).
  `ListingsAlwaysMatch`, of `Catalogue`: no list names a page that its own route would hide. It
  needs no invariant beyond `CatTypes` and `Rooted` (a parent that is kept is there), but three
  facts of the operators. `Way`: the way up from a page is the least set with the page that is closed
  under parents, so a page opens when it and its parent do (`OpensUnder`). `LeafedIs`: the windows
  from the first page to the last cover the list, and the count, a query of its own, is its length, so
  the pager of the indexes of blog, projects and library leads to every page that opens. `Depth`: a
  cover found any number of levels down is a page all of whose ancestors up to the card open.
  Functions of a depth are shown to exist, and facts of each level proved, from the least level at
  which they would fail (`Climbs`, `Iterates`).
  `BatchAloneAddsOnce` (`Errand`: from its check on, the series holds no volume of the batch's file,
  the path it has walked leads to that series or to a page in no series, and the row it
  writes back is the row as it is), with pages of one name at the top and what aborts left there.
- `Media_proofs`: `TypeCorrect`; `RowsAlwaysHaveBytes` (`Bytes`: a task about to insert a row has
  seen its file on the disk, and files are never removed); `OnlyTwinsTear` (`Untorn`: two tasks
  in one store of the same blob are recorded as twins before either can rename).
  `AloneAlwaysComplete` (`Single`: while nothing but single requests happened, one task works and all
  others rest with nothing to do; what the working one has of the item, its rungs recorded so far and
  those it has in hand together are the rungs of its source).
- `Serving_proofs`: `OnlyAllowedBytesAlways`, `DeniedAlwaysLooksMissing` and `CacheAlwaysPublic`, for any
  items, blobs, gates and visitors: what a visit has found so far was allowed or visible at
  some moment of it, which is what the history variables remember. `SavedLinksAlwaysSurvive`
  (`Links`: only a lookup comes to the write, with an item or with the key as it was pasted; the link of
  a written page is the item, and no item takes the name of another).
- `Timers_proofs`: `NeverExpired`, under `CertAssumption` (the window has room for the longest sleep
  and a retry for each unit of trouble). The invariant `Margin` counts the retries slept since the
  last announcement: each is paid for by a unit of trouble, so what is left of the window
  when the sleep ends is more than the retries that can still come. `CurrentAlwaysServed` from the same.
  `DeadIsDead`: `OnWay` says that the walk has come to where the first names lead in the tree as
  it is now, or that its page was deleted and the visitor has missed the link since; two walks of
  the same names agree (`SameWalk`, by the least name on which they differ), so a walk that ends early
  is one that nobody can finish. What the resolver and the router each say of a path is compared
  shape by shape (`WalkTellsServed`, `ResolvedTellsServed`).
  `SnapshotRemains`, of `Backups`, for as few faults as `BackupAssumption` says: a fault costs at most
  two of the days kept (`Reserve` adds up what is lost and what may still be), and the newest whole one
  is not among those pruned (`NewestHold`).
- `PublicIp_proofs`: `TypeCorrect`, inductive only with `Quiet` (there is nothing to receive
  before something was sent); `StaysListed` (`Replacing`: while an update deletes, its own address
  is among the records); `ReadersHoldLatest`, the refinement `Spec => Watch!Spec`.

The argument is the same throughout: a strengthened invariant that also says what each task in
flight holds, shown inductive with one step per action, and then the property from it.

**Only model-checked.** Liveness (`SnapshotConverges`, `OperatorRowsPurged`, `Follows`, the
fairness half of `DeliversLatest`), because it needs ENABLED. And the violations. Every invariant and
every action property of the passing runs is a theorem.

## 6. What is not modelled

- Cryptography (passkeys, HMACs, TLS), HTTP and HTML, markdown, image and video codecs: data
  transformations whose outcome is a free choice, or a definition of what the code needs of it, where
  a model needs it. How user agents, referers and routes are parsed: a request of `RequestLog`
  comes with its classes.
- Session expiry (sessions live on in the model, the harder case), the page columns for order,
  category and cover in `Pages`, several media roots, byte ranges, titles and audio metadata.
- The spelling of an address: a pin typed in another IPv6 spelling never matches a
  request, and a model with one value per address cannot say so.
- A temporary upload left in `.staging` by a crash: wasted space that nothing reads.
- The tail of the log file, capture, preview, the resume PDF, the media tools of the MCP server and
  the garbage collection of sessions: stateless, or no other state depends on them.
