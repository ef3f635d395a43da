----------------------------- MODULE Catalogue -----------------------------
(***************************************************************************)
(* What readers find of the page tree: the Atom feed with its conditional  *)
(* GET, the sitemap, the home page, the indexes of blog, projects, 3D and  *)
(* library, the child grid, the navigation and the lists of the MCP tools. *)
(* Everything is computed from content_pages as it is read; the feed takes *)
(* one section after the other, while pages are written.                   *)
(*                                                                         *)
(* A write is one step here (its statements are steps in Pages).  The      *)
(* clock goes in seconds, the unit of page_modified_date and of            *)
(* Last-Modified.  A page is told by its id; of its text only what is      *)
(* looked for in it counts.                                                *)
(***************************************************************************)
EXTENDS Naturals, Sequences, FiniteSets, FiniteSetsExt

CONSTANTS
    PageIds,    \* page_id of the pages that are not special
    NoRow,      \* no such page
    TopRank,    \* Role::Admin
    Texts,      \* "plain", "embed" (it embeds an image), "grid", "newest" (a children fence)
    Searches,   \* ?q=: the texts and the pages whose name matches, and whether it is all hex
    FeedLimit,  \* PER_SECTION_LIMIT
    BandSize,   \* LATEST_TOTAL
    HomeFetch,  \* PER_SECTION_FETCH
    GridSize,   \* PAGE_SIZE
    RollupDepth, RollupScan,  \* ROLLUP_MAX_DEPTH, ROLLUP_SCAN
    LastSecond, \* bound on the clock
    MaxEdits,   \* bound on writes
    MaxFetches  \* bound on requests for the feed

Root         == 0
BlogPage     == 1
ProjectsPage == 2
ThreeDPage   == 3
ResumePage   == 4
LibraryPage  == 5
Specials     == 1 .. 5
Nodes        == Specials \cup PageIds
Ladder       == 0 .. TopRank
Never        == LastSecond + 1      \* 2999-01-01, the draft sentinel

PageRow == [parent : Nodes \cup {Root}, gate : Ladder, date : 0 .. Never, edited : 0 .. Never,
        text : Texts, pinned : BOOLEAN, order : Nat]

ASSUME CatalogueAssumption ==
    /\ PageIds \subseteq Nat \ (0 .. 5) /\ IsFiniteSet(PageIds)
    /\ \E i, j \in PageIds : i # j   \* the pages of the initial state
    /\ NoRow \notin PageRow
    /\ TopRank \in Nat /\ TopRank > 0
    /\ "plain" \in Texts
    /\ FeedLimit \in Nat /\ BandSize \in Nat /\ HomeFetch \in Nat /\ RollupDepth \in Nat
    /\ GridSize \in Nat \ {0} /\ RollupScan \in Nat
    /\ LastSecond \in Nat \ {0} /\ MaxEdits \in Nat /\ MaxFetches \in Nat

VARIABLES
    rows,     \* content_pages
    unused,   \* ids not given yet, AUTOINCREMENT
    second,   \* the clock
    edits, fetches,
    fetch,    \* a request for the feed
    copy,     \* what the client holds of it
    busy,     \* history: something has changed in this second
    since     \* history: what has happened since the copy was collected

catalogueVars == <<rows, unused, second, edits, fetches, fetch, copy, busy, since>>

-----------------------------------------------------------------------------

There(i)  == rows[i] # NoRow
Under(p)  == {i \in Nodes : There(i) /\ rows[i].parent = p}

\* is_scheduled: strictly in the future.
Scheduled(i) == rows[i].date > second

\* is_visible_to: special pages are exempt from the date, not from the gate.
VisibleAs(i, v) ==
    /\ i \in Specials \/ v = TopRank \/ ~Scheduled(i)
    /\ rows[i].gate <= v

\* is_nav_visible_to: a draft is no tab, not even for an admin.
TabFor(i, v) == (i \in Specials \/ ~Scheduled(i)) /\ rows[i].gate <= v

\* The nodes find_by_path comes through on the way to a page.
WayTo(i) ==
    LET up[n \in 0 .. Cardinality(PageIds)] ==
          IF n = 0 THEN {i} ELSE up[n-1] \cup ({rows[j].parent : j \in up[n-1]} \ {Root})
    IN  up[Cardinality(PageIds)]

\* get_page_path, show_post and the MCP tool get_page: every node counts.
OpensFor(i, v) == \A j \in WayTo(i) : VisibleAs(j, v)

(***************************************************************************)
(* The orders of content_pages.rs.                                         *)
(***************************************************************************)

Later(a, b)  == \/ rows[a].date > rows[b].date
                \/ rows[a].date = rows[b].date /\ a > b
Before(a, b) == \/ rows[a].order < rows[b].order
                \/ rows[a].order = rows[b].order /\ a < b

\* ORDER BY, for an order that is total.
OrderBy(S, Goes(_, _)) ==
    [n \in 1 .. Cardinality(S) |-> CHOOSE i \in S : Cardinality({j \in S : Goes(j, i)}) = n - 1]

\* find_by_parent_newest_first.
Newest(S) == OrderBy(S, Later)

\* find_by_parent: by page_order (ties are left open there).
InOrder(S) == OrderBy(S, Before)

FirstOf(s, n) == SubSeq(s, 1, IF n < Len(s) THEN n ELSE Len(s))

\* What is fetched loses what the viewer may not see, and keeps its order.
SeenBy(S, v) == {i \in S : VisibleAs(i, v)}

\* The Featured band: by page_order, then the newest.
BandOrder(a, b) == \/ rows[a].order < rows[b].order
                   \/ rows[a].order = rows[b].order /\ Later(a, b)
Pinned(S)   == OrderBy({i \in S : rows[i].pinned}, BandOrder)
Unpinned(S) == {i \in S : ~rows[i].pinned}

(***************************************************************************)
(* The paginated listings.  count_children and the two fetches have the    *)
(* same predicate: the search, the date (as the database tells the time)   *)
(* and the gate by rank.                                                   *)
(***************************************************************************)

\* The text of a page is searched only for a query that is not all hex.
Matches(i, q) == i \in q.names \/ (~q.hex /\ rows[i].text \in q.texts)
NoSearch      == [names |-> Nodes, texts |-> {}, hex |-> FALSE]

Listed(p, q, v) ==
    {i \in Under(p) : /\ Matches(i, q)
                      /\ v = TopRank \/ i \in Specials \/ rows[i].date <= second
                      /\ rows[i].gate <= v}

CountChildren(p, q, v) == Cardinality(Listed(p, q, v))

Window(s, n) == SubSeq(s, (n - 1) * GridSize + 1,
                       IF n * GridSize < Len(s) THEN n * GridSize ELSE Len(s))
ChildrenNewest(p, q, v, n)  == Window(Newest(Listed(p, q, v)), n)
ChildrenOrdered(p, q, v, n) == Window(InOrder(Listed(p, q, v)), n)

TotalPages(p, q, v) == Max({(CountChildren(p, q, v) + GridSize - 1) \div GridSize, 1})

\* paginate: the page asked for is clamped.
Paginate(p, q, order, v, n) ==
    LET last == TotalPages(p, q, v)
        page == Max({1, Min({n, last})})
    IN  [page |-> page, prev |-> page > 1, next |-> page < last,
         items |-> IF order = "newest" THEN ChildrenNewest(p, q, v, page)
                   ELSE ChildrenOrdered(p, q, v, page)]

\* All a reader comes to see who follows the pager to its end.
Leafed(p, q, order, v) ==
    UNION {Range(Paginate(p, q, order, v, n).items) : n \in 1 .. TotalPages(p, q, v)}

(***************************************************************************)
(* What each reader route shows; in each the section's own row is asked    *)
(* first.                                                                  *)
(***************************************************************************)

\* The fault of asking the children only.
SectionOpenAlways(s, v) == TRUE

\* A gate on the section's special row drops the whole section.
SectionOpen(s, v) == There(s) /\ VisibleAs(s, v)

\* show_home: fetched newest first and cut per section, then filtered.
HomeRows(v) ==
    SeenBy(UNION {IF SectionOpen(s, v)
                  THEN Range(FirstOf(Newest(Under(s)), HomeFetch)) ELSE {} :
                    s \in {BlogPage, ProjectsPage}}, v)
Featured(v) == Pinned(HomeRows(v))
Latest(v)   == FirstOf(Newest(Unpinned(HomeRows(v))), BandSize)

\* show_index of the blog and show_all_projects: a card for each page of the
\* window, or the 404.
BlogIndex(q, v, n) ==
    IF SectionOpen(BlogPage, v) THEN Paginate(BlogPage, q, "newest", v, n).items ELSE <<>>
ProjectsIndex(q, v, n) ==
    IF SectionOpen(ProjectsPage, v) THEN Paginate(ProjectsPage, q, "manual", v, n).items ELSE <<>>

\* show_3d_index: the pinned models, then the others.
ThreeDIndex(v) ==
    IF ~SectionOpen(ThreeDPage, v) THEN <<>>
    ELSE LET models == SeenBy(Under(ThreeDPage), v)
         IN  Pinned(models) \o InOrder(Unpinned(models))

\* newest_resume_child: a draft in front of a published one is skipped.
Resume(v) ==
    IF SectionOpen(ResumePage, v) THEN FirstOf(Newest(SeenBy(Under(ResumePage), v)), 1) ELSE <<>>

\* fill: the children fence of a page's text.
FenceOrder(i) == IF rows[i].text = "newest" THEN "newest" ELSE "manual"
ChildGrid(i, q, v, n) ==
    IF rows[i].text \in {"grid", "newest"} THEN Paginate(i, q, FenceOrder(i), v, n).items ELSE <<>>

\* The children a cover is looked for in, one level down.
Scanned(j, v) == FirstOf(InOrder(Listed(j, NoSearch, v)), RollupScan)

\* The first of them that has a cover of its own, or one from below.
CoverOf(kids, below) ==
    LET has == {n \in DOMAIN kids : rows[kids[n]].text = "embed" \/ below[kids[n]] # Root}
        kid == kids[Min(has)]
    IN  IF has = {} THEN Root ELSE IF rows[kid].text = "embed" THEN kid ELSE below[kid]

\* A container's card borrows the cover of its first descendant that has one.
Cover(i, v) ==
    LET from[d \in 0 .. RollupDepth] ==
          IF d = 0 THEN [j \in Nodes |-> Root]
          ELSE [j \in Nodes |-> CoverOf(Scanned(j, v), from[d-1])]
    IN  IF rows[i].text = "embed" THEN i ELSE from[RollupDepth][i]

\* The gate of the library's routes: a sign-in page, or come in.
LibraryIndex(q, v, n) ==
    IF SectionOpen(LibraryPage, v) THEN Paginate(LibraryPage, q, "manual", v, n).items ELSE <<>>

\* show_library_section: a section the viewer may not see sends them back.
LibrarySection(s, q, v, n) ==
    IF SectionOpen(LibraryPage, v) /\ s \in Under(LibraryPage) /\ VisibleAs(s, v)
    THEN Paginate(s, q, FenceOrder(s), v, n).items ELSE <<>>

\* The neighbours of a page among its siblings.
Around(s, i) == {s[n] : n \in {m \in DOMAIN s : \/ m > 1 /\ s[m-1] = i
                                                \/ m < Len(s) /\ s[m+1] = i}}

\* show_post: by date; sibling_nav: by page_order, for nested pages only.
PostNav(i, v)    == Around(Newest(SeenBy(Under(BlogPage), v)), i)
SiblingNav(i, v) ==
    IF rows[i].parent = Root THEN {} ELSE Around(InOrder(SeenBy(Under(rows[i].parent), v)), i)

\* breadcrumbs_from_path: the ancestors, but for the top one.
Crumbs(i) == {j \in WayTo(i) \ {i} : rows[j].parent # Root}

Tabs(v)   == {i \in Under(Root) : TabFor(i, v)}

\* redirect_to_first_page.
FirstPage == FirstOf(InOrder(SeenBy(Under(Root), 0)), 1)

\* sitemap_xml: top-level pages but for the special ones it does not know, and
\* the children of three sections.
Sitemap ==
    {i \in Under(Root) \ {LibraryPage} : VisibleAs(i, 0)}
    \cup UNION {IF SectionOpen(s, 0) THEN {i \in Under(s) : VisibleAs(i, 0)} ELSE {} :
                  s \in {BlogPage, ProjectsPage, ThreeDPage}}

\* list_pages: the caller is an admin.
McpList(p, q) == {i \in Under(p) : VisibleAs(i, TopRank) /\ (i \in q.names \/ q.hex)}

(***************************************************************************)
(* The feed.                                                               *)
(***************************************************************************)

\* What an entry shows of a page: its dates and its text.
Entry(i) == [id |-> i, date |-> rows[i].date, edited |-> rows[i].edited, text |-> rows[i].text]

\* collect_entries, for a section: filtered, then cut.
SectionEntries(s) ==
    IF ~SectionOpen(s, 0) THEN {}
    ELSE {Entry(i) : i \in Range(FirstOf(Newest(SeenBy(Under(s), 0)), FeedLimit))}

\* The fault of looking at the edits only.
UpdatedByEdit(E) == Max({0} \cup {e.edited : e \in E})

\* `updated`: edits, and the moment a scheduled page goes live.
Updated(E) == Max({0} \cup {Max({e.edited, e.date}) : e \in E})

\* feed_etag.
Etag(E) == <<Updated(E), Cardinality(E)>>

\* not_modified: If-None-Match goes before If-Modified-Since, which cannot
\* answer for an empty feed.
NotModified(cond, c, E) ==
    \/ cond = "etag" /\ c.etag = Etag(E)
    \/ cond = "date" /\ c.entries # {} /\ E # {} /\ Updated(E) <= c.etag[1]

NoFetch == [todo |-> <<>>, got |-> {}, cond |-> "none", torn |-> FALSE]
NoCopy  == [etag |-> <<0, 0>>, entries |-> {}]

-----------------------------------------------------------------------------

NewNode(parent, gate) ==
    [parent |-> parent, gate |-> gate, date |-> second, edited |-> second,
     text |-> "plain", pinned |-> FALSE, order |-> 0]

\* The site as it was long ago: the special pages, the library gated, and a
\* post, and a page somewhere.
CatalogueInit ==
    /\ second = 1
    /\ LET old  == [NewNode(Root, 0) EXCEPT !.date = 0, !.edited = 0]
           old1 == Min(PageIds)
           old2 == Min(PageIds \ {old1})
       IN  \E p \in Specials \cup {Root, old1} :
             /\ rows = [i \in Nodes |->
                          CASE i = LibraryPage -> [old EXCEPT !.gate = TopRank - 1]
                            [] i = old1 -> [old EXCEPT !.parent = BlogPage]
                            [] i = old2 -> [old EXCEPT !.parent = p]
                            [] i \in Specials \ {LibraryPage} -> old
                            [] OTHER -> NoRow]
             /\ unused = PageIds \ {old1, old2}
    /\ edits = 0 /\ fetches = 0
    /\ fetch = NoFetch /\ copy = NoCopy
    /\ busy = FALSE /\ since = {}

\* More in a section than the feed shows.
Crowded == \E s \in {BlogPage, ProjectsPage} :
             Cardinality({i \in Under(s) : VisibleAs(i, 0)}) > FeedLimit

Reading == fetch.todo # <<>>
Disturb == fetch' = [fetch EXCEPT !.torn = Reading]
Edited(why) == since' = since \cup why
Edit == edits < MaxEdits /\ edits' = edits + 1 /\ UNCHANGED <<second, fetches, copy>>

\* A statement that stamps page_modified_date.
Stamps(i, row) ==
    /\ Edit
    /\ rows' = [rows EXCEPT ![i] = [row EXCEPT !.edited = second]]
    /\ busy' = TRUE
    /\ Edited((IF busy THEN {"twice"} ELSE {}) \cup (IF i \in Specials THEN {"section"} ELSE {}))
    /\ Disturb

\* One that does not: set_order, set_category, DELETE.
Silent(new) == Edit /\ rows' = new /\ Edited({}) /\ Disturb /\ UNCHANGED <<busy, unused>>

\* create_page; the MCP tool with more than a title goes on as an update.
CreatePage(i, p) ==
    /\ p \in {Root} \cup {j \in Nodes : There(j)}
    /\ unused # {} /\ i = Min(unused) /\ unused' = unused \ {i}
    /\ Stamps(i, NewNode(p, IF p = Root THEN 0 ELSE rows[p].gate))

\* update_page, by the editor or an MCP tool, changes one thing: the gate, or
\* the date (long ago, soon, or never), or the text.
UpdatePage(i) ==
    /\ There(i)
    /\ \/ \E g \in Ladder \ {rows[i].gate} : Stamps(i, [rows[i] EXCEPT !.gate = g])
       \/ /\ i \in PageIds
          /\ \/ \E d \in {0, second + 1, Never} : Stamps(i, [rows[i] EXCEPT !.date = d])
             \/ \E t \in Texts : Stamps(i, [rows[i] EXCEPT !.text = t])
    /\ UNCHANGED unused

\* publish_now, unpublish and their MCP tools: set_creation_date.  The date
\* of a special page does not count.
SetDateOf(i) ==
    /\ i \in PageIds /\ There(i)
    /\ \E d \in {second, Never} : Stamps(i, [rows[i] EXCEPT !.date = d])
    /\ UNCHANGED unused

\* toggle_feature and the MCP tool feature_page.
PinPage(i) ==
    i \in PageIds /\ There(i) /\ Silent([rows EXCEPT ![i].pinned = ~@])

\* reorder_pages, reorder_children: a drag moves a page in its list (here to
\* the front or to the end), and every page in it gets its index.
ReorderPages(i) ==
    /\ i \in PageIds /\ There(i)
    /\ LET rest == InOrder(Under(rows[i].parent) \ {i})
       IN  \E new \in {<<i>> \o rest, Append(rest, i)} :
             Silent([j \in Nodes |-> IF j \in Range(new)
                                     THEN [rows[j] EXCEPT !.order =
                                             (CHOOSE m \in DOMAIN new : new[m] = j) - 1]
                                     ELSE rows[j]])

\* delete_page_path and the MCP tool: no special page; ON DELETE SET NULL.
DeletePage(i) ==
    /\ i \in PageIds /\ There(i)
    /\ Silent([j \in Nodes |-> IF j = i THEN NoRow
                               ELSE IF j \in Under(i) THEN [rows[j] EXCEPT !.parent = Root]
                               ELSE rows[j]])

\* A page whose date has come is live, without a write.
NextSecond ==
    /\ second < LastSecond
    /\ second' = second + 1
    /\ UNCHANGED <<rows, unused, edits, fetches, copy>>
    /\ busy' = \E i \in PageIds : There(i) /\ rows[i].date = second + 1
    /\ Edited({})
    /\ fetch' = IF busy' THEN [fetch EXCEPT !.torn = Reading] ELSE fetch

\* show_feed is called, with the validators of the copy or without.
AskFeed(cond) ==
    /\ ~Reading /\ fetches < MaxFetches
    /\ cond = "none" \/ copy # NoCopy
    /\ fetches' = fetches + 1
    /\ fetch' = [NoFetch EXCEPT !.todo = <<BlogPage, ProjectsPage>>, !.cond = cond]
    /\ UNCHANGED <<rows, unused, second, edits, copy, busy, since>>

Collected == fetch.got \cup SectionEntries(Head(fetch.todo))

\* collect_entries: the next section.
ReadSection ==
    /\ Reading /\ Len(fetch.todo) > 1
    /\ fetch' = [fetch EXCEPT !.todo = Tail(@), !.got = Collected]
    /\ UNCHANGED <<rows, unused, second, edits, fetches, copy, busy, since>>

\* The last one; then a 304, or the feed.
AnswerFeed ==
    /\ Len(fetch.todo) = 1
    /\ fetch' = NoFetch
    /\ IF NotModified(fetch.cond, copy, Collected)
       THEN UNCHANGED <<copy, since>>
       ELSE /\ copy' = [etag |-> Etag(Collected), entries |-> Collected]
            /\ since' = (IF fetch.torn THEN {"torn"} ELSE {})
                        \cup (IF Crowded THEN {"full"} ELSE {})
    /\ UNCHANGED <<rows, unused, second, edits, fetches, busy>>

CatalogueNext ==
    \/ \E i \in PageIds, p \in Nodes \cup {Root} : CreatePage(i, p)
    \/ \E i \in Nodes : UpdatePage(i) \/ SetDateOf(i) \/ PinPage(i)
                          \/ ReorderPages(i) \/ DeletePage(i)
    \/ NextSecond
    \/ \E cond \in {"none", "etag", "date"} : AskFeed(cond)
    \/ ReadSection \/ AnswerFeed

CatalogueSpec == CatalogueInit /\ [][CatalogueNext]_catalogueVars

-----------------------------------------------------------------------------

(***************************************************************************)
(* A client told "304" that sent its ETag holds the very feed it would     *)
(* have been sent.  One that sent only the date may keep an entry that is  *)
(* gone, but misses none, not even one that went live by the clock.        *)
(* Unless: two stamps fell in one second, the copy was collected while     *)
(* pages were written or from a section with more pages than the feed      *)
(* takes, or a section's own gate was turned.                              *)
(***************************************************************************)
CopyIsCurrent ==
    [][Len(fetch.todo) = 1 /\ fetch'.todo = <<>> /\ copy' = copy /\ since = {} =>
         IF fetch.cond = "date" THEN Collected \subseteq copy.entries
         ELSE Collected = copy.entries]_catalogueVars

\* Every page the routes show a viewer, apart from the children of a page.
ShownTo(v) ==
    Range(Featured(v)) \cup Range(Latest(v)) \cup Range(ThreeDIndex(v)) \cup Range(Resume(v))
    \cup (Tabs(v) \ Specials) \cup Range(FirstPage) \cup Sitemap
    \cup {e.id : e \in SectionEntries(BlogPage) \cup SectionEntries(ProjectsPage)}

\* And those shown on a page that opens for the viewer.
Neighbours(i, v) ==
    Crumbs(i) \cup SiblingNav(i, v) \cup (IF rows[i].parent = BlogPage THEN PostNav(i, v) ELSE {})
Gridded(i, v) == UNION {Range(ChildGrid(i, q, v, n)) : q \in Searches, n \in 1 .. 2}
Covers(i, v)   == {Cover(j, v) : j \in Range(ChildGrid(i, NoSearch, v, 1))} \ {Root}
ShownOn(i, v)  == Neighbours(i, v) \cup Gridded(i, v) \cup Covers(i, v)

\* The order of an index with a pager.
IndexOrder(s) == IF s = BlogPage THEN "newest" ELSE "manual"

(***************************************************************************)
(* No route tells a viewer of a page that the page's own route would hide  *)
(* from them: whatever lists pages looks at the section as well as at the  *)
(* page, as get_page_path looks at every ancestor.  And who follows the    *)
(* pager of an index, searching or not, comes to see every page of it that *)
(* matches and opens.                                                      *)
(***************************************************************************)
ListingsMatch ==
    \A v \in Ladder :
      LET open == {i \in Nodes : There(i) /\ OpensFor(i, v)} IN
      /\ ShownTo(v) \subseteq open
      /\ \A i \in open : ShownOn(i, v) \subseteq open
      /\ \A q \in Searches :
           /\ \A s \in Under(LibraryPage) : Range(LibrarySection(s, q, v, 1)) \subseteq open
           /\ \A n \in 1 .. 2 : Range(LibraryIndex(q, v, n)) \cup Range(BlogIndex(q, v, n))
                                 \cup Range(ProjectsIndex(q, v, n)) \subseteq open
           /\ \A s \in {BlogPage, ProjectsPage, LibraryPage} \cap open :
                Leafed(s, q, IndexOrder(s), v) = {i \in Under(s) \cap open : Matches(i, q)}

=============================================================================
