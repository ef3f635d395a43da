------------------------------- MODULE Probes -------------------------------
(***************************************************************************)
(* What the dead-link scan asks of one link: how it is classified, how an  *)
(* internal path is resolved in the tables and an external URL over HTTP,  *)
(* and what a visitor who may see everything would get meanwhile.  The     *)
(* resolver's map of the site is kept by hand beside the router's.         *)
(*                                                                         *)
(* A path is the sequence of its segments; its query and fragment, which   *)
(* are cut off, are left out.  What becomes of a verdict is in DeadLinks.  *)
(***************************************************************************)
EXTENDS Integers, Sequences, FiniteSets

CONSTANTS
    Links,       \* the URLs in content: [shape, host, path]
    NodeIds,     \* page ids; the blog's is the least
    Slugs,       \* page names
    Items,       \* media items, each with a ref and with a file's url_key
    MaxChanges   \* bound on edits of the site and changes of other hosts

ASSUME ProbesAssumption ==
    /\ NodeIds \subseteq Nat \ {0} /\ NodeIds # {} /\ MaxChanges \in Nat
    /\ Slugs \subseteq STRING /\ Items \subseteq STRING
    /\ Links \subseteq [shape : STRING, host : STRING, path : Seq(STRING)]

VARIABLES
    tree,        \* content_pages: parent and name
    coming,      \* ids not given yet
    media,       \* the items in table media
    variants,    \* those of them with a file
    remote,      \* what another host answers to a HEAD and a GET
    probe,
    seen,        \* history: what visitors found since the check began
    changes

probeVars == <<tree, coming, media, variants, remote, probe, seen, changes>>

-----------------------------------------------------------------------------

(***************************************************************************)
(* The site, as its router serves it to an admin.                          *)
(***************************************************************************)

Top      == 0
Absent   == [parent |-> -1, name |-> "none"]
\* find_by_name.
Named(p, slug) == {i \in NodeIds : tree[i] = [parent |-> p, name |-> slug]}

\* The first of them: only at the top may two share a name.
Nobody == -2
First(S) == IF S = {} THEN Nobody ELSE CHOOSE i \in S : \A j \in S : i <= j
BlogNode == First(NodeIds)

\* find_by_path, in one state: the page that each name leads to.
Chain(path, w) ==
    \A n \in DOMAIN w : w[n] = First(Named(IF n = 1 THEN Top ELSE w[n-1], path[n]))
Found(path) == \E w \in [1 .. Len(path) -> NodeIds] : Chain(path, w)

\* The routes without a page of their own.
CodeRoutes == {<<>>, <<"blog">>, <<"projects">>, <<"3d">>, <<"3d", "editor">>, <<"library">>,
               <<"resume">>, <<"resume.pdf">>, <<"login">>, <<"feed.xml">>, <<"blog", "feed.xml">>,
               <<"sitemap.xml">>, <<"robots.txt">>, <<"pages">>, <<"favicon.ico">>}

Starts(path, prefix) ==
    Len(path) > Len(prefix) /\ \A n \in DOMAIN prefix : path[n] = prefix[n]
Beyond(path, n) == SubSeq(path, n + 1, Len(path))

\* create_router and the routers nested in it.  A section of the library that
\* is not there leads to the library.
Served(path) ==
    \/ path \in CodeRoutes
    \/ Starts(path, <<"library">>) /\ Len(path) = 2
    \/ Starts(path, <<"3d", "editor">>) /\ Len(path) > 3
    \/ Starts(path, <<"blog">>) /\ Len(path) = 2 /\ Found(path)
    \/ Starts(path, <<"pages">>) /\ Found(Beyond(path, 1))
    \/ Starts(path, <<"media">>) /\ Len(path) = 2 /\ path[2] \in variants
    \/ Starts(path, <<"media", "embed">>) /\ Len(path) = 3 /\ path[3] \in media
    \/ Starts(path, <<"media", "file">>) /\ Len(path) = 3 /\ path[3] \in variants

(***************************************************************************)
(* classify and resolve_internal.                                          *)
(***************************************************************************)

\* Same-site URLs are folded to paths; what is neither that nor http(s) is
\* not checked.
Classify(url) ==
    IF url.shape = "rooted" \/ (url.shape = "http" /\ url.host \in {"site", "www"}) THEN "internal"
    ELSE IF url.shape = "http" THEN "external"
    ELSE "skip"

OkExact == {<<>>, <<"blog">>, <<"projects">>, <<"3d">>, <<"3d", "editor">>, <<"library">>,
            <<"library", "audiobooks">>, <<"resume">>, <<"resume.pdf">>, <<"login">>,
            <<"feed.xml">>, <<"blog", "feed.xml">>, <<"sitemap.xml">>, <<"robots.txt">>}

\* Detail pages are under /pages, not under the index.
DeadShape(path) == Starts(path, <<"projects">>) \/ Starts(path, <<"3d">>)

HitOrDead(hit) == IF hit THEN "ok" ELSE "dead"

\* The fault of a post that is looked for beside the blog.
SegmentsBare(path) == Beyond(path, 1)

\* The names to walk for a path of the content tree.
Segments(path) == IF path[1] = "blog" THEN path ELSE Beyond(path, 1)

InTree(path) == Starts(path, <<"blog">>) \/ Starts(path, <<"pages">>)

\* What needs no walk of the tree.  A ref is one segment.
Resolved(path) ==
    IF path \in OkExact THEN "ok"
    ELSE IF DeadShape(path) THEN "dead"
    ELSE IF Starts(path, <<"media", "file">>)
         THEN HitOrDead(Len(path) = 3 /\ path[3] \in variants)
    ELSE IF Starts(path, <<"media", "embed">>)
         THEN HitOrDead(Len(path) = 3 /\ path[3] \in media)
    ELSE IF Starts(path, <<"media">>) THEN HitOrDead(Len(path) = 2 /\ path[2] \in media)
    ELSE "unknown"

(***************************************************************************)
(* Other hosts.                                                            *)
(***************************************************************************)

\* No status: no such host or nobody listening, and a timeout.
Refused == 0
Silent  == 1

Alive(status) == status \in 200 .. 399

\* Hosts that do as they should, do not know HEAD, moved, are gone, are
\* walled, throttle, break, are not there, or hang.
Remotes == {<<200, 200>>, <<405, 200>>, <<404, 200>>, <<301, 301>>, <<404, 404>>, <<410, 410>>,
            <<403, 403>>, <<999, 999>>, <<429, 429>>, <<503, 503>>,
            <<Refused, Refused>>, <<Silent, Silent>>, <<Silent, 200>>}

\* classify_status and classify_error.
ClassOfAnswer(a) ==
    IF Alive(a) THEN "ok"
    ELSE IF a \in {404, 410, Refused} THEN "dead"
    ELSE IF a \in (400 .. 499 \cup {999}) \ {429} THEN "blocked"
    ELSE "transient"

(***************************************************************************)
(* The check of a link, query by query and request by request.             *)
(***************************************************************************)

IdleProbe == [pc |-> "idle", url |-> [shape |-> "empty", host |-> "none", path |-> <<>>],
              at |-> Top, deep |-> 0, verdict |-> "none"]

Works(url) == IF Classify(url) = "external" THEN Alive(remote[2]) ELSE Served(url.path)

\* UNIQUE (parent_page_id, page_name) holds below the top.
Free(p, slug) == p = Top \/ Named(p, slug) = {}

ProbeInit ==
    /\ \E slug \in Slugs, posts \in SUBSET {First(NodeIds \ {BlogNode})} :
         /\ tree = [i \in NodeIds |-> IF i = BlogNode THEN [parent |-> Top, name |-> "blog"]
                                      ELSE IF i \in posts THEN [parent |-> BlogNode, name |-> slug]
                                      ELSE Absent]
         /\ coming = NodeIds \ (posts \cup {BlogNode})
    /\ variants \in SUBSET Items /\ media \in {variants, Items}
    /\ remote \in Remotes
    /\ probe = IdleProbe /\ seen = {} /\ changes = 0

\* A tree in which a path may lead two ways, and one in which it may have come
\* to lead another way: two pages at the top share a name, or a page has come
\* to the top.
Twins    == \E i, j \in NodeIds : i # j /\ tree[i] = tree[j] /\ tree[i].parent = Top
Promoted == \E i \in NodeIds : tree[i].parent \in NodeIds /\ tree'[i].parent = Top

\* What a visitor gets, and of what kind the tree was, is noted at the start
\* and after every step.
Note == seen' = (IF probe.pc = "idle" THEN {} ELSE seen)
                \cup (IF probe'.pc = "idle" THEN {} ELSE
                        {IF Works(probe.url)' THEN "got" ELSE "missed"}
                        \cup {m \in {"muddled"} : Twins \/ Promoted})

Site == <<tree, coming, media, variants>>

StartProbe(url) ==
    /\ probe.pc = "idle" /\ Classify(url) # "skip"
    /\ LET internal == Classify(url) = "internal"
           walks    == internal /\ url.path \notin OkExact /\ InTree(url.path)
       IN  probe' = [IdleProbe EXCEPT
                       !.url = url,
                       !.pc = IF walks THEN "walk" ELSE IF internal THEN "done" ELSE "head",
                       !.verdict = IF internal /\ ~walks THEN Resolved(url.path) ELSE "none"]
    /\ UNCHANGED <<Site, remote, changes>> /\ Note

\* find_by_path, one query a name.
Walk ==
    /\ probe.pc = "walk"
    /\ LET names == Segments(probe.url.path)
           hit   == First(Named(probe.at, names[probe.deep + 1]))
           last  == hit = Nobody \/ probe.deep + 1 = Len(names)
       IN  probe' = [probe EXCEPT !.at = hit, !.deep = @ + 1,
                                  !.pc = IF last THEN "done" ELSE "walk",
                                  !.verdict = IF last THEN HitOrDead(hit # Nobody) ELSE "none"]
    /\ UNCHANGED <<Site, remote, changes>> /\ Note

\* ReqwestChecker::check: a HEAD that answers well is enough.
SendHead ==
    /\ probe.pc = "head"
    /\ probe' = IF ClassOfAnswer(remote[1]) = "ok"
                THEN [probe EXCEPT !.pc = "done", !.verdict = "ok"]
                ELSE [probe EXCEPT !.pc = "get"]
    /\ UNCHANGED <<Site, remote, changes>> /\ Note

SendGet ==
    /\ probe.pc = "get"
    /\ probe' = [probe EXCEPT !.pc = "done", !.verdict = ClassOfAnswer(remote[2])]
    /\ UNCHANGED <<Site, remote, changes>> /\ Note

\* LinkCheckDao::record takes the verdict (DeadLinks).
Recorded == /\ probe.pc = "done" /\ probe' = IdleProbe
            /\ UNCHANGED <<Site, remote, changes>> /\ Note

(***************************************************************************)
(* Meanwhile pages and media come and go, and other hosts.                 *)
(***************************************************************************)

Change == changes < MaxChanges /\ changes' = changes + 1 /\ UNCHANGED probe

CreateNode(i, p, slug) ==
    /\ Change /\ i \in coming
    /\ p \in {Top} \cup {j \in NodeIds : tree[j] # Absent} /\ Free(p, slug)
    /\ tree' = [tree EXCEPT ![i] = [parent |-> p, name |-> slug]] /\ coming' = coming \ {i}
    /\ UNCHANGED <<media, variants, remote>> /\ Note

\* ON DELETE SET NULL: what was under the page is at the top then.
DeleteNode(i) ==
    /\ Change /\ i # BlogNode /\ tree[i] # Absent
    /\ tree' = [j \in NodeIds |-> IF j = i THEN Absent
                                  ELSE IF tree[j].parent = i THEN [tree[j] EXCEPT !.parent = Top]
                                  ELSE tree[j]]
    /\ UNCHANGED <<coming, media, variants, remote>> /\ Note

\* An item is stored with its file, loses it, or goes.
ChangeItem(m) ==
    /\ Change
    /\ \/ media' = media \cup {m} /\ variants' = variants \cup {m}
       \/ media' \in {media, media \ {m}} /\ variants' = variants \ {m}
    /\ UNCHANGED <<tree, coming, remote>> /\ Note

ChangeRemote ==
    /\ Change /\ remote' \in Remotes /\ UNCHANGED Site /\ Note

ProbeNext ==
    \/ \E url \in Links : StartProbe(url)
    \/ Walk \/ SendHead \/ SendGet \/ Recorded
    \/ \E i \in NodeIds, p \in NodeIds \cup {Top}, slug \in Slugs : CreateNode(i, p, slug)
    \/ \E i \in NodeIds : DeleteNode(i)
    \/ \E m \in Items : ChangeItem(m)
    \/ ChangeRemote

ProbeSpec == ProbeInit /\ [][ProbeNext]_probeVars

-----------------------------------------------------------------------------

\* Known: /blog serves a post, but not what is under one, and an item whose
\* files are all gone answers with 404.
NotServed(path) ==
    \/ Starts(path, <<"blog">>) /\ Len(path) > 2
    \/ Starts(path, <<"media">>) /\ Len(path) = 2 /\ path[2] \notin variants

\* Known: the editor's own files are called dead like a model's page.
EditorFile(path) == Starts(path, <<"3d", "editor">>) /\ Len(path) > 3

(***************************************************************************)
(* Dead is dead: a link is called dead only if, at some moment since its   *)
(* check began, somebody who may see everything would not have got it, and *)
(* ok only if at some moment he would have - gated, scheduled, folded or   *)
(* not, whatever is created and deleted between two queries, and although  *)
(* the resolver asks no route of the router.  Only a tree that was muddled *)
(* meanwhile may deceive it (resolve_internal, ReqwestChecker::check).     *)
(***************************************************************************)
DeadMeansDead ==
    probe.pc = "done" /\ "muddled" \notin seen =>
      /\ probe.verdict = "dead" => "missed" \in seen \/ EditorFile(probe.url.path)
      /\ probe.verdict = "ok"   => "got" \in seen \/ NotServed(probe.url.path)

=============================================================================
