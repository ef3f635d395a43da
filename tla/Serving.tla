------------------------------ MODULE Serving ------------------------------
(***************************************************************************)
(* What visitors get of the media: the manifest, the negotiated redirect,  *)
(* the embed and the byte route of web/features/media.rs with the picks of *)
(* media_select.rs; the shared cache in front of the bytes; and the pages  *)
(* that refer to media, normalised as they are saved.                      *)
(*                                                                         *)
(* The same bytes may belong to several items (a blob is named by its      *)
(* hash), each with a gate of its own.  Every query is a step, so items    *)
(* are gated, replaced and deleted while a visitor is being answered.      *)
(* How files get on the disk is the module Media.                          *)
(***************************************************************************)
EXTENDS Integers, Sequences, FiniteSets, Functions, SequencesExt

CONSTANTS
    Refs,       \* media items, by their opaque ref (uuid, never used again)
    Contents,   \* blobs; one is its sha256, and has one url_key
    Mime,       \* of each blob, as probed
    Bytes,      \* its size
    Width,      \* in pixels, or 0 when it was not recorded
    CoverOf,    \* the image that is extracted from a book or a video
    AdminRank,  \* the top rank of the role ladder
    Nothing,    \* no such item, no blob, an absent field
    Visitors,   \* concurrent requests
    MaxRows,    \* bound on an item's variants
    MaxServing  \* bound on requests and on changes of the drive

Images == {"jpeg", "heic", "avif"}
Meshes == {"3mf", "stl"}
Mimes  == Images \cup Meshes \cup {"scad", "video", "audio", "epub", "cbz", "pdf"}
Ranks  == 0 .. AdminRank

ASSUME ServingAssumption ==
    /\ AdminRank \in Nat /\ AdminRank > 0 /\ MaxRows \in Nat /\ MaxServing \in Nat
    /\ Mime \in [Contents -> Mimes]
    /\ Bytes \in [Contents -> Nat] /\ Width \in [Contents -> Nat]
    /\ CoverOf \in [Contents -> Contents \cup {Nothing}]
    /\ Nothing \notin Refs \cup Contents \cup Ranks
    /\ "keep" \notin Refs \cup {Nothing}

VARIABLES
    media,     \* the media table
    kept,     \* media_variant: an item's blobs, in variant_id order
    page,     \* a content page: its link and its cover
    drive,    \* the media root: "ok", "away" (unmounted) or "wedged"
    shared,   \* the blobs a shared cache holds
    visit,    \* requests in flight
    open,     \* history: the blobs each request could have been given so far
    seen,     \* history: the items its role could see so far
    public,   \* history: the blobs that were public at some moment
    started   \* requests and events so far

servingVars == <<media, kept, page, drive, shared, visit, open, seen, public, started>>

-----------------------------------------------------------------------------

(***************************************************************************)
(* Kinds and picks.                                                        *)
(***************************************************************************)

Kinds == {"image", "video", "stl", "audio", "epub", "cbz", "file"}

\* probe: the kind of a single file.
KindOf(b) ==
    CASE Mime[b] \in Images -> "image"
      [] Mime[b] \in Meshes -> "stl"
      [] Mime[b] \in {"video", "audio", "epub", "cbz"} -> Mime[b]
      [] OTHER -> "file"

Rivals == <<"stl", "video", "audio", "epub", "cbz", "image">>

\* dominant_kind: a model beats a video beats ... an image, which is then a
\* thumbnail.
DominantKind(S) ==
    LET kinds == {KindOf(b) : b \in S}
        found == {n \in DOMAIN Rivals : Rivals[n] \in kinds}
    IN  IF found = {} THEN "file" ELSE Rivals[CHOOSE n \in found : \A m \in found : n <= m]

\* max_by_key(bytes): the last of the largest; min_by_key: the first of the
\* smallest.
LargestIn(s)  == s[CHOOSE n \in DOMAIN s : \A m \in DOMAIN s :
                    Bytes[s[m]] < Bytes[s[n]] \/ (Bytes[s[m]] = Bytes[s[n]] /\ m <= n)]
SmallestIn(s) == s[CHOOSE n \in DOMAIN s : \A m \in DOMAIN s :
                    Bytes[s[m]] > Bytes[s[n]] \/ (Bytes[s[m]] = Bytes[s[n]] /\ m >= n)]
OfMime(s, mimes)  == SelectSeq(s, LAMBDA b : Mime[b] \in mimes)
Of(s, Op(_))  == IF s = <<>> THEN Nothing ELSE Op(s)

\* viewer_mesh: a 3mf has colours; largest_mesh: what is printed.
ViewerMesh(s) ==
    Of(IF OfMime(s, {"3mf"}) # <<>> THEN OfMime(s, {"3mf"}) ELSE OfMime(s, Meshes), SmallestIn)
LargestMesh(s) == Of(OfMime(s, Meshes), LargestIn)

Displayable == Images \ {"heic"}

\* image_ladder: the displayable images that have a width, by width.
ImageLadder(s) == SortSeq(SelectSeq(s, LAMBDA b : Mime[b] \in Displayable /\ Width[b] > 0),
                          LAMBDA a, b : Width[a] < Width[b])

\* source_image: the uploaded original.
SourceImage(s) ==
    IF OfMime(s, Images \ {"avif"}) # <<>> THEN OfMime(s, Images \ {"avif"})[1]
    ELSE Of(OfMime(s, Images), Head)

\* image_ladder_edited: of an edited image only the rungs show the edit.
ImageLadderEdited(s) == SelectSeq(ImageLadder(s), LAMBDA b : b # SourceImage(s))

\* What a client asks of /media/<ref>: a format, or an Accept without wildcards.
Asked  == {Mime[b] : b \in Contents} \cup {"pdf"}
NoWish == [format |-> Nothing, accept |-> {"*"}]
Wishes == {NoWish} \cup {[NoWish EXCEPT !.format = t] : t \in Asked}
          \cup {[NoWish EXCEPT !.accept = t] : t \in {{"json"}} \cup {{u} : u \in Asked}}

\* negotiate: a format is a demand, then the Accept, then the largest.
Negotiate(s, w) ==
    LET give(t, otherwise) == IF t = <<>> THEN otherwise ELSE LargestIn(t)
    IN  IF w.format # Nothing THEN give(OfMime(s, {w.format}), "not_acceptable")
        ELSE CASE w.accept = {"*"}     -> give(s, "empty")
               [] "json" \in w.accept -> "manifest"
               [] OTHER               -> give(OfMime(s, w.accept), "not_acceptable")

(***************************************************************************)
(* render_embed_html: the blobs an embed makes the browser fetch, by kind. *)
(***************************************************************************)

Ladder(it, s) == IF it.edited THEN ImageLadderEdited(s) ELSE ImageLadder(s)
EmbedImage(it, s) ==
    IF Ladder(it, s) = <<>> THEN {s[1]}
    ELSE IF Len(Ladder(it, s)) > 1 THEN ToSet(Ladder(it, s)) ELSE {Last(Ladder(it, s))}
EmbedVideo(s) == ToSet(OfMime(s, {"video"})) \cup {Of(OfMime(s, Images), Last)}
EmbedModel(s) == {ViewerMesh(s), LargestMesh(s)}
EmbedAudio(s) == IF OfMime(s, {"audio"}) = <<>> THEN {}
                 ELSE ToSet(OfMime(s, {"audio"})) \cup {Of(OfMime(s, Images), Last)}

\* An item is embedded as the kind it had when it was looked up.
Embed(it, s) ==
    IF s = <<>> THEN {}
    ELSE CASE it.kind = "image"  -> EmbedImage(it, s)
           [] it.kind = "video"  -> EmbedVideo(s) \ {Nothing}
           [] it.kind = "stl"    -> EmbedModel(s) \ {Nothing}
           [] it.kind = "audio"  -> EmbedAudio(s) \ {Nothing}
           [] OTHER              -> {s[1]}

\* The cover of a page: the hero takes the largest image of the ladder, a card
\* the smallest; an item without a ladder gives its first image.
FirstImage(s) == Of(OfMime(s, Displayable), Head)
Widest(s)     == IF ImageLadder(s) # <<>> THEN Last(ImageLadder(s)) ELSE FirstImage(s)
Narrowest(s)  == IF ImageLadder(s) # <<>> THEN Head(ImageLadder(s)) ELSE FirstImage(s)
CoverHero(i)  == Widest(kept[i])
CoverUrl(i)   == Narrowest(kept[i])
\* The explicit cover wins; without one, an item that the text embeds.
CoverItem     == IF page.cover = Nothing \/ CoverUrl(page.cover) = Nothing THEN page.link
                 ELSE page.cover

-----------------------------------------------------------------------------

(***************************************************************************)
(* Gates.                                                                  *)
(***************************************************************************)

Item == [kind : Kinds, gate : Ranks, edited : BOOLEAN]

Carriers(t, v, b) == {i \in Refs : t[i] # Nothing /\ b \in ToSet(v[i])}

\* The fault of taking the gate of one owner only.
DemandsOwner(t, v, b, rank) == \E i \in Carriers(t, v, b) : rank >= t[i].gate
\* The rank find_by_url_key_with_required_rank demands: the strictest gate
\* of all the items that share the bytes.  One query.
Demands(t, v, b, rank) == \A i \in Carriers(t, v, b) : rank >= t[i].gate

Gated(b, rank) == ~Demands(media, kept, b, rank)

\* is_visible_to.
VisibleTo(t, i, rank) == t[i] # Nothing /\ rank >= t[i].gate

\* What may be shown to a role, in a state given by t and v.
MayHave(t, v, rank) == {b \in UNION {ToSet(v[i]) : i \in Refs} :
                           Carriers(t, v, b) # {} /\ \A i \in Carriers(t, v, b) : rank >= t[i].gate}
MaySee(t, rank)     == {i \in Refs : t[i] # Nothing /\ rank >= t[i].gate}

Answers == {"missing", "denied", "manifest", "embed", "empty",
            "not_acceptable", "bytes", "away", "busy", "done"}
Routes  == {"get", "options", "embed", "file", "upload", "replace", "append", "save"}
Stages  == {"idle", "find", "variants", "gate", "disk", "answered",
            "rows", "cover", "resolve", "lookup", "write", "setcover"}

Visit == [route : Routes, pc : Stages, rank : Ranks, at : Refs \cup {Nothing},
          key : Contents \cup {Nothing}, found : Item \cup {Nothing},
          cover : Refs \cup {Nothing, "keep"}, todo : Seq(Contents),
          free : BOOLEAN,                      \* required_rank was 0
          answer : Answers, stored : BOOLEAN]  \* whether a shared cache may store it
NoVisit == [route |-> "get", pc |-> "idle", rank |-> 0, at |-> Nothing, key |-> Nothing,
            found |-> Nothing, cover |-> Nothing, todo |-> <<>>, free |-> FALSE,
            answer |-> "done", stored |-> FALSE]

Reached(c, pc) == visit[c].pc = pc
Become(c, q)   == visit' = [visit EXCEPT ![c] = q]
Go(c, pc)      == Become(c, [visit[c] EXCEPT !.pc = pc])
Answer(c, a, cached) ==
    Become(c, [visit[c] EXCEPT !.pc = "answered", !.answer = a, !.stored = cached])
Start(c, q)  == Reached(c, "idle") /\ started < MaxServing /\ started' = started + 1 /\ Become(c, q)
\* One query or one pure step of a request.
Silent == UNCHANGED <<media, kept, page, drive, shared, started>>

\* The history follows every step.
Remember ==
    /\ open' = [c \in Visitors |-> IF visit'[c].pc = "idle" THEN {}
                  ELSE MayHave(media', kept', visit'[c].rank)
                       \cup (IF visit[c].pc # "idle" THEN open[c]
                             ELSE MayHave(media, kept, visit'[c].rank))]
    /\ seen' = [c \in Visitors |-> IF visit'[c].pc = "idle" THEN {}
                  ELSE MaySee(media', visit'[c].rank)
                       \cup (IF visit[c].pc # "idle" THEN seen[c]
                             ELSE MaySee(media, visit'[c].rank))]
    /\ public' = public \cup MayHave(media', kept', 0)

-----------------------------------------------------------------------------

ServingInit ==
    /\ media = [i \in Refs |-> Nothing]
    /\ kept = [i \in Refs |-> <<>>]
    /\ page = [link |-> Nothing, cover |-> Nothing, was |-> Nothing]
    /\ drive = "ok" /\ shared = {}
    /\ visit = [c \in Visitors |-> NoVisit]
    /\ open = [c \in Visitors |-> {}] /\ seen = [c \in Visitors |-> {}]
    /\ public = {} /\ started = 0

(***************************************************************************)
(* Visitors.                                                               *)
(***************************************************************************)

\* GET, OPTIONS and embed requests for a ref.
Ask(c) ==
    \E rank \in Ranks, i \in Refs, route \in {"get", "options", "embed"} :
      /\ Start(c, [NoVisit EXCEPT !.route = route, !.pc = "find", !.rank = rank, !.at = i])
      /\ UNCHANGED <<media, kept, page, drive, shared>>

\* The answer to a ref that is not there, on each route; the embed's is a 200
\* so that it is swapped in, and not stored.
Missing(c) == Answer(c, "missing", FALSE)
\* The fault of an answer of its own for a closed item.
FindDenies(c) ==
    /\ Reached(c, "find")
    /\ IF media[visit[c].at] = Nothing THEN Missing(c)
       ELSE IF ~VisibleTo(media, visit[c].at, visit[c].rank) THEN Answer(c, "denied", FALSE)
       ELSE Become(c, [visit[c] EXCEPT !.pc = "variants", !.found = media[visit[c].at]])
    /\ Silent

\* resolve_visible, render_media_embed: find_by_ref and the gate.
Find(c) ==
    /\ Reached(c, "find")
    /\ IF VisibleTo(media, visit[c].at, visit[c].rank)
       THEN Become(c, [visit[c] EXCEPT !.pc = "variants", !.found = media[visit[c].at]])
       ELSE Missing(c)
    /\ Silent

\* find_by_media_id, and the answer: nothing of it may be stored by a cache.
\* A browser goes on to the bytes.
Variants(c) ==
    /\ Reached(c, "variants")
    /\ LET q    == visit[c]
           s    == kept[q.at]
           fetch(b) == Become(c, [q EXCEPT !.pc = "gate", !.key = b, !.found = Nothing])
       IN  CASE q.route = "options" -> Answer(c, "manifest", FALSE)
             [] q.route = "embed" ->
                  IF Embed(q.found, s) = {} THEN Answer(c, "embed", FALSE)
                  ELSE \E b \in Embed(q.found, s) : fetch(b)
             [] OTHER -> \E w \in Wishes :
                  LET pick == Negotiate(s, w)
                  IN  CASE pick \in Contents -> fetch(pick)
                        [] pick = "empty"     -> Answer(c, "empty", FALSE)
                        [] pick = "manifest"  -> Answer(c, "manifest", FALSE)
                        [] OTHER              -> Answer(c, "not_acceptable", FALSE)
    /\ Silent

\* A link to bytes, from wherever the visitor has it.
AskFile(c) ==
    \E rank \in Ranks, b \in Contents :
      /\ Start(c, [NoVisit EXCEPT !.route = "file", !.pc = "gate", !.rank = rank, !.key = b])
      /\ UNCHANGED <<media, kept, page, drive, shared>>

\* cover_url_for, cover_hero_for, embedded_media_cover: whoever sees the page is
\* given the link to its cover, whatever the gate of the item.
AskCover(c) ==
    \E rank \in Ranks, card \in BOOLEAN :
      LET i == IF card THEN CoverItem ELSE page.cover
          b == IF i \notin Refs THEN Nothing ELSE IF card THEN CoverUrl(i) ELSE CoverHero(i)
      IN  /\ b # Nothing
          /\ Start(c, [NoVisit EXCEPT !.route = "file", !.pc = "gate", !.rank = rank, !.key = b])
          /\ UNCHANGED <<media, kept, page, drive, shared>>

\* serve_media_file: the variant and the rank its bytes demand.
Gate(c) ==
    /\ Reached(c, "gate")
    /\ LET q == visit[c] IN
       IF Carriers(media, kept, q.key) = {} \/ Gated(q.key, q.rank) THEN Missing(c)
       ELSE Become(c, [q EXCEPT !.pc = "disk", !.free = ~Gated(q.key, 0)])
    /\ Silent

\* The fault of one caching policy for all.
DiskShares(c) ==
    /\ Reached(c, "disk") /\ drive = "ok"
    /\ Answer(c, "bytes", TRUE) /\ shared' = shared \cup {visit[c].key}
    /\ UNCHANGED <<media, kept, page, drive, started>>

\* resolve_path on the blocking pool, within DISK_TIMEOUT; then the file.
Disk(c) ==
    /\ Reached(c, "disk")
    /\ LET q == visit[c] IN
       CASE drive = "ok"   -> /\ Answer(c, "bytes", q.free)
                              /\ shared' = IF q.free THEN shared \cup {q.key} ELSE shared
         [] drive = "away" -> Answer(c, "away", FALSE) /\ UNCHANGED shared
         [] OTHER          -> Answer(c, "busy", FALSE) /\ UNCHANGED shared
    /\ UNCHANGED <<media, kept, page, drive, started>>

\* The client has its answer, or has gone.
Leave(c) == ~Reached(c, "idle") /\ Become(c, NoVisit) /\ Silent

-----------------------------------------------------------------------------

(***************************************************************************)
(* The admin's requests that add bytes: upload, replace, append.           *)
(***************************************************************************)

NoRepeats(s) == \A m, n \in DOMAIN s : s[m] = s[n] => m = n
Posted == {s \in UNION {[1 .. n -> Contents] : n \in 1 .. 2} : NoRepeats(s)}
Fits(i, n) == Len(kept[i]) + n <= MaxRows

\* ingest_new_item, ingest_stored_file: the row with its gate, then each
\* variant, then the cover its kind has.
PostItem(c) ==
    \E i \in Refs, s \in Posted, g \in Ranks :
      /\ media[i] = Nothing /\ kept[i] = <<>>
      /\ \A d \in Visitors : visit[d].at # i
      /\ Start(c, [NoVisit EXCEPT !.route = "upload", !.pc = "rows", !.rank = AdminRank,
                     !.at = i, !.todo = s])
      /\ media' = [media EXCEPT ![i] = 
           [kind |-> DominantKind(ToSet(s)), gate |-> g, edited |-> FALSE]]
      /\ UNCHANGED <<kept, page, drive, shared>>

\* The primary whose cover add_derived_variants extracts.
Primary(i, s) == LET p == SelectSeq(s, LAMBDA b : KindOf(b) = media[i].kind)
                 IN  IF p = <<>> THEN s[1] ELSE p[1]

\* create_variant: UNIQUE (media_id, sha256), and the item must be there.
AddRow(c) ==
    /\ Reached(c, "rows")
    /\ LET q == visit[c]
           b == Head(q.todo)
           i == q.at
           rest == IF Tail(q.todo) # <<>> THEN [q EXCEPT !.todo = Tail(q.todo)]
                   ELSE IF q.route = "append" THEN [q EXCEPT !.pc = "answered"]
                   ELSE [q EXCEPT !.pc = "cover", !.key = Primary(i, kept[i] \o q.todo)]
       IN  IF media[i] = Nothing \/ (b \in ToSet(kept[i]) /\ q.route = "upload") THEN
             Become(c, [q EXCEPT !.pc = "answered"]) /\ UNCHANGED kept
           ELSE /\ kept' = IF b \in ToSet(kept[i]) THEN kept ELSE [kept EXCEPT ![i] = Append(@, b)]
                /\ Become(c, rest)
    /\ UNCHANGED <<media, page, drive, shared, started>>

\* maybe_add_poster, maybe_add_epub_cover, maybe_add_cbz_cover: best effort,
\* minutes after the source was read.
AddCover(c) ==
    /\ Reached(c, "cover")
    /\ LET q == visit[c]
           p == CoverOf[q.key]
           able == media[q.at] # Nothing /\ p # Nothing
                   /\ p \notin ToSet(kept[q.at]) /\ Fits(q.at, 1)
       IN  \/ able /\ kept' = [kept EXCEPT ![q.at] = Append(@, p)]
           \/ UNCHANGED kept
    /\ Go(c, "answered")
    /\ UNCHANGED <<media, page, drive, shared, started>>

\* replace_media_variants: the lookup is past; one transaction swaps the
\* kept and derives the kind from the new set, then the cover.
ReplaceSet(c) ==
    \E i \in Refs, s \in Posted :
      /\ media[i] # Nothing
      /\ Start(c, [NoVisit EXCEPT !.route = "replace", !.pc = "cover", !.rank = AdminRank,
                     !.at = i, !.todo = s,
                     !.key = LET k == DominantKind(ToSet(s))
                                 p == SelectSeq(s, LAMBDA b : KindOf(b) = k)
                             IN  IF p = <<>> THEN s[1] ELSE p[1]])
      /\ kept' = [kept EXCEPT ![i] = s]
      /\ media' = [media EXCEPT ![i].kind = DominantKind(ToSet(s))]
      /\ UNCHANGED <<page, drive, shared>>

\* append_variants: only kept; the kind stays what it was.
AppendFile(c) ==
    \E i \in Refs, b \in Contents :
      /\ media[i] # Nothing /\ Fits(i, 1)
      /\ Start(c, [NoVisit EXCEPT !.route = "append", !.pc = "rows", !.rank = AdminRank,
                     !.at = i, !.todo = <<b>>])
      /\ UNCHANGED <<media, kept, page, drive, shared>>

(***************************************************************************)
(* Requests of one statement that matters.                                 *)
(***************************************************************************)

Happens == started < MaxServing /\ started' = started + 1

\* update_media_metadata: an absent or unknown gate is kept.
UpdateMetadata ==
    /\ Happens
    /\ \E i \in Refs, g \in Ranks :
         media[i] # Nothing /\ media[i].gate # g /\ media' = [media EXCEPT ![i].gate = g]
    /\ UNCHANGED <<kept, page, drive, shared, visit>>

\* rotate_media, crop_media: the edit is in the metadata; the rungs follow
\* (module Media).
EditImage ==
    /\ Happens
    /\ \E i \in Refs : /\ media[i] # Nothing /\ media[i].kind = "image" /\ ~media[i].edited
                        /\ media' = [media EXCEPT ![i].edited = TRUE]
    /\ UNCHANGED <<kept, page, drive, shared, visit>>

\* delete_media_item cascades to the kept.
DropItem ==
    /\ Happens
    /\ \E i \in Refs : /\ media[i] # Nothing
                        /\ media' = [media EXCEPT ![i] = Nothing]
                        /\ kept' = [kept EXCEPT ![i] = <<>>]
    /\ UNCHANGED <<page, drive, shared, visit>>

DropVariant ==
    /\ Happens
    /\ \E i \in Refs : \E b \in ToSet(kept[i]) :
         kept' = [kept EXCEPT ![i] = SelectSeq(@, LAMBDA x : x # b)]
    /\ UNCHANGED <<media, page, drive, shared, visit>>

\* A drive is unplugged, hangs, or answers again.
Drive ==
    /\ Happens
    /\ drive' \in {"ok", "away", "wedged"} \ {drive}
    /\ UNCHANGED <<media, kept, page, shared, visit>>

-----------------------------------------------------------------------------

(***************************************************************************)
(* Saving a page that refers to media: update_page resolves the cover that *)
(* was pasted, normalises the links, writes the page and sets the cover.   *)
(***************************************************************************)

\* The author pastes a byte link ("Copy link") in the text, and as the cover
\* or leaves that field empty, which clears it.
SavePage(c) ==
    \E b \in Contents, pasted \in BOOLEAN :
      /\ Start(c, [NoVisit EXCEPT !.route = "save", !.pc = IF pasted THEN "resolve" ELSE "lookup",
                     !.rank = AdminRank, !.key = b])
      /\ UNCHANGED <<media, kept, page, drive, shared>>

\* resolve_cover_media_id: one of the items; an unresolvable cover is kept.
ResolveCover(c) ==
    /\ Reached(c, "resolve")
    /\ LET S == Carriers(media, kept, visit[c].key)
       IN  \E i \in (IF S = {} THEN {"keep"} ELSE S) :
             Become(c, [visit[c] EXCEPT !.pc = "lookup", !.cover = i])
    /\ Silent

\* media_ref_for_url_key: LIMIT 1, any of the items that share the bytes; a
\* key nobody knows is left alone.
LookUp(c) ==
    /\ Reached(c, "lookup")
    /\ LET S == Carriers(media, kept, visit[c].key)
       IN  \E i \in (IF S = {} THEN {Nothing} ELSE S) :
             Become(c, [visit[c] EXCEPT !.pc = "write", !.at = i])
    /\ Silent

\* The fault of keeping the byte link.
RewrittenNot(q) == q.key
\* rewrite_media_byte_urls: the ref of the item takes the place of the key.
Rewritten(q) == IF q.at = Nothing THEN q.key ELSE q.at

WritePage(c) ==
    /\ Reached(c, "write")
    /\ page' = [page EXCEPT !.link = Rewritten(visit[c]), !.was = visit[c].at]
    /\ Go(c, "setcover")
    /\ UNCHANGED <<media, kept, drive, shared, started>>

\* set_cover, a statement of its own.
SetCover(c) ==
    /\ Reached(c, "setcover")
    /\ page' = IF visit[c].cover = "keep" THEN page ELSE [page EXCEPT !.cover = visit[c].cover]
    /\ Go(c, "answered")
    /\ UNCHANGED <<media, kept, drive, shared, started>>

-----------------------------------------------------------------------------

ServingStep ==
    \/ \E c \in Visitors :
         \/ Ask(c) \/ Find(c) \/ Variants(c) \/ AskFile(c) \/ AskCover(c)
         \/ Gate(c) \/ Disk(c) \/ Leave(c)
         \/ PostItem(c) \/ AddRow(c) \/ AddCover(c) \/ ReplaceSet(c) \/ AppendFile(c)
         \/ SavePage(c) \/ ResolveCover(c) \/ LookUp(c) \/ WritePage(c) \/ SetCover(c)
    \/ UpdateMetadata \/ EditImage \/ DropItem \/ DropVariant \/ Drive

ServingNext == ServingStep /\ Remember

ServingSpec == ServingInit /\ [][ServingNext]_servingVars

-----------------------------------------------------------------------------

(***************************************************************************)
(* Correctness.                                                            *)
(***************************************************************************)

\* A visitor is given bytes only if there was a moment, while the request
\* ran, at which its role was allowed every item that holds them: gates that
\* are changed, and twins of the bytes that are uploaded with another gate
\* between the queries, never add up to more (serve_media_file,
\* find_by_url_key_with_required_rank).
OnlyAllowedBytes ==
    \A c \in Visitors : visit[c].pc = "answered" /\ visit[c].answer = "bytes"
                        => visit[c].key \in open[c]

\* Who may not see an item during the whole of a request is told what is told
\* of a ref that does not exist, on each of the three routes of a ref, and no
\* cache is told to keep it (resolve_visible, render_media_embed).
DeniedLooksMissing ==
    \A c \in Visitors :
       /\ visit[c].pc = "answered" /\ visit[c].route \in {"get", "options", "embed"}
       /\ visit[c].at \notin seen[c]
       => visit[c].answer = "missing" /\ ~visit[c].stored

\* A shared cache, which asks nobody, never holds bytes that were gated ever
\* since they were uploaded (serve_media_file: private or public).
CacheHoldsOnlyPublic == shared \subseteq public

\* The link of a saved page leads to the item whose bytes the author pasted for
\* as long as that item exists, whatever replaces its bytes
\* (rewrite_media_byte_urls).
Leads(link) == IF link \in Refs THEN media[link] # Nothing ELSE Carriers(media, kept, link) # {}
SavedLinksSurvive ==
    page.was # Nothing /\ media[page.was] # Nothing => Leads(page.link)

=============================================================================
