--------------------------- MODULE Timers_proofs ----------------------------
(***************************************************************************)
(* Proofs about what the site does by the clock.                           *)
(*                                                                         *)
(* Certificates: while the provider sleeps, the certificate it announced   *)
(* outlives the end of its sleep by what is left of the window once every  *)
(* unit of trouble has cost one retry (`Margin`).                          *)
(*                                                                         *)
(* The check of a link: the walk has come to where the first names lead in *)
(* the tree as it is now, or the page it had come to was deleted and the   *)
(* visitor has missed the link since (`OnWay`), as long as no two pages at *)
(* the top share a name and none has come to the top.                      *)
(*                                                                         *)
(* The snapshots: at most two files for each fault are in doubt (`Budget`).*)
(***************************************************************************)
EXTENDS Certificates, Probes, Backups, WellFoundedInduction, SequenceTheorems, FiniteSetTheorems, TLAPS

\* The certificate visitors have, or are about to have.
Announced == IF channel # 0 THEN channel ELSE served

\* Trouble that has not cost its retry yet.
Pending == IF clock = wake /\ trouble THEN 1 ELSE 0

CertTypes ==
    /\ clock \in Nat /\ trouble \in BOOLEAN /\ lost \in Nat /\ lost <= MaxTrouble
    /\ stored \in Nat /\ current \in Nat /\ wake \in Nat /\ channel \in Nat /\ served \in Nat

\* Only a sleeper is behind, and only trouble spoils an order.
Turn ==
    /\ clock <= wake
    /\ stage # "load" => wake = clock /\ current = 0
    /\ stage = "validate" => "new" \in txt
    /\ stage = "poll" /\ order # "ready" => trouble

\* What is left of the window at the end of the sleep: each retry that was
\* slept since the announcement was due to a unit of trouble.
Margin ==
    \E retries \in Nat :
      /\ Announced # 0 => retries + Pending <= lost
      /\ Announced # 0 => Announced - wake + retries * Retry > Window - Refresh

CertInv ==
    /\ CertTypes /\ Turn /\ Margin /\ CurrentIsServed
    /\ served # 0 => served > clock

-----------------------------------------------------------------------------

LEMMA Periods ==
    /\ Retry \in Nat /\ Refresh \in Nat /\ Window \in Nat /\ Life \in Nat
    /\ Retry > 0 /\ Refresh > 0 /\ MaxTrouble \in Nat /\ Window < Life
  BY CertAssumption

LEMMA MoreRetries ==
    ASSUME NEW a \in Nat, NEW b \in Nat, a <= b
    PROVE  a * Retry <= b * Retry /\ a * Retry \in Nat /\ b * Retry \in Nat
<1>1. Retry \in Nat
  BY CertAssumption
<1>2. b * Retry = a * Retry + (b - a) * Retry /\ (b - a) * Retry >= 0
  BY <1>1
<1> QED BY <1>1, <1>2

LEMMA OneMoreRetry ==
    ASSUME NEW a \in Nat
    PROVE  (a + 1) * Retry = a * Retry + Retry /\ a * Retry \in Nat
  BY CertAssumption

\* The certificate that was announced outlives the present sleep.
LEMMA MarginSuffices ==
    ASSUME CertTypes, Turn, Margin, Announced # 0
    PROVE  Announced > wake
<1>1. PICK retries \in Nat :
        /\ retries + Pending <= lost
        /\ Announced - wake + retries * Retry > Window - Refresh
  BY DEF Margin
<1>2. retries <= MaxTrouble
  BY <1>1, Periods DEF CertTypes, Pending
<1>3. retries * Retry <= MaxTrouble * Retry /\ MaxTrouble * Retry \in Nat /\ retries * Retry \in Nat
  BY <1>2, MoreRetries, CertAssumption
<1> QED BY <1>1, <1>3, CertAssumption DEF CertTypes, Announced

LEMMA CertStart == CertInit => CertInv
<1> SUFFICES ASSUME CertInit PROVE CertInv
  OBVIOUS
<1>0. trouble \in BOOLEAN
  BY DEF CertInit
<1>1. CertTypes
  BY <1>0, Periods DEF CertInit, CertTypes
<1>3. Turn /\ CurrentIsServed
  BY DEF CertInit, Turn, CurrentIsServed
<1>2. Margin
  <2>1. 0 \in Nat /\ Announced = 0
    BY DEF CertInit, Announced
  <2> QED BY <2>1 DEF Margin
<1> QED BY <1>1, <1>2, <1>3 DEF CertInv, CertInit

\* A step that neither sleeps nor touches what visitors have.
LEMMA OnlyTheStage ==
    ASSUME CertInv, UNCHANGED <<clock, trouble, lost, channel, served, wake>>
    PROVE  Margin' /\ (served' # 0 => served' > clock')
  BY DEF CertInv, Margin, Announced, Pending

LEMMA Turns ==
    ASSUME CertInv,
           Renew \/ CreateOrLoad \/ CleanProof \/ NewOrder \/ CreateProof \/ Validate
             \/ Finalize \/ Save
    PROVE  CertInv'
<1> USE DEF CertInv
<1>1. UNCHANGED <<clock, trouble, lost, channel, served, wake>>
  BY DEF Renew, CreateOrLoad, CleanProof, NewOrder, CreateProof, Validate, Finalize, Save,
         Goto, Outside
<1>2. Margin' /\ (served' # 0 => served' > clock')
  BY <1>1, OnlyTheStage
<1>3. CertTypes' /\ CurrentIsServed'
  BY <1>1, Periods
     DEF Renew, CreateOrLoad, CleanProof, NewOrder, CreateProof, Validate, Finalize, Save,
         Goto, Outside, CertTypes, Turn, CurrentIsServed, In, IsAwake
<1>4. Turn'
  BY <1>1
     DEF Renew, CreateOrLoad, CleanProof, NewOrder, CreateProof, Validate, Finalize, Save,
         Goto, Outside, CertTypes, Turn, In, IsAwake, Published
<1> QED BY <1>2, <1>3, <1>4

LEMMA Sleeps ==
    ASSUME CertInv, Unchanged \/ Broadcast
    PROVE  CertInv'
<1> USE DEF CertInv
<1>0. In("load") /\ wake = clock /\ stage' = "load" /\ wake' = clock + Refresh /\ Refresh > 0
  BY Periods DEF Unchanged, Broadcast, In, IsAwake, Sleep
<1>1. CertTypes' /\ Turn'
  BY <1>0, Periods
     DEF Unchanged, Broadcast, CertTypes, Turn, Outside, Loaded
<1>2. CurrentIsServed'
  BY DEF Unchanged, Broadcast, Outside, Loaded, CurrentIsServed
<1>3. Announced' - clock > Window /\ Announced' # 0
  <2>1. Announced' = stored /\ stored # 0 /\ Fresh(stored)
    BY DEF Unchanged, Broadcast, Announced, Loaded, CurrentIsServed, CertTypes
  <2> QED BY <2>1 DEF Fresh
<1>4. Margin'
  <2>1. 0 * Retry = 0 /\ 0 \in Nat
    BY Periods
  <2>2. Pending' = 0 /\ lost' \in Nat
    BY <1>0, <1>1, Periods DEF Pending, CertTypes, Unchanged, Broadcast, Outside
  <2>3. Announced' \in Nat /\ clock \in Nat
    BY <1>1 DEF CertTypes, Announced
  <2>4. Announced' - wake' + 0 * Retry > Window - Refresh
    <3>1. Announced' - clock > Window /\ wake' = clock + Refresh
      BY <1>0, <1>3
    <3>2. Announced' - wake' > Window - Refresh /\ Announced' - wake' \in Int
      BY <2>3, <3>1, Periods DEF Announced
    <3> QED BY <2>1, <3>2
  <2>5. 0 + Pending' <= lost'
    BY <2>2
  <2> QED BY <2>1, <2>4, <2>5 DEF Margin
<1>5. served' # 0 => served' > clock'
  BY DEF Unchanged, Broadcast, Outside
<1> QED BY <1>1, <1>2, <1>4, <1>5

LEMMA Retries ==
    ASSUME CertInv, BackOff
    PROVE  CertInv'
<1> USE DEF CertInv
<1>0. /\ wake = clock /\ trouble /\ stage' = "load" /\ wake' = clock + Retry /\ Retry > 0
      /\ UNCHANGED <<clock, trouble, lost, stored, current, channel, served>>
  BY Periods DEF BackOff, IsAwake, Sleep, Turn, Outside
<1>1. CertTypes' /\ Turn' /\ CurrentIsServed'
  BY <1>0, Periods DEF CertTypes, Turn, CurrentIsServed
<1>2. PICK retries \in Nat :
        /\ Announced # 0 => retries + Pending <= lost
        /\ Announced # 0 => Announced - wake + retries * Retry > Window - Refresh
  BY DEF Margin
<1>3. Pending = 1 /\ Pending' = 0 /\ Announced' = Announced /\ retries + 1 \in Nat
  BY <1>0, <1>1, Periods DEF Pending, Announced, CertTypes
<1>4. Announced' # 0 => (retries + 1) + Pending' <= lost'
  BY <1>0, <1>2, <1>3
<1>5. Announced' # 0 => Announced' - wake' + (retries + 1) * Retry > Window - Refresh
  BY <1>0, <1>1, <1>2, <1>3, OneMoreRetry, Periods DEF CertTypes, Announced
<1>6. Margin'
  BY <1>3, <1>4, <1>5 DEF Margin
<1> QED BY <1>0, <1>1, <1>6

LEMMA Endpoint ==
    ASSUME CertInv, FirstConfig \/ Reload
    PROVE  CertInv'
<1> USE DEF CertInv
<1>0. /\ channel # 0 /\ channel' = 0 /\ served' = channel
      /\ UNCHANGED <<clock, trouble, lost, stored, current, stage, wake, txt, order>>
  BY DEF FirstConfig, Reload, Outside
<1>1. CertTypes' /\ Turn' /\ CurrentIsServed'
  BY <1>0 DEF CertTypes, Turn, CurrentIsServed
<1>2. Announced' = Announced /\ Pending' = Pending
  BY <1>0 DEF Announced, Pending, CertTypes
<1>3. Margin'
  BY <1>0, <1>2 DEF Margin
<1>4. Announced > wake /\ wake >= clock
  BY <1>0, MarginSuffices DEF Announced, Turn, CertTypes
<1>5. served' # 0 => served' > clock'
  BY <1>0, <1>4 DEF Announced, CertTypes
<1> QED BY <1>1, <1>3, <1>5

LEMMA TimePasses ==
    ASSUME CertInv, Wait
    PROVE  CertInv'
<1> USE DEF CertInv
<1>0. /\ clock < wake /\ channel = 0 /\ clock' = clock + 1 /\ trouble' \in BOOLEAN
      /\ lost' = (IF trouble' THEN lost + 1 ELSE lost) /\ lost' <= MaxTrouble
      /\ UNCHANGED <<stored, current, stage, wake, channel, served, txt, order>>
  BY DEF Wait, IsAwake, Turn, CertTypes
<1>1. CertTypes' /\ CurrentIsServed'
  BY <1>0 DEF CertTypes, CurrentIsServed
<1>2. Turn'
  BY <1>0 DEF Turn, CertTypes
<1>3. Pending = 0 /\ lost + Pending' <= lost' /\ Announced' = Announced
  BY <1>0 DEF Pending, Announced, CertTypes
<1>4. PICK retries \in Nat :
        /\ Announced # 0 => retries + Pending <= lost
        /\ Announced # 0 => Announced - wake + retries * Retry > Window - Refresh
  BY DEF Margin
<1>5. Margin'
  <2>1. Announced' # 0 => retries + Pending' <= lost'
    BY <1>0, <1>1, <1>3, <1>4 DEF CertTypes, Pending
  <2> QED BY <1>0, <1>3, <1>4, <2>1 DEF Margin
<1>6. served' # 0 => served' > clock'
  BY <1>0, MarginSuffices DEF Announced, CertTypes
<1> QED BY <1>1, <1>2, <1>5, <1>6

LEMMA Restarts ==
    ASSUME CertInv, Restart
    PROVE  CertInv'
<1> USE DEF CertInv
<1>1. CertTypes' /\ Turn' /\ CurrentIsServed'
  BY DEF Restart, CertTypes, Turn, CurrentIsServed
<1>2. Margin'
  <2>1. 0 \in Nat /\ Announced' = 0
    BY DEF Restart, Announced
  <2> QED BY <2>1 DEF Margin
<1> QED BY <1>1, <1>2 DEF Restart

THEOREM CertAlwaysHolds == CertSpec => []CertInv
<1>1. CertInv /\ [CertNext]_certVars => CertInv'
  <2> SUFFICES ASSUME CertInv, [CertNext]_certVars PROVE CertInv'
    OBVIOUS
  <2>1. CASE UNCHANGED certVars
    BY <2>1 DEF certVars, CertInv, CertTypes, Turn, Margin, CurrentIsServed, Announced, Pending
  <2>2. CASE CertNext
    BY <2>2, Turns, Sleeps, Retries, Endpoint, TimePasses, Restarts DEF CertNext
  <2> QED BY <2>1, <2>2
<1> QED BY CertStart, <1>1, PTL DEF CertSpec

\* The certificate visitors are shown has not expired, for any periods that
\* leave the window room for the sleep before it and a retry for each unit of
\* trouble (CERT_REFRESH, RETRY_BACKOFF, refresh_once).
THEOREM NeverExpired == CertSpec => []ServedIsValid
<1>1. CertInv => ServedIsValid
  BY DEF CertInv, ServedIsValid
<1> QED BY <1>1, CertAlwaysHolds, PTL

\* What the provider takes for current is stored, and served or on its way.
THEOREM CurrentAlwaysServed == CertSpec => []CurrentIsServed
<1>1. CertInv => CurrentIsServed
  BY DEF CertInv
<1> QED BY <1>1, CertAlwaysHolds, PTL

-----------------------------------------------------------------------------
(* Arithmetic and walks.                                                   *)

\* Every set of numbers that is not empty has a least one.
LEMMA LeastOf ==
    ASSUME NEW S, S \subseteq Nat, S # {}
    PROVE  \E m \in S : \A k \in S : m <= k
<1>1. IsWellFoundedOn(OpToRel(<, Nat), Nat)
  BY NatLessThanWellFounded
<1>2. PICK m \in S : \A k \in S : ~ (<<k, m>> \in OpToRel(<, Nat))
  BY <1>1, WFMin, Zenon
<1>3. \A k \in S : ~ (k < m)
  BY <1>2 DEF OpToRel
<1> QED BY <1>3

Agree(w, v, k) == \A n \in 1 .. k : w[n] = v[n]
GoAlike(w, v, k) == \A n \in 1 .. k : Agree(w, v, n - 1) => w[n] = v[n]

\* Two walks that go on alike from every name on which they agreed so far are
\* the same walk.
LEMMA SameWalk ==
    ASSUME NEW k \in Nat, NEW w, NEW v, GoAlike(w, v, k)
    PROVE  Agree(w, v, k)
<1> DEFINE Apart == {n \in 1 .. k : w[n] # v[n]}
<1>1. SUFFICES ASSUME Apart # {} PROVE FALSE
  BY DEF Agree
<1>2. PICK m \in Apart : \A n \in Apart : m <= n
  BY <1>1, LeastOf, Apart \subseteq Nat
<1>3. Agree(w, v, m - 1)
  BY <1>2 DEF Agree
<1> QED BY <1>2, <1>3 DEF GoAlike

-----------------------------------------------------------------------------

ProbeTypes ==
    /\ tree \in [NodeIds -> [parent : NodeIds \cup {Top, -1}, name : Slugs \cup {"blog", "none"}]]
    /\ coming \subseteq NodeIds /\ variants \subseteq media /\ remote \in Remotes
    /\ probe \in [pc : {"idle", "walk", "head", "get", "done"}, url : Links \cup {IdleProbe.url},
                  at : NodeIds \cup {Top, Nobody}, deep : Nat,
                  verdict : {"none", "ok", "dead", "unknown", "blocked", "transient"}]

\* Ids are not given twice, pages are under pages, and below the top no two
\* share a name.
Tidy ==
    /\ \A i \in coming : tree[i] = Absent
    /\ \A i \in NodeIds : tree[i].parent \in NodeIds =>
         /\ tree[i].parent # i /\ tree[tree[i].parent] # Absent
         /\ \A j \in NodeIds : tree[j] = tree[i] => j = i

AtWork ==
    /\ probe.pc # "idle" => probe.url \in Links
    /\ probe.pc = "walk" => /\ Classify(probe.url) = "internal" /\ InTree(probe.url.path)
                            /\ probe.url.path \notin OkExact
                            /\ probe.deep < Len(Segments(probe.url.path))
    /\ probe.pc \in {"head", "get"} => Classify(probe.url) = "external"

Noted ==
    probe.pc # "idle" => IF Works(probe.url) THEN "got" \in seen ELSE "missed" \in seen

\* The first d names lead to page x.
Reaches(names, d, x) ==
    \E w \in [1 .. d -> NodeIds] : Chain(names, w) /\ x = IF d = 0 THEN Top ELSE w[d]

\* The page the walk had come to was deleted.
Lost == probe.at \in NodeIds \ coming /\ tree[probe.at] = Absent /\ "missed" \in seen

OnWay ==
    probe.pc = "walk" /\ "muddled" \notin seen /\ ~Twins =>
      Reaches(Segments(probe.url.path), probe.deep, probe.at) \/ Lost

\* An external link that is called ok answered.
Heard ==
    probe.pc = "done" /\ Classify(probe.url) = "external" /\ probe.verdict = "ok" => "got" \in seen

ProbeInv == ProbeTypes /\ Tidy /\ AtWork /\ Noted /\ OnWay /\ Heard /\ DeadMeansDead

-----------------------------------------------------------------------------

LEMMA Ids == /\ NodeIds \subseteq Nat \ {0} /\ Slugs \subseteq STRING
             /\ Links \subseteq [shape : STRING, host : STRING, path : Seq(STRING)]
             /\ Nobody \notin NodeIds /\ Top \notin NodeIds /\ -1 \notin NodeIds
BY ProbesAssumption DEF Nobody, Top

LEMMA FirstIn ==
    ASSUME NEW S, S \subseteq NodeIds, S # {}
    PROVE  First(S) \in S
<1>1. \E m \in S : \A k \in S : m <= k
  BY LeastOf, Ids
<1> QED BY <1>1 DEF First

LEMMA FirstType == \A S : S \subseteq NodeIds => First(S) \in S \cup {Nobody}
BY FirstIn DEF First

LEMMA FirstOfOne == \A i \in NodeIds : First({i}) = i
<1> SUFFICES ASSUME NEW i \in NodeIds PROVE First({i}) = i
  OBVIOUS
<1> QED BY FirstIn

LEMMA BlogIsThere == BlogNode \in NodeIds
BY FirstIn, ProbesAssumption DEF BlogNode

\* Only at the top may two pages share a name.
LEMMA OneOfAName ==
    ASSUME ProbeTypes, Tidy, ~Twins, NEW p \in NodeIds \cup {Top}, NEW slug,
           NEW i \in Named(p, slug)
    PROVE  Named(p, slug) = {i} /\ First(Named(p, slug)) = i
<1>1. \A j \in Named(p, slug) : j = i
  BY DEF Named, Twins, Tidy
<1>2. Named(p, slug) = {i}
  BY <1>1
<1>3. i \in NodeIds
  BY DEF Named
<1> QED BY <1>2, <1>3, FirstOfOne

\* A page of a walk is one of those so named.
LEMMA OnChain ==
    ASSUME NEW names, NEW k \in Nat, NEW w \in [1 .. k -> NodeIds], Chain(names, w),
           NEW n \in 1 .. k
    PROVE  /\ (IF n = 1 THEN Top ELSE w[n-1]) \in NodeIds \cup {Top}
           /\ w[n] = First(Named(IF n = 1 THEN Top ELSE w[n-1], names[n]))
           /\ w[n] \in Named(IF n = 1 THEN Top ELSE w[n-1], names[n])
<1>1. w[n] = First(Named(IF n = 1 THEN Top ELSE w[n-1], names[n])) /\ w[n] \in NodeIds
  BY DEF Chain
<1>2. n = 1 \/ n - 1 \in 1 .. k
  OBVIOUS
<1>3. (IF n = 1 THEN Top ELSE w[n-1]) \in NodeIds \cup {Top}
  BY <1>2
<1>4. Named(IF n = 1 THEN Top ELSE w[n-1], names[n]) \subseteq NodeIds
  BY DEF Named
<1> QED BY <1>1, <1>3, <1>4, FirstType, Ids

LEMMA ChainsAgree ==
    ASSUME NEW names, NEW a \in Nat, NEW b \in Nat, NEW k \in Nat, k <= a, k <= b,
           NEW w \in [1 .. a -> NodeIds], NEW v \in [1 .. b -> NodeIds],
           Chain(names, w), Chain(names, v)
    PROVE  Agree(w, v, k)
<1>1. ASSUME NEW n \in 1 .. k, Agree(w, v, n - 1) PROVE w[n] = v[n]
  <2>1. n \in 1 .. a /\ n \in 1 .. b
    OBVIOUS
  <2>2. (IF n = 1 THEN Top ELSE w[n-1]) = (IF n = 1 THEN Top ELSE v[n-1])
    BY <1>1 DEF Agree
  <2>3. w[n] = First(Named(IF n = 1 THEN Top ELSE w[n-1], names[n]))
    BY <2>1, OnChain
  <2>4. v[n] = First(Named(IF n = 1 THEN Top ELSE v[n-1], names[n]))
    BY <2>1, OnChain
  <2> QED BY <2>2, <2>3, <2>4
<1>2. GoAlike(w, v, k)
  BY <1>1 DEF GoAlike
<1> QED BY <1>2, SameWalk

LEMMA WayStart == \A names : Reaches(names, 0, Top)
<1> SUFFICES ASSUME NEW names PROVE Reaches(names, 0, Top)
  OBVIOUS
<1> DEFINE w == [n \in 1 .. 0 |-> Top]
<1>1. w \in [1 .. 0 -> NodeIds] /\ Chain(names, w)
  BY DEF Chain
<1> QED BY <1>1 DEF Reaches

LEMMA OneMore ==
    ASSUME NEW names, NEW d \in Nat, NEW x, Reaches(names, d, x),
           NEW hit \in NodeIds, hit = First(Named(x, names[d+1]))
    PROVE  Reaches(names, d + 1, hit)
<1>1. PICK w \in [1 .. d -> NodeIds] : Chain(names, w) /\ x = IF d = 0 THEN Top ELSE w[d]
  BY DEF Reaches
<1> DEFINE v == [n \in 1 .. d + 1 |-> IF n = d + 1 THEN hit ELSE w[n]]
<1>2. v \in [1 .. d + 1 -> NodeIds] /\ v[d+1] = hit
  OBVIOUS
<1>3. ASSUME NEW n \in 1 .. d + 1
      PROVE  v[n] = First(Named(IF n = 1 THEN Top ELSE v[n-1], names[n]))
  <2>1. CASE n = d + 1
    <3>1. (IF n = 1 THEN Top ELSE v[n-1]) = x
      BY <1>1, <2>1
    <3> QED BY <3>1, <2>1
  <2>2. CASE n # d + 1
    <3>1. n \in 1 .. d /\ v[n] = w[n]
      BY <2>2
    <3>2. (IF n = 1 THEN Top ELSE v[n-1]) = (IF n = 1 THEN Top ELSE w[n-1])
      BY <2>2
    <3> QED BY <3>1, <3>2, <1>1, OnChain
  <2> QED BY <2>1, <2>2
<1>4. Chain(names, v)
  BY <1>2, <1>3 DEF Chain
<1> QED BY <1>2, <1>4 DEF Reaches

LEMMA WayThrough ==
    ASSUME NEW names, NEW x, Len(names) \in Nat, Reaches(names, Len(names), x)
    PROVE  Found(names)
BY DEF Reaches, Found

LEMMA DeadEnd ==
    ASSUME NEW names, NEW d \in Nat, Len(names) \in Nat, d < Len(names), NEW x,
           Reaches(names, d, x), First(Named(x, names[d+1])) = Nobody
    PROVE  ~Found(names)
<1>1. PICK w \in [1 .. d -> NodeIds] : Chain(names, w) /\ x = IF d = 0 THEN Top ELSE w[d]
  BY DEF Reaches
<1>2. SUFFICES ASSUME NEW v \in [1 .. Len(names) -> NodeIds], Chain(names, v) PROVE FALSE
  BY DEF Found
<1>3. Agree(w, v, d)
  <2>1. d <= d /\ d <= Len(names)
    OBVIOUS
  <2> QED BY <1>1, <1>2, <2>1, ChainsAgree
<1>4. d + 1 \in 1 .. Len(names)
  OBVIOUS
<1>5. (IF d + 1 = 1 THEN Top ELSE v[d + 1 - 1]) = x
  BY <1>1, <1>3 DEF Agree
<1>6. v[d+1] = First(Named(x, names[d+1])) /\ v[d+1] \in NodeIds
  BY <1>2, <1>4, <1>5, OnChain
<1> QED BY <1>6, Ids

-----------------------------------------------------------------------------
(* What the resolver says, and what the router does.                       *)

LEMMA Lengths == \A n \in Nat : (n > 1 => n = 2 \/ n > 2) /\ (n > 2 => n # 2 /\ n # 1)
OBVIOUS

LEMMA StartsOne ==
    ASSUME NEW path, NEW a
    PROVE  Starts(path, <<a>>) <=> Len(path) > 1 /\ path[1] = a
BY DEF Starts

LEMMA StartsTwo ==
    ASSUME NEW path, NEW a, NEW b
    PROVE  Starts(path, <<a, b>>) <=> Len(path) > 2 /\ path[1] = a /\ path[2] = b
BY DEF Starts

\* The routes that walk nothing but are called dead or asked for otherwise.
LEMMA RoutesWithoutPage ==
    ASSUME NEW path, path \in CodeRoutes, path \notin OkExact
    PROVE  path = <<"pages">> \/ path = <<"favicon.ico">>
BY DEF CodeRoutes, OkExact

LEMMA AllOkAreServed ==
    ASSUME NEW path, path \in OkExact
    PROVE  Served(path)
<1>1. path \in CodeRoutes \/ path = <<"library", "audiobooks">>
  BY DEF OkExact, CodeRoutes
<1>2. CASE path = <<"library", "audiobooks">>
  <2>1. Len(path) = 2 /\ path[1] = "library"
    BY <1>2
  <2> QED BY <2>1, StartsOne DEF Served
<1> QED BY <1>1, <1>2 DEF Served

\* A page is where its walk leads, but for what is under a post.
LEMMA WalkTellsServed ==
    ASSUME NEW path \in Seq(STRING), InTree(path), path \notin OkExact
    PROVE  /\ ~Found(Segments(path)) => ~Served(path)
           /\ Found(Segments(path)) => Served(path) \/ NotServed(path)
<1>1. Len(path) > 1 /\ path[1] \in {"blog", "pages"}
  BY StartsOne DEF InTree
<1>2. path \notin CodeRoutes
  <2>1. path # <<"pages">> /\ path # <<"favicon.ico">>
    BY <1>1
  <2> QED BY <2>1, RoutesWithoutPage
<1>3. CASE path[1] = "blog"
  <2>1. Segments(path) = path
    BY <1>3 DEF Segments
  <2>2. Served(path) <=> Len(path) = 2 /\ Found(path)
    BY <1>1, <1>2, <1>3, StartsOne, StartsTwo DEF Served
  <2>3. Len(path) > 2 => NotServed(path)
    BY <1>1, <1>3, StartsOne DEF NotServed
  <2>4. Len(path) = 2 \/ Len(path) > 2
    <3>1. Len(path) \in Nat
      OBVIOUS
    <3> QED BY <3>1, <1>1, Lengths, Zenon
  <2>5. Found(path) => Served(path) \/ NotServed(path)
    BY <2>2, <2>3, <2>4
  <2> QED BY <2>1, <2>2, <2>5
<1>4. CASE path[1] = "pages"
  <2>1. Segments(path) = Beyond(path, 1)
    BY <1>4 DEF Segments
  <2>2. Served(path) <=> Found(Beyond(path, 1))
    BY <1>1, <1>2, <1>4, StartsOne, StartsTwo DEF Served
  <2> QED BY <2>1, <2>2
<1> QED BY <1>1, <1>3, <1>4

LEMMA ResolvedTellsServed ==
    ASSUME NEW path \in Seq(STRING), ~(path \notin OkExact /\ InTree(path)), variants \subseteq media
    PROVE  /\ Resolved(path) = "dead" => ~Served(path) \/ EditorFile(path)
           /\ Resolved(path) = "ok" => Served(path) \/ NotServed(path)
<1>0. Len(path) \in Nat
  OBVIOUS
<1>1. CASE path \in OkExact
  BY <1>1, AllOkAreServed DEF Resolved
<1>2. CASE path \notin OkExact
  <2>1. ~(Len(path) > 1 /\ path[1] \in {"blog", "pages"})
    BY <1>2, StartsOne DEF InTree
  <2>2. path \in CodeRoutes => Len(path) = 1 /\ path[1] \in {"pages", "favicon.ico"}
    BY <1>2, RoutesWithoutPage
  <2>3. CASE DeadShape(path)
    <3>1. Len(path) > 1 /\ path[1] \in {"projects", "3d"}
      BY <2>3, StartsOne DEF DeadShape
    <3>2. Served(path) => EditorFile(path)
      BY <3>1, <2>2, StartsOne, StartsTwo DEF Served, EditorFile
    <3> QED BY <3>2, <2>3, <1>2 DEF Resolved
  <2>4. CASE ~DeadShape(path) /\ Starts(path, <<"media", "file">>)
    <3>1. Len(path) > 2 /\ path[1] = "media" /\ path[2] = "file"
      BY <2>4, StartsTwo
    <3>4. /\ \A a \in {"library", "blog", "pages"} : ~Starts(path, <<a>>)
          /\ ~Starts(path, <<"3d", "editor">>) /\ ~Starts(path, <<"media", "embed">>)
      BY <3>1, StartsOne, StartsTwo
    <3>6. Len(path) # 2 /\ Len(path) # 1
      BY <3>1, <1>0, Lengths, Zenon
    <3>5. Len(path) # 2 /\ path \notin CodeRoutes
      BY <3>6, <2>2
    <3>2. Served(path) <=> Len(path) = 3 /\ path[3] \in variants
      BY <2>4, <3>4, <3>5 DEF Served
    <3>3. Resolved(path) = HitOrDead(Len(path) = 3 /\ path[3] \in variants)
      BY <2>4, <1>2 DEF Resolved
    <3> QED BY <3>2, <3>3 DEF HitOrDead
  <2>5. CASE /\ ~DeadShape(path) /\ ~Starts(path, <<"media", "file">>)
             /\ Starts(path, <<"media", "embed">>)
    <3>1. Len(path) > 2 /\ path[1] = "media" /\ path[2] = "embed"
      BY <2>5, StartsTwo
    <3>4. /\ \A a \in {"library", "blog", "pages"} : ~Starts(path, <<a>>)
          /\ ~Starts(path, <<"3d", "editor">>) /\ ~Starts(path, <<"media", "file">>)
      BY <3>1, StartsOne, StartsTwo
    <3>6. Len(path) # 2 /\ Len(path) # 1
      BY <3>1, <1>0, Lengths, Zenon
    <3>5. Len(path) # 2 /\ path \notin CodeRoutes
      BY <3>6, <2>2
    <3>2. Served(path) <=> Len(path) = 3 /\ path[3] \in media
      BY <2>5, <3>4, <3>5 DEF Served
    <3>3. Resolved(path) = HitOrDead(Len(path) = 3 /\ path[3] \in media)
      BY <2>5, <1>2 DEF Resolved
    <3> QED BY <3>2, <3>3 DEF HitOrDead
  <2>6. CASE /\ ~DeadShape(path) /\ ~Starts(path, <<"media", "file">>)
             /\ ~Starts(path, <<"media", "embed">>)
    <3>1. CASE Starts(path, <<"media">>)
      <4>1. Len(path) > 1 /\ path[1] = "media"
        BY <3>1, StartsOne
      <4>2. Served(path) <=> Len(path) = 2 /\ path[2] \in variants
        BY <4>1, <2>2, <2>6, <1>0, StartsOne, StartsTwo DEF Served
      <4>3. Resolved(path) = HitOrDead(Len(path) = 2 /\ path[2] \in media)
        BY <2>6, <3>1, <1>2 DEF Resolved
      <4>4. Len(path) = 2 /\ path[2] \notin variants => NotServed(path)
        BY <3>1 DEF NotServed
      <4> QED BY <4>2, <4>3, <4>4 DEF HitOrDead
    <3>2. CASE ~Starts(path, <<"media">>)
      BY <3>2, <2>6, <1>2 DEF Resolved
    <3> QED BY <3>1, <3>2
  <2> QED BY <2>3, <2>4, <2>5, <2>6
<1> QED BY <1>1, <1>2

\* Hosts that answer a HEAD well answer a GET well; what is called dead or ok
\* is as alive as that.
LEMMA AnswersTell ==
    ASSUME NEW r \in Remotes
    PROVE  /\ Alive(r[1]) => Alive(r[2])
           /\ \A n \in {1, 2} : /\ ClassOfAnswer(r[n]) = "ok" => Alive(r[n])
                                /\ ClassOfAnswer(r[n]) = "dead" => ~Alive(r[n])
                                /\ ClassOfAnswer(r[n]) \in {"ok", "dead", "blocked", "transient"}
BY DEF Remotes, Alive, ClassOfAnswer, Refused, Silent

-----------------------------------------------------------------------------
(* The steps.                                                              *)

LEMMA ProbeStarts == ProbeInit => ProbeInv
<1> SUFFICES ASSUME ProbeInit PROVE ProbeInv
  OBVIOUS
<1>1. PICK slug \in Slugs, posts \in SUBSET {First(NodeIds \ {BlogNode})} :
         /\ tree = [i \in NodeIds |-> IF i = BlogNode THEN [parent |-> Top, name |-> "blog"]
                                      ELSE IF i \in posts THEN [parent |-> BlogNode, name |-> slug]
                                      ELSE Absent]
         /\ coming = NodeIds \ (posts \cup {BlogNode})
  BY DEF ProbeInit
<1>3. tree \in [NodeIds -> [parent : NodeIds \cup {Top, -1}, name : Slugs \cup {"blog", "none"}]]
  <2> DEFINE Row == [parent : NodeIds \cup {Top, -1}, name : Slugs \cup {"blog", "none"}]
  <2>1. /\ [parent |-> Top, name |-> "blog"] \in Row /\ [parent |-> BlogNode, name |-> slug] \in Row
        /\ Absent \in Row
    <3>1. Top \in NodeIds \cup {Top, -1} /\ -1 \in NodeIds \cup {Top, -1}
      OBVIOUS
    <3>2. {"blog", "none", slug} \subseteq Slugs \cup {"blog", "none"}
      OBVIOUS
    <3>3. Absent \in Row
      BY <3>1, <3>2 DEF Absent
    <3>4. [parent |-> Top, name |-> "blog"] \in Row
      BY <3>1, <3>2
    <3>5. [parent |-> BlogNode, name |-> slug] \in Row
      BY <3>2, BlogIsThere
    <3> QED BY <3>3, <3>4, <3>5
  <2> HIDE DEF Row
  <2>2. tree \in [NodeIds -> Row]
    BY <1>1, <2>1
  <2> QED BY <2>2 DEF Row
<1>4. ProbeTypes
  <2>1. probe.pc = "idle" /\ probe = IdleProbe
    BY DEF ProbeInit, IdleProbe
  <2>2. IdleProbe \in [pc : {"idle", "walk", "head", "get", "done"}, url : Links \cup {IdleProbe.url},
                  at : NodeIds \cup {Top, Nobody}, deep : Nat,
                  verdict : {"none", "ok", "dead", "unknown", "blocked", "transient"}]
    BY DEF IdleProbe
  <2> QED BY <2>1, <2>2, <1>1, <1>3 DEF ProbeInit, ProbeTypes
<1>5. Tidy
  <2>1. \A i \in coming : tree[i] = Absent
    BY <1>1
  <2>2. \A i \in NodeIds : tree[i].parent \in NodeIds =>
          i \in posts /\ i # BlogNode /\ tree[i] = [parent |-> BlogNode, name |-> slug]
    BY <1>1, Ids DEF Absent
  <2>3. tree[BlogNode] # Absent /\ tree[BlogNode] # [parent |-> BlogNode, name |-> slug]
    BY <1>1, BlogIsThere, Ids DEF Absent, Top
  <2>4. \A i, j \in posts : i = j
    OBVIOUS
  <2>5. \A i \in NodeIds : tree[i] = [parent |-> BlogNode, name |-> slug] => i \in posts
    BY <1>1, Ids, BlogIsThere DEF Absent
  <2> QED BY <2>1, <2>2, <2>3, <2>4, <2>5 DEF Tidy
<1>6. probe.pc = "idle"
  BY DEF ProbeInit, IdleProbe
<1> QED BY <1>4, <1>5, <1>6 DEF ProbeInv, AtWork, Noted, OnWay, Heard, DeadMeansDead

LEMMA NoteNotes == Note => Noted'
BY DEF Note, Noted

LEMMA NoteKeeps ==
    ASSUME Note, probe.pc # "idle", probe'.pc # "idle"
    PROVE  /\ seen \subseteq seen'
           /\ "muddled" \notin seen' => "muddled" \notin seen /\ ~Twins /\ ~Promoted
BY DEF Note

\* Whatever changes, what was said in the end stays right.
LEMMA StaysRight ==
    ASSUME ProbeInv, Note, UNCHANGED probe
    PROVE  Heard' /\ DeadMeansDead'
<1>1. SUFFICES ASSUME probe.pc = "done" PROVE Heard' /\ DeadMeansDead'
  BY DEF Heard, DeadMeansDead
<1>2. /\ seen \subseteq seen'
      /\ "muddled" \notin seen' => "muddled" \notin seen
  BY <1>1, NoteKeeps
<1>3. Heard'
  BY <1>2 DEF ProbeInv, Heard
<1>4. DeadMeansDead'
  <2>1. SUFFICES ASSUME "muddled" \notin seen'
        PROVE  /\ probe.verdict = "dead" => "missed" \in seen' \/ EditorFile(probe.url.path)
               /\ probe.verdict = "ok" => "got" \in seen' \/ NotServed(probe.url.path)'
    BY <1>1 DEF DeadMeansDead, EditorFile
  <2>2. probe.verdict = "dead" => "missed" \in seen' \/ EditorFile(probe.url.path)
    BY <1>1, <1>2, <2>1 DEF ProbeInv, DeadMeansDead
  <2>3. ASSUME probe.verdict = "ok", NotServed(probe.url.path), ~NotServed(probe.url.path)',
               Classify(probe.url) # "external"
        PROVE  "got" \in seen'
    <3>1. Starts(probe.url.path, <<"media">>) /\ Len(probe.url.path) = 2 /\ probe.url.path[2] \in variants'
      BY <2>3 DEF NotServed
    <3>2. Served(probe.url.path)'
      BY <3>1 DEF Served
    <3>3. Works(probe.url)'
      BY <3>2, <2>3 DEF Works, Classify
    <3> QED BY <3>3, <1>1 DEF Note
  <2>4. probe.verdict = "ok" => "got" \in seen' \/ NotServed(probe.url.path)'
    BY <2>1, <2>3, <1>1, <1>2 DEF ProbeInv, DeadMeansDead, Heard
  <2> QED BY <2>2, <2>4
<1> QED BY <1>3, <1>4

LEMMA SiteStays ==
    ASSUME ProbeInv, UNCHANGED <<tree, coming, probe>>
    PROVE  /\ Tidy' /\ AtWork'
           /\ ProbeTypes' <=> variants' \subseteq media' /\ remote' \in Remotes
           /\ \A names, d, x : Reaches(names, d, x)' <=> Reaches(names, d, x)
           /\ Twins' <=> Twins
<1>1. \A p, slug : Named(p, slug)' = Named(p, slug)
  BY DEF Named
<1>2. \A names, w : Chain(names, w)' <=> Chain(names, w)
  BY DEF Chain, Named
<1>3. \A names, d, x : Reaches(names, d, x)' <=> Reaches(names, d, x)
  BY <1>2 DEF Reaches
<1>4. Tidy' /\ AtWork'
  BY DEF ProbeInv, Tidy, AtWork
<1>5. ProbeTypes' <=> variants' \subseteq media' /\ remote' \in Remotes
  BY DEF ProbeInv, ProbeTypes
<1>6. Twins' <=> Twins
  BY DEF Twins
<1> QED BY <1>3, <1>4, <1>5, <1>6

\* Nothing of the tree changes under the walk.
LEMMA WayStays ==
    ASSUME ProbeInv, Note, UNCHANGED <<tree, coming, probe>>
    PROVE  OnWay'
<1>1. SUFFICES ASSUME probe.pc = "walk", "muddled" \notin seen', ~Twins'
      PROVE  (Reaches(Segments(probe.url.path), probe.deep, probe.at) \/ Lost)'
  BY DEF OnWay
<1>2. seen \subseteq seen' /\ "muddled" \notin seen /\ ~Twins
  BY <1>1, NoteKeeps
<1>3. Reaches(Segments(probe.url.path), probe.deep, probe.at) \/ Lost
  BY <1>1, <1>2 DEF ProbeInv, OnWay
<1>4. CASE Reaches(Segments(probe.url.path), probe.deep, probe.at)
  BY <1>4, SiteStays
<1>5. CASE Lost
  BY <1>5, <1>2 DEF Lost
<1> QED BY <1>3, <1>4, <1>5

LEMMA ItemsChange == ASSUME ProbeInv, NEW m \in Items, ChangeItem(m) PROVE ProbeInv'
<1>1. UNCHANGED <<tree, coming, probe>> /\ Note /\ variants' \subseteq media' /\ remote' \in Remotes
  BY DEF ChangeItem, Change, ProbeInv, ProbeTypes
<1> QED BY <1>1, SiteStays, WayStays, StaysRight, NoteNotes DEF ProbeInv

LEMMA RemotesChange == ASSUME ProbeInv, ChangeRemote PROVE ProbeInv'
<1>1. UNCHANGED <<tree, coming, probe>> /\ Note /\ variants' \subseteq media' /\ remote' \in Remotes
  BY DEF ChangeRemote, Change, Site, ProbeInv, ProbeTypes
<1> QED BY <1>1, SiteStays, WayStays, StaysRight, NoteNotes DEF ProbeInv

LEMMA SameSite ==
    ASSUME UNCHANGED <<Site, remote>>, UNCHANGED probe.url
    PROVE  Works(probe.url)' <=> Works(probe.url)
<1>1. \A p, slug : Named(p, slug)' = Named(p, slug)
  BY DEF Named, Site
<1>2. \A path : Found(path)' <=> Found(path)
  BY DEF Found, Chain, Named, Site
<1>3. \A path : Served(path)' <=> Served(path)
  BY <1>2 DEF Served, Site
<1> QED BY <1>3 DEF Works, Classify

\* What asks nothing of the tree is told by the tables of one moment.
LEMMA Starting == ASSUME ProbeInv, NEW url \in Links, StartProbe(url) PROVE ProbeInv'
<1> DEFINE internal == Classify(url) = "internal"
           walks == internal /\ url.path \notin OkExact /\ InTree(url.path)
<1>1. /\ probe.pc = "idle" /\ UNCHANGED <<Site, remote>> /\ Note
      /\ probe' = [IdleProbe EXCEPT
                     !.url = url,
                     !.pc = IF walks THEN "walk" ELSE IF internal THEN "done" ELSE "head",
                     !.verdict = IF internal /\ ~walks THEN Resolved(url.path) ELSE "none"]
      /\ Classify(url) # "skip"
  BY DEF StartProbe
<1>2. /\ probe'.url = url /\ probe'.at = Top /\ probe'.deep = 0
      /\ probe'.pc = (IF walks THEN "walk" ELSE IF internal THEN "done" ELSE "head")
      /\ probe'.verdict = (IF internal /\ ~walks THEN Resolved(url.path) ELSE "none")
      /\ probe' = [pc |-> probe'.pc, url |-> url, at |-> Top, deep |-> 0, verdict |-> probe'.verdict]
  BY <1>1 DEF IdleProbe
<1>3. Classify(url) \in {"internal", "external"}
  BY <1>1 DEF Classify
<1>4. url.path \in Seq(STRING)
  BY Ids
<1>5. Resolved(url.path) \in {"ok", "dead", "unknown"}
  BY DEF Resolved, HitOrDead
<1>6. UNCHANGED <<tree, coming, media, variants, remote>>
  BY <1>1 DEF Site
<1>7. ProbeTypes'
  <2>1. probe' \in [pc : {"idle", "walk", "head", "get", "done"}, url : Links \cup {IdleProbe.url},
                  at : NodeIds \cup {Top, Nobody}, deep : Nat,
                  verdict : {"none", "ok", "dead", "unknown", "blocked", "transient"}]
    BY <1>2, <1>5
  <2> QED BY <1>6, <2>1 DEF ProbeInv, ProbeTypes
<1>8. Tidy'
  BY <1>6 DEF ProbeInv, Tidy
<1>9. walks => 0 < Len(Segments(url.path))
  <2>1. SUFFICES ASSUME walks PROVE 0 < Len(Segments(url.path))
    OBVIOUS
  <2>2. Len(url.path) > 1 /\ Len(url.path) \in Nat
    BY <1>4, <2>1, StartsOne DEF InTree
  <2>3. CASE url.path[1] = "blog"
    BY <2>2, <2>3 DEF Segments
  <2>4. CASE url.path[1] # "blog"
    <3>1. \A n \in 2 .. Len(url.path) : url.path[n] \in STRING
      BY <1>4, <2>2
    <3>2. Len(SubSeq(url.path, 2, Len(url.path))) = Len(url.path) - 2 + 1
      BY <3>1, <2>2, SubSeqProperties
    <3> QED BY <3>2, <2>2, <2>4 DEF Segments, Beyond
  <2> QED BY <2>3, <2>4
<1>10. AtWork'
  BY <1>2, <1>3, <1>9 DEF AtWork, Classify, InTree, Segments, Beyond, Starts, OkExact
<1>11. OnWay'
  <2>1. \A names : Reaches(names, 0, Top)'
    BY <1>6, WayStart DEF Reaches, Chain, Named
  <2> QED BY <1>2, <2>1 DEF OnWay
<1>12. Noted'
  BY <1>1, NoteNotes
<1>13. Heard'
  BY <1>2 DEF Heard, Classify
<1>14. DeadMeansDead'
  <2>1. SUFFICES ASSUME internal, ~walks
        PROVE  /\ Resolved(url.path) = "dead" => "missed" \in seen' \/ EditorFile(url.path)
               /\ Resolved(url.path) = "ok" => "got" \in seen' \/ NotServed(url.path)'
    BY <1>2, <1>3 DEF DeadMeansDead, EditorFile, NotServed
  <2>2. /\ Resolved(url.path) = "dead" => ~Served(url.path) \/ EditorFile(url.path)
        /\ Resolved(url.path) = "ok" => Served(url.path) \/ NotServed(url.path)
    BY <2>1, <1>4, ResolvedTellsServed DEF ProbeInv, ProbeTypes
  <2>3. Served(url.path)' <=> Served(url.path)
    BY <1>6 DEF Served, Found, Chain, Named
  <2>4. Works(url)' <=> Served(url.path)
    BY <2>1, <2>3 DEF Works, Classify
  <2>5. IF Works(url)' THEN "got" \in seen' ELSE "missed" \in seen'
    BY <1>1, <1>2 DEF Note, Works, Served, Classify
  <2>6. NotServed(url.path)' <=> NotServed(url.path)
    BY <1>6 DEF NotServed
  <2> QED BY <2>2, <2>4, <2>5, <2>6
<1> QED BY <1>7, <1>8, <1>10, <1>11, <1>12, <1>13, <1>14 DEF ProbeInv

LEMMA HeadSent == ASSUME ProbeInv, SendHead PROVE ProbeInv'
<1>1. UNCHANGED <<Site, remote>> /\ Note /\ probe.pc = "head"
  BY DEF SendHead
<1>2. UNCHANGED <<tree, coming, media, variants, remote>>
  BY <1>1 DEF Site
<1>3. \/ ClassOfAnswer(remote[1]) = "ok" /\ probe' = [probe EXCEPT !.pc = "done", !.verdict = "ok"]
      \/ probe' = [probe EXCEPT !.pc = "get"]
  BY DEF SendHead
<1>4. probe'.url = probe.url /\ probe'.pc \in {"done", "get"}
  BY <1>3 DEF ProbeInv, ProbeTypes
<1>5. Classify(probe.url) = "external"
  BY <1>1 DEF ProbeInv, AtWork
<1>6. ProbeTypes' /\ Tidy' /\ AtWork'
  <2>1. probe' \in [pc : {"idle", "walk", "head", "get", "done"}, url : Links \cup {IdleProbe.url},
                  at : NodeIds \cup {Top, Nobody}, deep : Nat,
                  verdict : {"none", "ok", "dead", "unknown", "blocked", "transient"}]
    BY <1>3 DEF ProbeInv, ProbeTypes
  <2> QED BY <2>1, <1>1, <1>2, <1>4, <1>5 DEF ProbeInv, ProbeTypes, Tidy, AtWork, Classify
<1>7. probe'.pc = "done" => probe'.verdict = "ok" /\ "got" \in seen'
  <2>1. SUFFICES ASSUME probe'.pc = "done" PROVE probe'.verdict = "ok" /\ "got" \in seen'
    OBVIOUS
  <2>2. ClassOfAnswer(remote[1]) = "ok" /\ probe'.verdict = "ok"
    BY <1>3, <2>1 DEF ProbeInv, ProbeTypes
  <2>3. Works(probe.url)
    BY <1>5, <2>2, AnswersTell DEF Works, ProbeInv, ProbeTypes
  <2>4. Works(probe.url)'
    BY <2>3, <1>1, <1>4, SameSite
  <2> QED BY <2>2, <2>4, <2>1, <1>1 DEF Note
<1> QED BY <1>1, <1>4, <1>6, <1>7, NoteNotes DEF ProbeInv, OnWay, Heard, DeadMeansDead

LEMMA GetSent == ASSUME ProbeInv, SendGet PROVE ProbeInv'
<1>1. /\ UNCHANGED <<Site, remote>> /\ Note /\ probe.pc = "get"
      /\ probe' = [probe EXCEPT !.pc = "done", !.verdict = ClassOfAnswer(remote[2])]
  BY DEF SendGet
<1>2. UNCHANGED <<tree, coming, media, variants, remote>>
  BY <1>1 DEF Site
<1>3. /\ probe'.url = probe.url /\ probe'.pc = "done"
      /\ probe'.verdict = ClassOfAnswer(remote[2])
  BY <1>1 DEF ProbeInv, ProbeTypes
<1>4. Classify(probe.url) = "external"
  BY <1>1 DEF ProbeInv, AtWork
<1>5. /\ ClassOfAnswer(remote[2]) = "ok" => Alive(remote[2])
      /\ ClassOfAnswer(remote[2]) = "dead" => ~Alive(remote[2])
      /\ ClassOfAnswer(remote[2]) \in {"ok", "dead", "blocked", "transient"}
  BY AnswersTell DEF ProbeInv, ProbeTypes
<1>6. ProbeTypes' /\ Tidy' /\ AtWork'
  <2>1. probe' \in [pc : {"idle", "walk", "head", "get", "done"}, url : Links \cup {IdleProbe.url},
                  at : NodeIds \cup {Top, Nobody}, deep : Nat,
                  verdict : {"none", "ok", "dead", "unknown", "blocked", "transient"}]
    BY <1>1, <1>5 DEF ProbeInv, ProbeTypes
  <2> QED BY <2>1, <1>1, <1>2, <1>3, <1>4 DEF ProbeInv, ProbeTypes, Tidy, AtWork, Classify
<1>7. IF Alive(remote[2]) THEN "got" \in seen' ELSE "missed" \in seen'
  <2>1. Works(probe.url)' <=> Alive(remote[2])
    BY <1>1, <1>3, <1>4, SameSite DEF Works
  <2> QED BY <2>1, <1>1, <1>3 DEF Note
<1> QED BY <1>1, <1>3, <1>5, <1>6, <1>7, NoteNotes DEF ProbeInv, OnWay, Heard, DeadMeansDead

LEMMA VerdictRecorded == ASSUME ProbeInv, Recorded PROVE ProbeInv'
<1>1. UNCHANGED <<tree, coming, media, variants, remote>> /\ probe' = IdleProbe
  BY DEF Recorded, Site
<1>2. probe'.pc = "idle"
  BY <1>1 DEF IdleProbe
<1>3. IdleProbe \in [pc : {"idle", "walk", "head", "get", "done"}, url : Links \cup {IdleProbe.url},
                  at : NodeIds \cup {Top, Nobody}, deep : Nat,
                  verdict : {"none", "ok", "dead", "unknown", "blocked", "transient"}]
  BY DEF IdleProbe
<1> QED BY <1>1, <1>2, <1>3
           DEF ProbeInv, ProbeTypes, Tidy, AtWork, Noted, OnWay, Heard, DeadMeansDead

\* Under a page that was deleted there is nothing.
LEMMA LostForGood ==
    ASSUME ProbeTypes, Tidy, NEW x \in NodeIds, tree[x] = Absent, NEW slug
    PROVE  Named(x, slug) = {}
BY Ids DEF Named, ProbeTypes, Tidy, Absent

\* The next name leads on, or the walk has ended as the site is now.
LEMMA Walking == ASSUME ProbeInv, Walk PROVE ProbeInv'
<1>1. PICK url, names, at, deep, hit, pc, verdict :
        /\ url = probe.url /\ names = Segments(url.path) /\ at = probe.at /\ deep = probe.deep
        /\ hit = First(Named(at, names[deep + 1]))
        /\ pc = IF hit = Nobody \/ deep + 1 = Len(names) THEN "done" ELSE "walk"
        /\ verdict = IF pc = "walk" THEN "none" ELSE HitOrDead(hit # Nobody)
  OBVIOUS
<1>2. probe.pc = "walk" /\ UNCHANGED <<Site, remote>> /\ Note
  BY DEF Walk
<1>3. UNCHANGED <<tree, coming, media, variants, remote>>
  BY <1>2 DEF Site
<1>4. /\ url \in Links /\ Classify(url) = "internal" /\ InTree(url.path)
      /\ url.path \notin OkExact /\ deep < Len(names) /\ deep \in Nat
  BY <1>1, <1>2 DEF ProbeInv, AtWork, ProbeTypes
<1>5. url.path \in Seq(STRING)
  BY <1>4, Ids
<1>6. Len(names) \in Nat
  <2>1. Len(url.path) \in Nat /\ \A n \in 2 .. Len(url.path) : url.path[n] \in STRING
    BY <1>5
  <2>2. Len(SubSeq(url.path, 2, Len(url.path))) \in Nat
    BY <2>1, SubSeqProperties
  <2> QED BY <1>1, <2>1, <2>2 DEF Segments, Beyond
<1>7. hit \in NodeIds \cup {Nobody}
  <2>1. Named(at, names[deep + 1]) \subseteq NodeIds
    BY DEF Named
  <2> QED BY <1>1, <2>1, FirstType
<1>8. /\ pc \in {"walk", "done"} /\ verdict \in {"none", "ok", "dead"} /\ deep + 1 \in Nat
      /\ pc = "walk" => hit # Nobody /\ deep + 1 # Len(names)
      /\ pc = "done" => /\ hit = Nobody \/ deep + 1 = Len(names)
                        /\ verdict = "ok" <=> hit # Nobody
                        /\ verdict = "dead" <=> hit = Nobody
  BY <1>1, <1>4 DEF HitOrDead
<1>9. probe' = [pc |-> pc, url |-> url, at |-> hit, deep |-> deep + 1, verdict |-> verdict]
  <2>1. probe' = [probe EXCEPT !.at = hit, !.deep = deep + 1, !.pc = pc, !.verdict = verdict]
    BY <1>1 DEF Walk
  <2>2. probe \in [pc : {"idle", "walk", "head", "get", "done"}, url : Links \cup {IdleProbe.url},
                  at : NodeIds \cup {Top, Nobody}, deep : Nat,
                  verdict : {"none", "ok", "dead", "unknown", "blocked", "transient"}]
    BY DEF ProbeInv, ProbeTypes
  <2> QED BY <2>1, <2>2, <1>1
<1>10. ProbeTypes' /\ Tidy'
  <2>1. probe' \in [pc : {"idle", "walk", "head", "get", "done"}, url : Links \cup {IdleProbe.url},
                  at : NodeIds \cup {Top, Nobody}, deep : Nat,
                  verdict : {"none", "ok", "dead", "unknown", "blocked", "transient"}]
    BY <1>4, <1>7, <1>8, <1>9
  <2> QED BY <1>3, <2>1 DEF ProbeInv, ProbeTypes, Tidy
<1>11. AtWork'
  <2>1. pc = "walk" => deep + 1 < Len(names)
    BY <1>4, <1>6, <1>8
  <2> QED BY <1>1, <1>4, <1>8, <1>9, <2>1
          DEF AtWork, Classify, InTree, Segments, Beyond, Starts, OkExact
<1>12. Noted'
  BY <1>2, NoteNotes
<1>13. Heard'
  BY <1>4, <1>9 DEF Heard, Classify
<1>14. ASSUME "muddled" \notin seen'
       PROVE  seen \subseteq seen' /\ (Reaches(names, deep, at) \/ Lost)
  <2>1. probe'.pc # "idle"
    BY <1>8, <1>9
  <2> QED BY <2>1, <1>1, <1>2, <1>14, NoteKeeps DEF ProbeInv, OnWay
<1>15. Lost => hit = Nobody
  <2>1. Lost => Named(at, names[deep + 1]) = {}
    BY <1>1, LostForGood DEF Lost, ProbeInv
  <2> QED BY <2>1, <1>1 DEF First
<1>16. \A x : x = hit /\ hit # Nobody /\ Reaches(names, deep, at) => Reaches(names, deep + 1, x)
  BY <1>1, <1>4, <1>7, OneMore
<1>17. OnWay'
  <2>1. SUFFICES ASSUME pc = "walk", "muddled" \notin seen'
        PROVE  Reaches(names, deep + 1, hit)'
    BY <1>1, <1>9 DEF OnWay, Segments, Beyond
  <2>2. Reaches(names, deep + 1, hit)
    BY <2>1, <1>8, <1>14, <1>15, <1>16
  <2> QED BY <2>2, <1>3 DEF Reaches, Chain, Named
<1>18. DeadMeansDead'
  <2>1. SUFFICES ASSUME pc = "done", "muddled" \notin seen'
        PROVE  /\ hit = Nobody => "missed" \in seen'
               /\ hit # Nobody => "got" \in seen' \/ NotServed(url.path)'
    BY <1>8, <1>9 DEF DeadMeansDead
  <2>2. /\ ~Found(names) => ~Served(url.path)
        /\ Found(names) => Served(url.path) \/ NotServed(url.path)
    BY <1>1, <1>4, <1>5, WalkTellsServed
  <2>3. IF Served(url.path) THEN "got" \in seen' ELSE "missed" \in seen'
    <3>1. Works(probe.url)' <=> Served(url.path)
      <4>1. probe'.url = probe.url
        BY <1>1, <1>9
      <4>2. Works(probe.url)' <=> Works(probe.url)
        BY <4>1, <1>2, SameSite
      <4>3. Works(probe.url) <=> Served(url.path)
        BY <1>1, <1>4 DEF Works
      <4> QED BY <4>2, <4>3
    <3>2. probe'.pc # "idle"
      BY <2>1, <1>9
    <3> QED BY <3>1, <3>2, <1>2 DEF Note
  <2>4. CASE hit = Nobody
    <3>1. CASE Reaches(names, deep, at)
      <4>1. ~Found(names)
        BY <3>1, <2>4, <1>1, <1>4, <1>6, DeadEnd
      <4> QED BY <4>1, <2>2, <2>3, <2>4
    <3>2. CASE Lost
      BY <3>2, <2>1, <2>4, <1>14 DEF Lost
    <3> QED BY <3>1, <3>2, <2>1, <1>14
  <2>5. CASE hit # Nobody
    <3>1. Reaches(names, Len(names), hit)
      BY <2>1, <2>5, <1>8, <1>14, <1>15, <1>16
    <3>2. Found(names)
      BY <3>1, <1>6, WayThrough
    <3>3. NotServed(url.path)' <=> NotServed(url.path)
      BY <1>3 DEF NotServed
    <3> QED BY <3>2, <3>3, <2>2, <2>3, <2>5
  <2> QED BY <2>4, <2>5
<1> QED BY <1>10, <1>11, <1>12, <1>13, <1>17, <1>18 DEF ProbeInv

\* No walk leads to what is not served, before a step and after it.
NoWayNoPage ==
    \A path \in Seq(STRING) :
        InTree(path) /\ path \notin OkExact /\ ~Found(Segments(path)) => ~Served(path)

LEMMA NoWayNoPageNow == NoWayNoPage
BY WalkTellsServed DEF NoWayNoPage

LEMMA NoWayNoPageThen == NoWayNoPage'
BY NoWayNoPageNow, PTL

\* What is named as before leads as before.
LEMMA WayRemains ==
    ASSUME NEW names, NEW d \in Nat, NEW w \in [1 .. d -> NodeIds], Chain(names, w),
           \A n \in 1 .. d : LET q == IF n = 1 THEN Top ELSE w[n-1]
                             IN  Named(q, names[n])' = Named(q, names[n])
    PROVE  Reaches(names, d, IF d = 0 THEN Top ELSE w[d])'
<1>1. \A n \in 1 .. d : w[n] = First(Named(IF n = 1 THEN Top ELSE w[n-1], names[n]))
  BY OnChain
<1>2. Chain(names, w)'
  BY <1>1 DEF Chain
<1> QED BY <1>2 DEF Reaches

LEMMA Creating ==
    ASSUME ProbeInv, NEW i \in NodeIds, NEW p \in NodeIds \cup {Top}, NEW slug \in Slugs,
           CreateNode(i, p, slug)
    PROVE  ProbeInv'
<1> DEFINE Row == [parent : NodeIds \cup {Top, -1}, name : Slugs \cup {"blog", "none"}]
           new == [parent |-> p, name |-> slug]
<1>1. /\ tree' = [tree EXCEPT ![i] = new] /\ coming' = coming \ {i} /\ i \in coming
      /\ p = Top \/ (p \in NodeIds /\ tree[p] # Absent /\ Named(p, slug) = {})
      /\ UNCHANGED <<media, variants, remote, probe>> /\ Note
  BY Ids DEF CreateNode, Change, Free
<1>2. tree \in [NodeIds -> Row] /\ tree[i] = Absent /\ new \in Row /\ new # Absent /\ new.parent = p
  BY <1>1, Ids DEF ProbeInv, ProbeTypes, Tidy, Absent, Top
<1>3. /\ tree' \in [NodeIds -> Row] /\ tree'[i] = new
      /\ \A j \in NodeIds \ {i} : tree'[j] = tree[j]
  BY <1>1, <1>2
<1>4. ProbeTypes'
  BY <1>1, <1>3 DEF ProbeInv, ProbeTypes
<1>5. Tidy'
  <2>1. \A j \in coming' : tree'[j] = Absent
    BY <1>1, <1>3 DEF ProbeInv, ProbeTypes, Tidy
  <2>2. ASSUME NEW j \in NodeIds, tree'[j].parent \in NodeIds
        PROVE  /\ tree'[j].parent # j /\ tree'[tree'[j].parent] # Absent
               /\ \A k \in NodeIds : tree'[k] = tree'[j] => k = j
    <3>1. CASE j = i
      <4>1. p \in NodeIds /\ tree[p] # Absent /\ Named(p, slug) = {} /\ p # i
        BY <3>1, <2>2, <1>1, <1>2, <1>3, Ids
      <4>2. \A k \in NodeIds \ {i} : tree'[k] # new
        BY <4>1, <1>3 DEF Named
      <4> QED BY <3>1, <4>1, <4>2, <1>2, <1>3
    <3>2. CASE j # i
      <4>1. /\ tree[j].parent \in NodeIds /\ tree'[j] = tree[j] /\ tree[j].parent # j
            /\ tree[tree[j].parent] # Absent /\ \A k \in NodeIds : tree[k] = tree[j] => k = j
        BY <3>2, <2>2, <1>3 DEF ProbeInv, Tidy
      <4>2. tree'[tree[j].parent] # Absent
        BY <4>1, <1>2, <1>3
      <4>3. tree'[j] # new
        <5>1. SUFFICES ASSUME tree[j] = new PROVE FALSE
          BY <4>1
        <5>2. j \in Named(p, slug) /\ p \in NodeIds
          BY <5>1, <4>1, <1>2 DEF Named
        <5> QED BY <5>2, <1>1, Ids
      <4> QED BY <4>1, <4>2, <4>3, <1>3
    <3> QED BY <3>1, <3>2
  <2> QED BY <2>1, <2>2 DEF Tidy
<1>6. AtWork'
  BY <1>1 DEF ProbeInv, AtWork
<1>7. OnWay'
  <2>1. SUFFICES ASSUME probe.pc = "walk", "muddled" \notin seen', ~Twins'
        PROVE  Reaches(Segments(probe.url.path), probe.deep, probe.at)' \/ Lost'
    BY <1>1 DEF OnWay
  <2>2. seen \subseteq seen' /\ "muddled" \notin seen /\ ~Twins
    BY <2>1, <1>1, NoteKeeps
  <2>3. Reaches(Segments(probe.url.path), probe.deep, probe.at) \/ Lost
    BY <2>1, <2>2 DEF ProbeInv, OnWay
  <2>4. CASE Lost
    BY <2>4, <2>2, <1>1, <1>3 DEF Lost
  <2>5. CASE Reaches(Segments(probe.url.path), probe.deep, probe.at)
    <3>1. PICK names, d, x : names = Segments(probe.url.path) /\ d = probe.deep /\ x = probe.at
      OBVIOUS
    <3>2. d \in Nat
      BY <3>1 DEF ProbeInv, ProbeTypes
    <3>3. PICK w \in [1 .. d -> NodeIds] : Chain(names, w) /\ x = IF d = 0 THEN Top ELSE w[d]
      BY <2>5, <3>1 DEF Reaches
    <3>4. ASSUME NEW n \in 1 .. d, NEW q, q = IF n = 1 THEN Top ELSE w[n-1]
          PROVE  Named(q, names[n])' = Named(q, names[n])
      <4>1. q \in NodeIds \cup {Top} /\ w[n] \in Named(q, names[n]) /\ w[n] \in NodeIds
        BY <3>2, <3>3, <3>4, OnChain
      <4>2. SUFFICES ASSUME [parent |-> q, name |-> names[n]] = new PROVE FALSE
        <5>1. SUFFICES ASSUME [parent |-> q, name |-> names[n]] # new
              PROVE  Named(q, names[n])' = Named(q, names[n])
          OBVIOUS
        <5>2. [parent |-> q, name |-> names[n]] # Absent
          BY <4>1, Ids DEF Absent, Top
        <5>3. \A j \in NodeIds : tree'[j] = [parent |-> q, name |-> names[n]]
                                 <=> tree[j] = [parent |-> q, name |-> names[n]]
          BY <5>1, <5>2, <1>2, <1>3
        <5> QED BY <5>3 DEF Named
      <4>3. q = p /\ names[n] = slug
        BY <4>2
      <4>4. p = Top /\ tree[w[n]] = new
        BY <4>1, <4>2, <4>3, <1>1 DEF Named
      <4>5. w[n] # i
        BY <4>4, <1>2
      <4> QED BY <4>1, <4>4, <4>5, <1>2, <1>3, <2>1 DEF Twins
    <3>5. Reaches(names, d, x)'
      BY <3>2, <3>3, <3>4, WayRemains
    <3> QED BY <3>1, <3>5, <1>1
  <2> QED BY <2>3, <2>4, <2>5
<1> QED BY <1>1, <1>4, <1>5, <1>6, <1>7, StaysRight, NoteNotes DEF ProbeInv

LEMMA Deleting ==
    ASSUME ProbeInv, NEW i \in NodeIds, DeleteNode(i)
    PROVE  ProbeInv'
<1> DEFINE Row == [parent : NodeIds \cup {Top, -1}, name : Slugs \cup {"blog", "none"}]
<1>1. /\ tree' = [j \in NodeIds |-> IF j = i THEN Absent
                                    ELSE IF tree[j].parent = i THEN [tree[j] EXCEPT !.parent = Top]
                                    ELSE tree[j]]
      /\ tree[i] # Absent /\ UNCHANGED <<coming, media, variants, remote, probe>> /\ Note
  BY DEF DeleteNode, Change
<1>2. tree \in [NodeIds -> Row] /\ tree' \in [NodeIds -> Row]
  <2>1. tree \in [NodeIds -> Row] /\ Absent \in Row
    BY DEF ProbeInv, ProbeTypes, Absent
  <2>2. \A r \in Row : [r EXCEPT !.parent = Top] \in Row
    OBVIOUS
  <2> HIDE DEF Row
  <2> QED BY <1>1, <2>1, <2>2
<1>3. /\ tree'[i] = Absent
      /\ \A j \in NodeIds \ {i} : /\ tree[j].parent = i => tree'[j] = [tree[j] EXCEPT !.parent = Top]
                                 /\ tree[j].parent # i => tree'[j] = tree[j]
  BY <1>1
<1>4. ProbeTypes'
  BY <1>1, <1>2 DEF ProbeInv, ProbeTypes
<1>5. \A j \in NodeIds \ {i} : tree[j].parent = i => tree'[j].parent = Top /\ tree'[j] # Absent
  <2>1. \A r \in Row : [r EXCEPT !.parent = Top].parent = Top
    OBVIOUS
  <2>2. Absent.parent # Top
    BY DEF Absent, Top
  <2>3. ASSUME NEW j \in NodeIds \ {i}, tree[j].parent = i
        PROVE  tree'[j].parent = Top /\ tree'[j] # Absent
    <3> HIDE DEF Row
    <3>1. tree[j] \in Row
      BY <2>3, <1>2
    <3>2. tree'[j] = [tree[j] EXCEPT !.parent = Top]
      BY <2>3, <1>1
    <3>3. tree'[j].parent = Top
      BY <2>1, <3>1, <3>2
    <3> QED BY <3>3, <2>2
  <2> QED BY <2>3
<1>6. Tidy'
  <2>1. ASSUME NEW j \in coming' PROVE tree'[j] = Absent
    <3>1. tree[j] = Absent /\ j \in NodeIds /\ j # i
      BY <1>1 DEF ProbeInv, ProbeTypes, Tidy
    <3>2. tree[j].parent # i
      BY <3>1, Ids DEF Absent
    <3> QED BY <3>1, <3>2, <1>3
  <2>2. ASSUME NEW j \in NodeIds, tree'[j].parent \in NodeIds
        PROVE  /\ tree'[j].parent # j /\ tree'[tree'[j].parent] # Absent
               /\ \A k \in NodeIds : tree'[k] = tree'[j] => k = j
    <3>1. \A k \in NodeIds : tree'[k].parent \in NodeIds =>
             tree[k].parent \in NodeIds \ {i} /\ tree'[k] = tree[k]
      <4>1. Absent.parent \notin NodeIds /\ Top \notin NodeIds
        BY Ids DEF Absent
      <4> QED BY <4>1, <1>3, <1>5
    <3>2. /\ tree[j].parent # j /\ tree[tree[j].parent] # Absent
          /\ \A k \in NodeIds : tree[k] = tree[j] => k = j
      BY <3>1, <2>2 DEF ProbeInv, Tidy
    <3>3. tree'[tree[j].parent] # Absent
      BY <3>1, <3>2, <2>2, <1>3, <1>5
    <3> QED BY <3>1, <3>2, <3>3, <2>2
  <2> QED BY <2>1, <2>2 DEF Tidy
<1>7. AtWork'
  BY <1>1 DEF ProbeInv, AtWork
<1>8. OnWay'
  <2>1. SUFFICES ASSUME probe.pc = "walk", "muddled" \notin seen', ~Twins'
        PROVE  Reaches(Segments(probe.url.path), probe.deep, probe.at)' \/ Lost'
    BY <1>1 DEF OnWay
  <2>2. seen \subseteq seen' /\ "muddled" \notin seen /\ ~Twins /\ ~Promoted
    BY <2>1, <1>1, NoteKeeps
  <2>3. Reaches(Segments(probe.url.path), probe.deep, probe.at) \/ Lost
    BY <2>1, <2>2 DEF ProbeInv, OnWay
  <2>4. \A j \in NodeIds : tree[j].parent # i
    <3>1. tree[i].parent # i
      BY DEF ProbeInv, Tidy
    <3> QED BY <3>1, <2>2, <1>5 DEF Promoted
  <2>5. \A q \in NodeIds \cup {Top} : \A slug : Named(q, slug)' = Named(q, slug) \ {i}
    <3>1. SUFFICES ASSUME NEW q \in NodeIds \cup {Top}, NEW slug
          PROVE  Named(q, slug)' = Named(q, slug) \ {i}
      OBVIOUS
    <3>2. [parent |-> q, name |-> slug] # Absent
      BY Ids DEF Absent, Top
    <3> QED BY <3>2, <2>4, <1>3 DEF Named
  <2>6. CASE Lost
    <3>1. probe.at # i
      BY <2>6, <1>1 DEF Lost
    <3>2. tree'[probe.at] = Absent
      BY <2>6, <3>1, <2>4, <1>3 DEF Lost
    <3> QED BY <2>6, <3>2, <2>2, <1>1 DEF Lost
  <2>7. CASE Reaches(Segments(probe.url.path), probe.deep, probe.at)
    <3>1. PICK names, d, x : names = Segments(probe.url.path) /\ d = probe.deep /\ x = probe.at
      OBVIOUS
    <3>2. d \in Nat /\ d < Len(names)
      BY <2>1, <3>1 DEF ProbeInv, ProbeTypes, AtWork
    <3>3. PICK w \in [1 .. d -> NodeIds] : Chain(names, w) /\ x = IF d = 0 THEN Top ELSE w[d]
      BY <2>7, <3>1 DEF Reaches
    <3>4. ASSUME NEW n \in 1 .. d, NEW q, q = IF n = 1 THEN Top ELSE w[n-1]
          PROVE  /\ q \in NodeIds \cup {Top} /\ Named(q, names[n]) = {w[n]}
                 /\ n > 1 => q # i
      <4>1. q \in NodeIds \cup {Top} /\ w[n] \in Named(q, names[n])
        BY <3>2, <3>3, <3>4, OnChain
      <4>2. Named(q, names[n]) = {w[n]}
        BY <4>1, <2>2, OneOfAName DEF ProbeInv
      <4>3. q # i
        BY <4>1, <2>4 DEF Named
      <4> QED BY <4>1, <4>2, <4>3
    <3>5. \A n \in 1 .. d : w[n] # i \/ n = d
      <4>1. SUFFICES ASSUME NEW n \in 1 .. d, n # d PROVE w[n] # i
        OBVIOUS
      <4>2. n + 1 \in 1 .. d /\ n + 1 > 1 /\ n + 1 # 1 /\ (n + 1) - 1 = n
        BY <3>2, <4>1
      <4>3. w[n] = IF n + 1 = 1 THEN Top ELSE w[(n + 1) - 1]
        BY <4>2
      <4> QED BY <4>2, <4>3, <3>4
    <3>6. CASE \A n \in 1 .. d : w[n] # i
      <4>1. ASSUME NEW n \in 1 .. d, NEW q, q = IF n = 1 THEN Top ELSE w[n-1]
            PROVE  Named(q, names[n])' = Named(q, names[n])
        <5>1. Named(q, names[n]) = {w[n]} /\ Named(q, names[n])' = Named(q, names[n]) \ {i}
          BY <4>1, <3>4, <2>5
        <5> QED BY <5>1, <3>6
      <4>2. Reaches(names, d, x)'
        BY <3>2, <3>3, <4>1, WayRemains
      <4> QED BY <3>1, <4>2, <1>1
    <3>7. CASE d > 0 /\ w[d] = i
      <4>1. ASSUME NEW v \in [1 .. Len(names) -> NodeIds], Chain(names, v)'
            PROVE  FALSE
        <5>1. \A n \in DOMAIN v :
                v[n] = First(Named(IF n = 1 THEN Top ELSE v[n-1], names[n])')
          BY <4>1 DEF Chain
        <5>2. \A n \in 1 .. d : n \in DOMAIN v
          BY <3>2
        <5>3. ASSUME NEW n \in 1 .. d, Agree(w, v, n - 1)
              PROVE  v[n] = First({w[n]} \ {i})
          <6>1. PICK q : q = IF n = 1 THEN Top ELSE w[n-1]
            OBVIOUS
          <6>2. q = IF n = 1 THEN Top ELSE v[n-1]
            BY <6>1, <5>3 DEF Agree
          <6>3. Named(q, names[n])' = {w[n]} \ {i}
            <7>1. q \in NodeIds \cup {Top} /\ Named(q, names[n]) = {w[n]}
              BY <6>1, <3>4
            <7> QED BY <7>1, <2>5
          <6>4. v[n] = First(Named(q, names[n])')
            BY <5>1, <5>2, <6>2
          <6> QED BY <6>3, <6>4
        <5>4. ASSUME NEW n \in 1 .. d - 1, Agree(w, v, n - 1) PROVE w[n] = v[n]
          <6>1. n \in 1 .. d /\ w[n] # i /\ w[n] \in NodeIds
            BY <3>2, <3>5
          <6>2. {w[n]} \ {i} = {w[n]}
            BY <6>1
          <6> QED BY <6>1, <6>2, <5>3, <5>4, FirstOfOne
        <5>5. Agree(w, v, d - 1)
          <6>1. GoAlike(w, v, d - 1) /\ d - 1 \in Nat
            BY <5>4, <3>2, <3>7 DEF GoAlike
          <6> QED BY <6>1, SameWalk
        <5>6. v[d] = First({}) /\ v[d] \in NodeIds
          <6>1. d \in 1 .. d /\ {w[d]} \ {i} = {} /\ d \in DOMAIN v
            BY <3>2, <3>7, <5>2
          <6> QED BY <6>1, <5>3, <5>5
        <5> QED BY <5>6, Ids DEF First
      <4>2. ~Found(names)'
        BY <4>1 DEF Found
      <4>3. ~Served(probe.url.path)'
        <5>1. /\ probe.url \in Links /\ InTree(probe.url.path)
              /\ probe.url.path \notin OkExact
          BY <2>1 DEF ProbeInv, AtWork
        <5>2. probe.url.path \in Seq(STRING)
          BY <5>1, Ids
        <5>3. ~Found(Segments(probe.url.path))'
          BY <4>2, <3>1, <1>1
        <5>4. PICK path : path = probe.url.path
          OBVIOUS
        <5>5. path = probe'.url.path
          BY <5>4, <1>1
        <5>6. path \in Seq(STRING) /\ InTree(path) /\ path \notin OkExact /\ ~Found(Segments(path))'
          BY <5>1, <5>2, <5>3, <5>4, <5>5
        <5>7. ~Served(path)'
          BY <5>6, NoWayNoPageThen DEF NoWayNoPage
        <5> QED BY <5>4, <5>5, <5>7
      <4>4. "missed" \in seen'
        <5>1. ~Works(probe.url)' /\ probe'.pc # "idle"
          BY <4>3, <2>1, <1>1 DEF Works, ProbeInv, AtWork, Classify
        <5> QED BY <5>1, <1>1 DEF Note
      <4>5. probe.at = i /\ i \notin coming
        <5>1. probe.at = w[d]
          BY <3>1, <3>2, <3>3, <3>7
        <5> QED BY <5>1, <3>7, <1>1 DEF ProbeInv, Tidy
      <4> QED BY <4>4, <4>5, <1>1, <1>3 DEF Lost
    <3> QED BY <3>2, <3>5, <3>6, <3>7
  <2> QED BY <2>3, <2>6, <2>7
<1> QED BY <1>1, <1>4, <1>6, <1>7, <1>8, StaysRight, NoteNotes DEF ProbeInv

THEOREM ProbeAlwaysHolds == ProbeSpec => []ProbeInv
<1>1. ProbeInv /\ [ProbeNext]_probeVars => ProbeInv'
  <2> SUFFICES ASSUME ProbeInv, [ProbeNext]_probeVars PROVE ProbeInv'
    OBVIOUS
  <2>1. CASE UNCHANGED probeVars
    <3>1. UNCHANGED <<tree, coming, media, variants, remote, probe, seen>>
      BY <2>1 DEF probeVars
    <3>2. Tidy' /\ AtWork' /\ ProbeTypes' /\ (OnWay' <=> OnWay)
      BY <3>1 DEF ProbeInv, Tidy, AtWork, ProbeTypes, OnWay, Reaches, Chain, Named, Lost, Twins
    <3>3. Noted' /\ Heard' /\ DeadMeansDead'
      BY <3>1, SameSite DEF ProbeInv, Noted, Heard, DeadMeansDead, NotServed, EditorFile, Site
    <3> QED BY <3>2, <3>3 DEF ProbeInv
  <2>2. CASE ProbeNext
    BY <2>2, Starting, Walking, HeadSent, GetSent, VerdictRecorded, Creating, Deleting,
       ItemsChange, RemotesChange DEF ProbeNext
  <2> QED BY <2>1, <2>2
<1> QED BY ProbeStarts, <1>1, PTL DEF ProbeSpec

\* A verdict is right about a moment of the check, or the tree was muddled
\* meanwhile, for any links, pages, items and edits.
THEOREM DeadIsDead == ProbeSpec => []DeadMeansDead
<1>1. ProbeInv => DeadMeansDead
  BY DEF ProbeInv
<1> QED BY <1>1, ProbeAlwaysHolds, PTL

-----------------------------------------------------------------------------

(***************************************************************************)
(* The snapshots.  A file is torn for a fault: what the daily run leaves   *)
(* torn costs one each, and the backfill's run works at a file of a day    *)
(* that a fault has restarted, or of the first.  So twice as many files as *)
(* faults are in doubt, and the others, of those that are kept, are whole. *)
(***************************************************************************)
TornByDaily ==
    {d \in Dated : /\ snapshots[d].by = "daily" /\ ~snapshots[d].whole
                   /\ ~(AtStep("daily", "copy") /\ run["daily"].dest = d)}

\* Left torn by the backfill's run, or at its mercy.
AtRisk ==
    {d \in Dated : snapshots[d].by = "backfill" /\ ~snapshots[d].whole}
    \cup ({run["backfill"].dest} \ {0})
    \cup (IF "backfill" \in starting THEN {date} ELSE {})

\* Of the first day the backfill's run needs no restart.
Doubt == AtRisk \ {1}

Budget == Cardinality(TornByDaily) <= faults /\ Cardinality(Doubt) <= faults

BackupTypes ==
    /\ date \in Nat \ {0} /\ faults \in Nat /\ faults <= MaxFaults
    /\ Dated \subseteq 1 .. date /\ starting \subseteq Runners
    /\ snapshots \in [Dated -> [by : Runners, whole : BOOLEAN]]
    /\ run \in [Runners -> [step : {"rest", "remove", "vacuum", "copy", "prune"}, dest : Nat]]
    /\ \A r \in Runners : run[r].dest <= date /\ (run[r].dest = 0 <=> run[r].step = "rest")

\* A daily run that is past midnight is the only one to have begun since the
\* restart before it; no run begins twice in a day but for a restart.
OnceADay ==
    /\ run["daily"].dest \notin {0, date} =>
         date \notin Dated /\ run["backfill"].dest # date /\ "backfill" \notin starting
    /\ run["daily"].dest = date => "daily" \notin starting

\* Whole, and only a fault could change that.
Safe(d) ==
    /\ d \in Whole /\ run["backfill"].dest # d
    /\ run["daily"].dest = d => AtStep("daily", "prune")
    /\ d = date => starting = {}

Reserve ==
    kept # {} => Settled # {} \/ (faults = MaxFaults /\ \E d \in Dated : Safe(d))

BackupInv == BackupTypes /\ OnceADay /\ Budget /\ Reserve

LEMMA Shrinks ==
    ASSUME NEW S, NEW T, IsFiniteSet(S), T \subseteq S
    PROVE  Cardinality(T) <= Cardinality(S)
BY FS_Subset

LEMMA GrowsByOne ==
    ASSUME NEW S, NEW T, NEW x, IsFiniteSet(S), T \subseteq S \cup {x}
    PROVE  Cardinality(T) <= Cardinality(S) + 1
<1>1. IsFiniteSet(S \cup {x}) /\ Cardinality(S \cup {x}) <= Cardinality(S) + 1
  <2>1. Cardinality(S) \in Nat
    BY FS_CardinalityType
  <2>2. Cardinality(S \cup {x}) = IF x \in S THEN Cardinality(S) ELSE Cardinality(S) + 1
    BY FS_AddElement
  <2>3. IsFiniteSet(S \cup {x})
    BY FS_AddElement
  <2> QED BY <2>1, <2>2, <2>3
<1>2. IsFiniteSet(T) /\ Cardinality(T) <= Cardinality(S \cup {x})
  BY <1>1, FS_Subset
<1>3. Cardinality(S) \in Nat /\ Cardinality(T) \in Nat /\ Cardinality(S \cup {x}) \in Nat
  BY <1>1, <1>2, FS_CardinalityType
<1> QED BY <1>1, <1>2, <1>3

LEMMA DoubtFinite ==
    ASSUME BackupTypes
    PROVE  /\ IsFiniteSet(TornByDaily) /\ IsFiniteSet(Doubt)
           /\ Cardinality(TornByDaily) \in Nat /\ Cardinality(Doubt) \in Nat
<1>1. IsFiniteSet(0 .. date)
  <2>1. 0 \in Int /\ date \in Int
    BY DEF BackupTypes
  <2> QED BY <2>1, FS_Interval
<1>2. TornByDaily \subseteq 0 .. date /\ Doubt \subseteq 0 .. date
  <2>1. date \in 0 .. date /\ Dated \subseteq 0 .. date
    BY DEF BackupTypes
  <2>2. run["backfill"].dest \in 0 .. date
    BY DEF BackupTypes, Runners
  <2> QED BY <2>1, <2>2 DEF TornByDaily, Doubt, AtRisk
<1>3. IsFiniteSet(TornByDaily) /\ IsFiniteSet(Doubt)
  BY <1>1, <1>2, FS_Subset
<1> QED BY <1>3, FS_CardinalityType

\* Nothing new is in doubt, or for a fault one file of each run is.
LEMMA WithinBudget ==
    ASSUME BackupTypes, Budget,
           \/ TornByDaily' \subseteq TornByDaily /\ Doubt' \subseteq Doubt /\ faults' = faults
           \/ /\ \E d : TornByDaily' \subseteq TornByDaily \cup {d}
              /\ \E d : Doubt' \subseteq Doubt \cup {d}
              /\ faults' = faults + 1
    PROVE  Budget'
<1>1. CASE TornByDaily' \subseteq TornByDaily /\ Doubt' \subseteq Doubt /\ faults' = faults
  <2>1. Cardinality(TornByDaily') <= Cardinality(TornByDaily) /\ Cardinality(Doubt') <= Cardinality(Doubt)
    BY <1>1, DoubtFinite, Shrinks
  <2>2. IsFiniteSet(TornByDaily') /\ IsFiniteSet(Doubt')
    BY <1>1, DoubtFinite, FS_Subset
  <2>3. Cardinality(TornByDaily') \in Nat /\ Cardinality(Doubt') \in Nat
    BY <2>2, FS_CardinalityType
  <2> QED BY <1>1, <2>1, <2>3, DoubtFinite DEF Budget, BackupTypes
<1>2. CASE /\ \E d : TornByDaily' \subseteq TornByDaily \cup {d}
           /\ \E d : Doubt' \subseteq Doubt \cup {d}
           /\ faults' = faults + 1
  <2>1. Cardinality(TornByDaily') <= Cardinality(TornByDaily) + 1
    BY <1>2, DoubtFinite, GrowsByOne
  <2>2. Cardinality(Doubt') <= Cardinality(Doubt) + 1
    BY <1>2, DoubtFinite, GrowsByOne
  <2>3. IsFiniteSet(TornByDaily') /\ IsFiniteSet(Doubt')
    BY <1>2, DoubtFinite, FS_Subset, FS_AddElement
  <2>4. Cardinality(TornByDaily') \in Nat /\ Cardinality(Doubt') \in Nat
    BY <2>3, FS_CardinalityType
  <2> QED BY <1>2, <2>1, <2>2, <2>4, DoubtFinite DEF Budget, BackupTypes
<1> QED BY <1>1, <1>2

\* Writing or removing one file.
LEMMA FileChange ==
    ASSUME BackupTypes, NEW d \in 1 .. date
    PROVE  /\ \A f \in [by : Runners, whole : BOOLEAN] :
                snapshots' = Put(d, f) =>
                  /\ Dated' = Dated \cup {d} /\ snapshots'[d] = f
                  /\ \A e \in Dated : e # d => snapshots'[e] = snapshots[e]
                  /\ snapshots' \in [Dated' -> [by : Runners, whole : BOOLEAN]]
           /\ snapshots' = Without({d}) =>
                  /\ Dated' = Dated \ {d}
                  /\ \A e \in Dated' : snapshots'[e] = snapshots[e]
                  /\ snapshots' \in [Dated' -> [by : Runners, whole : BOOLEAN]]
BY DEF Put, Without, Dated, BackupTypes

\* A run moves on.
LEMMA RunChange ==
    ASSUME BackupTypes, NEW r \in Runners
    PROVE  /\ \A s \in {"remove", "vacuum", "copy", "prune"} : To(r, s) =>
                /\ run'[r].step = s /\ run'[r].dest = run[r].dest
                /\ \A t \in Runners : t # r => run'[t] = run[t]
                /\ run' \in [Runners -> [step : {"rest", "remove", "vacuum", "copy", "prune"}, dest : Nat]]
           /\ Rests(r) =>
                /\ run'[r].step = "rest" /\ run'[r].dest = 0
                /\ \A t \in Runners : t # r => run'[t] = run[t]
                /\ run' \in [Runners -> [step : {"rest", "remove", "vacuum", "copy", "prune"}, dest : Nat]]
<1> DEFINE Run == [step : {"rest", "remove", "vacuum", "copy", "prune"}, dest : Nat]
<1>1. run \in [Runners -> Run]
  BY DEF BackupTypes
<1>2. ASSUME NEW s \in {"remove", "vacuum", "copy", "prune"}, To(r, s)
      PROVE  /\ run'[r].step = s /\ run'[r].dest = run[r].dest
             /\ \A t \in Runners : t # r => run'[t] = run[t]
             /\ run' \in [Runners -> Run]
  <2>1. PICK old, new : old = run[r] /\ new = [old EXCEPT !.step = s]
    OBVIOUS
  <2>2. old \in Run
    BY <1>1, <2>1
  <2>3. new \in Run /\ new.step = s /\ new.dest = old.dest
    BY <2>1, <2>2
  <2>4. run' = [run EXCEPT ![r] = new]
    BY <1>2, <2>1 DEF To
  <2> QED BY <1>1, <2>1, <2>3, <2>4
<1>3. ASSUME Rests(r)
      PROVE  /\ run'[r].step = "rest" /\ run'[r].dest = 0
             /\ \A t \in Runners : t # r => run'[t] = run[t]
             /\ run' \in [Runners -> Run]
  <2>1. PICK new : new = Resting
    OBVIOUS
  <2>2. new \in Run /\ new.step = "rest" /\ new.dest = 0
    BY <2>1 DEF Resting
  <2>3. run' = [run EXCEPT ![r] = new]
    BY <1>3, <2>1 DEF Rests
  <2> QED BY <1>1, <2>2, <2>3
<1> QED BY <1>2, <1>3

\* What is settled stays so; without faults to come, so does what is safe.
Steady ==
    /\ Settled \subseteq Settled'
    /\ faults = MaxFaults => faults' = faults /\ \A d \in Dated : Safe(d) => d \in Dated' /\ Safe(d)'

LEMMA SteadyReserve ==
    ASSUME Reserve, Steady, kept' = kept \cup Settled'
    PROVE  Reserve'
BY DEF Reserve, Steady

\* No new doubt: the step costs nothing.
NoDoubt == TornByDaily' \subseteq TornByDaily /\ Doubt' \subseteq Doubt /\ faults' = faults

LEMMA StartStep ==
    ASSUME BackupTypes, OnceADay, NEW r \in Runners, StartBackup(r)
    PROVE  BackupTypes' /\ OnceADay' /\ NoDoubt /\ Steady
<1>1. /\ AtStep(r, "rest") /\ r \in starting /\ starting' = starting \ {r}
      /\ UNCHANGED <<date, snapshots, faults>>
  BY DEF StartBackup
<1>2. /\ run'[r].dest = date /\ run'[r].step \in {"remove", "vacuum"}
      /\ \A t \in Runners : t # r => run'[t] = run[t]
      /\ run' \in [Runners -> [step : {"rest", "remove", "vacuum", "copy", "prune"}, dest : Nat]]
  BY DEF StartBackup, BackupTypes
<1>3. run[r].dest = 0
  BY <1>1 DEF BackupTypes, AtStep
<1>4. BackupTypes'
  BY <1>1, <1>2 DEF BackupTypes, Dated
<1>5. OnceADay'
  BY <1>1, <1>2 DEF OnceADay, BackupTypes, Runners, Dated
<1>6. TornByDaily' \subseteq TornByDaily
  BY <1>1, <1>2, <1>3 DEF TornByDaily, Dated, AtStep, Runners
<1>7. Doubt' \subseteq Doubt
  <2>1. CASE r = "daily"
    BY <2>1, <1>1, <1>2 DEF Doubt, AtRisk, Dated, Runners
  <2>2. CASE r = "backfill"
    BY <2>2, <1>1, <1>2 DEF Doubt, AtRisk, Dated
  <2> QED BY <2>1, <2>2 DEF Runners
<1>8. Settled \subseteq Settled'
  BY <1>1, <1>2 DEF Settled, Whole, Dated
<1>9. ASSUME NEW d \in Dated, Safe(d) PROVE d \in Dated' /\ Safe(d)'
  BY <1>1, <1>2, <1>9 DEF Safe, Whole, Dated, AtStep, Runners
<1> QED BY <1>1, <1>4, <1>5, <1>6, <1>7, <1>8, <1>9 DEF NoDoubt, Steady

\* A run is at a file of its own day.
LEMMA AtFile ==
    ASSUME BackupTypes, NEW r \in Runners, run[r].step # "rest"
    PROVE  run[r].dest \in 1 .. date
BY DEF BackupTypes

LEMMA RemoveStep ==
    ASSUME BackupTypes, OnceADay, NEW r \in Runners, RemoveStale(r)
    PROVE  BackupTypes' /\ OnceADay' /\ NoDoubt /\ Steady
<1>1. /\ AtStep(r, "remove") /\ UNCHANGED <<date, starting, faults>>
      /\ run[r].dest \in 1 .. date
  BY AtFile DEF RemoveStale, AtStep
<1>2. /\ Dated' = Dated \ {run[r].dest} /\ \A e \in Dated' : snapshots'[e] = snapshots[e]
      /\ snapshots' \in [Dated' -> [by : Runners, whole : BOOLEAN]]
  <2>1. CASE run[r].dest \in Dated
    BY <2>1, <1>1, FileChange DEF RemoveStale
  <2>2. CASE run[r].dest \notin Dated
    BY <2>2 DEF RemoveStale, BackupTypes, Dated
  <2> QED BY <2>1, <2>2
<1>3. /\ run'[r].dest \in {0, run[r].dest} /\ run'[r].step \in {"vacuum", "rest"}
      /\ run'[r].dest = 0 <=> run'[r].step = "rest"
      /\ \A t \in Runners : t # r => run'[t] = run[t]
      /\ run' \in [Runners -> [step : {"rest", "remove", "vacuum", "copy", "prune"}, dest : Nat]]
  BY <1>1, RunChange DEF RemoveStale
<1>4. BackupTypes'
  <2>1. \A t \in Runners : run'[t].dest <= date /\ (run'[t].dest = 0 <=> run'[t].step = "rest")
    BY <1>1, <1>3 DEF BackupTypes
  <2>2. Dated' \subseteq 1 .. date
    BY <1>2 DEF BackupTypes
  <2> QED BY <1>1, <1>2, <1>3, <2>1, <2>2 DEF BackupTypes
<1>5. OnceADay'
  BY <1>1, <1>2, <1>3 DEF OnceADay, BackupTypes, Runners
<1>6. TornByDaily' \subseteq TornByDaily
  BY <1>1, <1>2, <1>3 DEF TornByDaily, AtStep, Runners
<1>7. Doubt' \subseteq Doubt
  BY <1>1, <1>2, <1>3 DEF Doubt, AtRisk, Runners
<1>8. Settled \subseteq Settled'
  <2> SUFFICES ASSUME NEW d \in Settled PROVE d \in Settled'
    OBVIOUS
  <2>1. /\ d \in Dated /\ snapshots[d].whole /\ d < date /\ d # 0
        /\ \A t \in Runners : run[t].dest # d
    BY DEF Settled, Whole, BackupTypes
  <2>2. d \in Dated' /\ snapshots'[d].whole
    BY <1>2, <2>1
  <2>3. \A t \in Runners : run'[t].dest # d
    BY <1>3, <2>1
  <2> QED BY <1>1, <2>1, <2>2, <2>3 DEF Settled, Whole
<1>9. ASSUME NEW d \in Dated, Safe(d) PROVE d \in Dated' /\ Safe(d)'
  BY <1>1, <1>2, <1>3, <1>9 DEF Safe, Whole, AtStep, Runners, BackupTypes
<1> QED BY <1>1, <1>4, <1>5, <1>6, <1>7, <1>8, <1>9 DEF NoDoubt, Steady

LEMMA VacuumStep ==
    ASSUME BackupTypes, OnceADay, NEW r \in Runners, Vacuum(r)
    PROVE  BackupTypes' /\ OnceADay' /\ NoDoubt /\ Steady
<1>1. /\ AtStep(r, "vacuum") /\ UNCHANGED <<date, starting, faults>>
      /\ run[r].dest \in 1 .. date
  BY AtFile DEF Vacuum, AtStep
<1>2. CASE run[r].dest \in Dated
  <2>1. Rests(r) /\ UNCHANGED snapshots
    BY <1>2 DEF Vacuum
  <2>2. /\ run'[r].step = "rest" /\ run'[r].dest = 0
        /\ \A t \in Runners : t # r => run'[t] = run[t]
        /\ run' \in [Runners -> [step : {"rest", "remove", "vacuum", "copy", "prune"}, dest : Nat]]
    BY <2>1, RunChange
  <2>3. BackupTypes'
    BY <1>1, <2>1, <2>2 DEF BackupTypes, Dated
  <2>4. OnceADay'
    BY <1>1, <2>1, <2>2 DEF OnceADay, BackupTypes, Runners, Dated
  <2>5. TornByDaily' \subseteq TornByDaily
    BY <1>1, <2>1, <2>2 DEF TornByDaily, AtStep, Runners, Dated
  <2>6. Doubt' \subseteq Doubt
    BY <1>1, <2>1, <2>2 DEF Doubt, AtRisk, Runners, Dated
  <2>7. Settled \subseteq Settled'
    BY <1>1, <2>1, <2>2 DEF Settled, Whole, Dated, BackupTypes
  <2>8. ASSUME NEW d \in Dated, Safe(d) PROVE d \in Dated' /\ Safe(d)'
    BY <1>1, <2>1, <2>2, <2>8 DEF Safe, Whole, AtStep, Runners, Dated, BackupTypes
  <2> QED BY <1>1, <2>3, <2>4, <2>5, <2>6, <2>7, <2>8 DEF NoDoubt, Steady
<1>3. CASE run[r].dest \notin Dated
  <2>1. snapshots' = Put(run[r].dest, [by |-> r, whole |-> FALSE]) /\ To(r, "copy")
    BY <1>3 DEF Vacuum
  <2>2. /\ run'[r].step = "copy" /\ run'[r].dest = run[r].dest
        /\ \A t \in Runners : t # r => run'[t] = run[t]
        /\ run' \in [Runners -> [step : {"rest", "remove", "vacuum", "copy", "prune"}, dest : Nat]]
    BY <2>1, RunChange
  <2>3. PICK f \in [by : Runners, whole : BOOLEAN] : f = [by |-> r, whole |-> FALSE]
    OBVIOUS
  <2>4. /\ Dated' = Dated \cup {run[r].dest} /\ snapshots'[run[r].dest] = f
        /\ \A e \in Dated : e # run[r].dest => snapshots'[e] = snapshots[e]
        /\ snapshots' \in [Dated' -> [by : Runners, whole : BOOLEAN]]
    BY <1>1, <2>1, <2>3, FileChange
  <2>5. BackupTypes'
    <3>1. \A t \in Runners : run'[t].dest <= date /\ (run'[t].dest = 0 <=> run'[t].step = "rest")
      BY <1>1, <2>2 DEF BackupTypes
    <3>2. Dated' \subseteq 1 .. date
      BY <1>1, <2>4 DEF BackupTypes
    <3> QED BY <1>1, <2>2, <2>4, <3>1, <3>2 DEF BackupTypes
  <2>6. OnceADay'
    BY <1>1, <2>4, <2>2 DEF OnceADay, BackupTypes, Runners
  <2>7. TornByDaily' \subseteq TornByDaily
    BY <1>1, <1>3, <2>2, <2>3, <2>4 DEF TornByDaily, AtStep, Runners
  <2>8. Doubt' \subseteq Doubt
    BY <1>1, <1>3, <2>2, <2>3, <2>4 DEF Doubt, AtRisk, Runners
  <2>9. Settled \subseteq Settled'
    BY <1>1, <1>3, <2>2, <2>4 DEF Settled, Whole
  <2>10. ASSUME NEW d \in Dated, Safe(d) PROVE d \in Dated' /\ Safe(d)'
    BY <1>1, <1>3, <2>2, <2>4, <2>10 DEF Safe, Whole, AtStep, Runners
  <2> QED BY <1>1, <2>5, <2>6, <2>7, <2>8, <2>9, <2>10 DEF NoDoubt, Steady
<1> QED BY <1>2, <1>3

LEMMA CopyStep ==
    ASSUME BackupTypes, OnceADay, NEW r \in Runners, Copied(r)
    PROVE  BackupTypes' /\ OnceADay' /\ NoDoubt /\ Steady
<1>1. /\ AtStep(r, "copy") /\ UNCHANGED <<date, starting, faults>>
      /\ run[r].dest \in 1 .. date
  BY AtFile DEF Copied, AtStep
<1>2. /\ Dated' = Dated
      /\ \A e \in Dated : snapshots'[e].whole \/ snapshots'[e] = snapshots[e]
      /\ \A e \in Dated : snapshots[e].whole => snapshots'[e].whole
      /\ snapshots' \in [Dated' -> [by : Runners, whole : BOOLEAN]]
      /\ run[r].dest \in Dated /\ snapshots[run[r].dest].by = r => snapshots'[run[r].dest].whole
  <2>1. CASE Own(r)
    <3>1. PICK f \in [by : Runners, whole : BOOLEAN] : f = [by |-> r, whole |-> TRUE]
      OBVIOUS
    <3>2. snapshots' = Put(run[r].dest, f) /\ run[r].dest \in Dated
      BY <2>1, <3>1 DEF Copied, Own
    <3>3. f.whole
      BY <3>1
    <3>4. /\ Dated' = Dated \cup {run[r].dest} /\ snapshots'[run[r].dest] = f
          /\ \A e \in Dated : e # run[r].dest => snapshots'[e] = snapshots[e]
          /\ snapshots' \in [Dated' -> [by : Runners, whole : BOOLEAN]]
      BY <1>1, <3>1, <3>2, FileChange
    <3> QED BY <3>2, <3>3, <3>4
  <2>2. CASE ~Own(r)
    <3>1. snapshots' = snapshots
      BY <2>2 DEF Copied
    <3>2. run[r].dest \in Dated /\ snapshots[run[r].dest].by = r => snapshots[run[r].dest].whole
      BY <2>2 DEF Own, BackupTypes
    <3> QED BY <3>1, <3>2 DEF BackupTypes, Dated
  <2> QED BY <2>1, <2>2
<1>3. /\ run'[r].dest \in {0, run[r].dest} /\ run'[r].step \in {"prune", "rest"}
      /\ run'[r].dest = 0 <=> run'[r].step = "rest"
      /\ r = "backfill" => run'[r].dest = 0
      /\ \A t \in Runners : t # r => run'[t] = run[t]
      /\ run' \in [Runners -> [step : {"rest", "remove", "vacuum", "copy", "prune"}, dest : Nat]]
  <2>1. CASE r = "daily"
    BY <2>1, <1>1, RunChange DEF Copied
  <2>2. CASE r # "daily"
    BY <2>2, <1>1, RunChange DEF Copied
  <2> QED BY <2>1, <2>2
<1>4. BackupTypes'
  <2>1. \A t \in Runners : run'[t].dest <= date /\ (run'[t].dest = 0 <=> run'[t].step = "rest")
    BY <1>1, <1>3 DEF BackupTypes
  <2> QED BY <1>1, <1>2, <1>3, <2>1 DEF BackupTypes
<1>5. OnceADay'
  BY <1>1, <1>2, <1>3 DEF OnceADay, BackupTypes, Runners
<1>6. TornByDaily' \subseteq TornByDaily
  <2> SUFFICES ASSUME NEW d \in TornByDaily' PROVE d \in TornByDaily
    OBVIOUS
  <2>1. /\ d \in Dated /\ snapshots'[d].by = "daily" /\ ~snapshots'[d].whole
        /\ snapshots'[d] = snapshots[d]
    BY <1>2 DEF TornByDaily
  <2>2. ~(AtStep("daily", "copy") /\ run["daily"].dest = d)
    <3>1. CASE r = "daily"
      BY <3>1, <1>2, <2>1
    <3>2. CASE r # "daily"
      <4>1. run'["daily"] = run["daily"]
        BY <3>2, <1>3 DEF Runners
      <4> QED BY <4>1 DEF TornByDaily, AtStep
    <3> QED BY <3>1, <3>2
  <2> QED BY <2>1, <2>2 DEF TornByDaily
<1>7. Doubt' \subseteq Doubt
  <2> SUFFICES ASSUME NEW d \in AtRisk' PROVE d \in AtRisk
    BY DEF Doubt
  <2>1. CASE d \in Dated' /\ snapshots'[d].by = "backfill" /\ ~snapshots'[d].whole
    BY <2>1, <1>2 DEF AtRisk
  <2>2. CASE d \in {run'["backfill"].dest} \ {0}
    BY <2>2, <1>3 DEF AtRisk, Runners
  <2>3. CASE d = date' /\ "backfill" \in starting'
    BY <2>3, <1>1 DEF AtRisk
  <2> QED BY <2>1, <2>2, <2>3 DEF AtRisk
<1>8. Settled \subseteq Settled'
  <2> SUFFICES ASSUME NEW d \in Settled PROVE d \in Settled'
    OBVIOUS
  <2>1. /\ d \in Dated /\ snapshots[d].whole /\ d < date /\ d # 0
        /\ \A t \in Runners : run[t].dest # d
    BY DEF Settled, Whole, BackupTypes
  <2>2. d \in Dated' /\ snapshots'[d].whole
    BY <1>2, <2>1
  <2>3. \A t \in Runners : run'[t].dest # d
    BY <1>3, <2>1
  <2> QED BY <1>1, <2>1, <2>2, <2>3 DEF Settled, Whole
<1>9. ASSUME NEW d \in Dated, Safe(d) PROVE d \in Dated' /\ Safe(d)'
  <2>1. /\ snapshots[d].whole /\ run["backfill"].dest # d /\ d # 0
        /\ run["daily"].dest = d => AtStep("daily", "prune")
        /\ d = date => starting = {}
    BY <1>9 DEF Safe, Whole, BackupTypes
  <2>2. d \in Dated' /\ snapshots'[d].whole
    BY <1>2, <2>1
  <2>3. run'["backfill"].dest # d /\ (run'["daily"].dest = d => AtStep("daily", "prune")')
    BY <1>1, <1>3, <2>1 DEF AtStep, Runners
  <2> QED BY <1>1, <2>1, <2>2, <2>3 DEF Safe, Whole
<1> QED BY <1>1, <1>4, <1>5, <1>6, <1>7, <1>8, <1>9 DEF NoDoubt, Steady

\* A failed copy: its file is in doubt, or gone.
LEMMA FailStep ==
    ASSUME BackupTypes, OnceADay, NEW r \in Runners, VacuumFails(r)
    PROVE  /\ BackupTypes' /\ OnceADay' /\ Steady /\ faults' = faults + 1
           /\ \E d : TornByDaily' \subseteq TornByDaily \cup {d}
           /\ Doubt' \subseteq Doubt
<1>1. /\ AtStep(r, "copy") /\ UNCHANGED <<date, starting>>
      /\ run[r].dest \in 1 .. date /\ faults' = faults + 1 /\ faults < MaxFaults
      /\ faults \in Nat
  BY AtFile DEF VacuumFails, AtStep, BackupTypes
<1>2. /\ Dated' \subseteq Dated /\ \A e \in Dated' : snapshots'[e] = snapshots[e]
      /\ \A e \in Dated : e # run[r].dest => e \in Dated'
      /\ snapshots' \in [Dated' -> [by : Runners, whole : BOOLEAN]]
  <2>1. CASE snapshots' = snapshots
    BY <2>1 DEF BackupTypes, Dated
  <2>2. CASE snapshots' = Without({run[r].dest})
    BY <2>2, <1>1, FileChange
  <2> QED BY <2>1, <2>2 DEF VacuumFails
<1>3. /\ run'[r].dest = 0 /\ run'[r].step = "rest"
      /\ \A t \in Runners : t # r => run'[t] = run[t]
      /\ run' \in [Runners -> [step : {"rest", "remove", "vacuum", "copy", "prune"}, dest : Nat]]
  BY RunChange DEF VacuumFails
<1>4. BackupTypes'
  <2>1. \A t \in Runners : run'[t].dest <= date /\ (run'[t].dest = 0 <=> run'[t].step = "rest")
    BY <1>1, <1>3 DEF BackupTypes
  <2>2. faults' \in Nat /\ faults' <= MaxFaults
    BY <1>1, BackupAssumption
  <2> QED BY <1>1, <1>2, <1>3, <2>1, <2>2 DEF BackupTypes
<1>5. OnceADay'
  BY <1>1, <1>2, <1>3 DEF OnceADay, BackupTypes, Runners
<1>6. TornByDaily' \subseteq TornByDaily \cup {run[r].dest}
  BY <1>1, <1>2, <1>3 DEF TornByDaily, AtStep, Runners
<1>7. Doubt' \subseteq Doubt
  BY <1>1, <1>2, <1>3 DEF Doubt, AtRisk, Runners
<1>8. Settled \subseteq Settled'
  <2> SUFFICES ASSUME NEW d \in Settled PROVE d \in Settled'
    OBVIOUS
  <2>1. /\ d \in Dated /\ snapshots[d].whole /\ d < date /\ d # 0
        /\ \A t \in Runners : run[t].dest # d
    BY DEF Settled, Whole, BackupTypes
  <2>2. d \in Dated' /\ snapshots'[d].whole
    BY <1>2, <2>1
  <2>3. \A t \in Runners : run'[t].dest # d
    BY <1>3, <2>1
  <2> QED BY <1>1, <2>1, <2>2, <2>3 DEF Settled, Whole
<1> QED BY <1>1, <1>4, <1>5, <1>6, <1>7, <1>8 DEF Steady

\* At a prune, twice as many files as faults are in doubt at most, and the one
\* of the daily run.  So with the newest of them there is a whole one left, that
\* is settled, or safe if all faults are used up.
LEMMA NewestHold ==
    ASSUME BackupTypes, OnceADay, Budget, AtStep("daily", "prune"), NEW d \in Surplus,
           \A e \in Settled : e <= d
    PROVE  /\ faults = MaxFaults /\ run["daily"].dest \in Dated
           /\ run["daily"].dest > d /\ Safe(run["daily"].dest)
<1> DEFINE own == run["daily"].dest
           newer == {e \in Dated : e > d}
<1>1. IsFiniteSet(newer) /\ Cardinality(newer) >= RetainBackups /\ d \in Dated /\ d >= 1
  <2>1. d \in Dated /\ Cardinality(newer) >= RetainBackups
    BY DEF Surplus
  <2>2. newer \subseteq 0 .. date /\ d >= 1 /\ 0 \in Int /\ date \in Int
    <3>1. Dated \subseteq 1 .. date /\ date \in Nat
      BY DEF BackupTypes
    <3>2. 1 .. date \subseteq 0 .. date /\ \A e \in 1 .. date : e >= 1
      BY <3>1
    <3>3. newer \subseteq Dated
      OBVIOUS
    <3>4. newer \subseteq 0 .. date /\ d >= 1
      BY <2>1, <3>1, <3>2, <3>3
    <3>5. 0 \in Int /\ date \in Int
      BY <3>1
    <3> QED BY <3>4, <3>5
  <2>3. IsFiniteSet(newer)
    BY <2>2, FS_Interval, FS_Subset
  <2> QED BY <2>1, <2>2, <2>3
<1>2. ASSUME NEW e \in newer, e # own PROVE e \in TornByDaily \cup Doubt
  <2>1. e \in Dated /\ e # 1 /\ e \notin Settled /\ e <= date /\ d \in Nat /\ e \in Nat
    BY <1>1 DEF BackupTypes
  <2>2. CASE ~snapshots[e].whole
    BY <2>1, <2>2, <1>2 DEF BackupTypes, Runners, TornByDaily, Doubt, AtRisk
  <2>3. CASE snapshots[e].whole
    <3>1. run["backfill"].dest = e \/ e = date
      BY <2>1, <2>3, <1>2 DEF Settled, Whole, Runners, BackupTypes
    <3>2. CASE run["backfill"].dest = e
      BY <2>1, <3>2 DEF Doubt, AtRisk, BackupTypes
    <3>3. CASE e = date
      <4>1. own # 0 /\ own # date
        BY <1>2, <3>3 DEF BackupTypes, AtStep, Runners
      <4> QED BY <2>1, <3>3, <4>1 DEF OnceADay
    <3> QED BY <3>1, <3>2, <3>3
  <2> QED BY <2>2, <2>3
<1>3. /\ IsFiniteSet(TornByDaily \cup Doubt)
      /\ Cardinality(TornByDaily \cup Doubt) <= 2 * faults
      /\ Cardinality(TornByDaily \cup Doubt) \in Nat
  <2>1. /\ IsFiniteSet(TornByDaily \cup Doubt)
        /\ Cardinality(TornByDaily \cup Doubt)
             = Cardinality(TornByDaily) + Cardinality(Doubt) - Cardinality(TornByDaily \cap Doubt)
    BY DoubtFinite, FS_Union
  <2>2. Cardinality(TornByDaily \cap Doubt) \in Nat
    BY DoubtFinite, FS_Intersection, FS_CardinalityType
  <2>3. Cardinality(TornByDaily \cup Doubt) \in Nat
    BY <2>1, FS_CardinalityType
  <2> QED BY <2>1, <2>2, <2>3, DoubtFinite DEF Budget, BackupTypes
<1>4. own \in newer /\ own \notin TornByDaily \cup Doubt
  <2> SUFFICES ASSUME own \notin newer \/ own \in TornByDaily \cup Doubt PROVE FALSE
    OBVIOUS
  <2>1. newer \subseteq TornByDaily \cup Doubt
    BY <1>2
  <2>2. Cardinality(newer) <= Cardinality(TornByDaily \cup Doubt)
    BY <2>1, <1>3, Shrinks
  <2>3. Cardinality(newer) \in Nat
    BY <1>1, FS_CardinalityType
  <2> QED BY <1>1, <1>3, <2>2, <2>3, BackupAssumption DEF BackupTypes
<1>5. faults = MaxFaults
  <2>1. Cardinality(newer) <= Cardinality(TornByDaily \cup Doubt) + 1
    BY <1>2, <1>3, GrowsByOne
  <2>2. Cardinality(newer) \in Nat
    BY <1>1, FS_CardinalityType
  <2> QED BY <1>1, <1>3, <2>1, <2>2, BackupAssumption DEF BackupTypes
<1>6. own \in Dated /\ own > d /\ own # 1 /\ own # 0
  BY <1>1, <1>4 DEF BackupTypes
<1>7. snapshots[own].whole
  BY <1>4, <1>6 DEF TornByDaily, Doubt, AtRisk, AtStep, BackupTypes, Runners
<1>8. run["backfill"].dest # own
  BY <1>4, <1>6 DEF Doubt, AtRisk
<1>9. own = date => starting = {}
  <2>1. own = date => "backfill" \notin starting
    BY <1>4, <1>6 DEF Doubt, AtRisk
  <2>2. starting \subseteq Runners
    BY DEF BackupTypes
  <2> QED BY <2>1, <2>2 DEF OnceADay, Runners
<1> QED BY <1>5, <1>6, <1>7, <1>8, <1>9 DEF Safe, Whole

\* The end of a prune, or one file less.
LEMMA PruneStep ==
    ASSUME BackupTypes, OnceADay, Budget, Reserve, PruneOne, kept' = kept \cup Settled'
    PROVE  BackupTypes' /\ OnceADay' /\ NoDoubt /\ Reserve'
<1>1. AtStep("daily", "prune") /\ UNCHANGED <<date, starting, faults>> /\ "daily" \in Runners
  BY DEF PruneOne, Runners
<1>2. CASE Surplus = {}
  <2>1. Rests("daily") /\ UNCHANGED snapshots
    BY <1>2 DEF PruneOne
  <2>2. /\ run'["daily"].step = "rest" /\ run'["daily"].dest = 0
        /\ run'["backfill"] = run["backfill"]
        /\ run' \in [Runners -> [step : {"rest", "remove", "vacuum", "copy", "prune"}, dest : Nat]]
    BY <1>1, <2>1, RunChange DEF Runners
  <2>3. BackupTypes'
    BY <1>1, <2>1, <2>2 DEF BackupTypes, Dated, Runners
  <2>4. OnceADay'
    BY <1>1, <2>1, <2>2 DEF OnceADay, BackupTypes, Dated
  <2>5. TornByDaily' \subseteq TornByDaily
    BY <1>1, <2>1, <2>2 DEF TornByDaily, AtStep, Dated
  <2>6. Doubt' \subseteq Doubt
    BY <1>1, <2>1, <2>2 DEF Doubt, AtRisk, Dated
  <2>7. Settled \subseteq Settled'
    BY <1>1, <2>1, <2>2 DEF Settled, Whole, Dated, BackupTypes, Runners
  <2>8. ASSUME NEW d \in Dated, Safe(d) PROVE d \in Dated' /\ Safe(d)'
    BY <1>1, <2>1, <2>2, <2>8 DEF Safe, Whole, Dated, BackupTypes
  <2>9. Steady
    BY <1>1, <2>7, <2>8 DEF Steady
  <2> QED BY <1>1, <2>3, <2>4, <2>5, <2>6, <2>9, SteadyReserve DEF NoDoubt
<1>3. CASE Surplus # {}
  <2>1. PICK d \in Surplus : snapshots' = Without({d})
    BY <1>3 DEF PruneOne
  <2>2. run' = run /\ d \in 1 .. date
    BY <1>3, <2>1 DEF PruneOne, Surplus, BackupTypes
  <2>3. /\ Dated' = Dated \ {d} /\ \A e \in Dated' : snapshots'[e] = snapshots[e]
        /\ snapshots' \in [Dated' -> [by : Runners, whole : BOOLEAN]]
    BY <2>1, <2>2, FileChange
  <2>4. BackupTypes'
    BY <1>1, <2>2, <2>3 DEF BackupTypes
  <2>5. OnceADay'
    BY <1>1, <2>2, <2>3 DEF OnceADay
  <2>6. TornByDaily' \subseteq TornByDaily
    BY <1>1, <2>2, <2>3 DEF TornByDaily, AtStep
  <2>7. Doubt' \subseteq Doubt
    BY <1>1, <2>2, <2>3 DEF Doubt, AtRisk
  <2>8. \A e \in Settled : e # d => e \in Settled'
    BY <1>1, <2>2, <2>3 DEF Settled, Whole
  <2>9. \A e \in Dated : e # d /\ Safe(e) => e \in Dated' /\ Safe(e)'
    BY <1>1, <2>2, <2>3 DEF Safe, Whole, AtStep
  <2>10. ASSUME NEW e \in Settled, ~(e <= d) PROVE Reserve'
    <3>1. e # d
      BY <2>2, <2>10
    <3> QED BY <2>8, <3>1 DEF Reserve
  <2>11. ASSUME \A e \in Settled : e <= d PROVE Reserve'
    <3>1. /\ faults = MaxFaults /\ run["daily"].dest \in Dated
          /\ run["daily"].dest > d /\ Safe(run["daily"].dest)
      BY <1>1, <2>11, NewestHold
    <3>2. run["daily"].dest # d
      BY <2>2, <3>1
    <3> QED BY <1>1, <2>9, <3>1, <3>2 DEF Reserve
  <2> QED BY <1>1, <2>4, <2>5, <2>6, <2>7, <2>10, <2>11 DEF NoDoubt
<1> QED BY <1>2, <1>3

LEMMA MidnightStep ==
    ASSUME BackupTypes, OnceADay, Midnight
    PROVE  BackupTypes' /\ OnceADay' /\ NoDoubt /\ Steady
<1>1. /\ \A r \in Runners : run[r].dest \in {0, date}
      /\ date' = date + 1 /\ starting' = {"daily"} /\ UNCHANGED <<snapshots, run, faults>>
      /\ date \in Nat
  BY DEF Midnight, BackupTypes
<1>2. date' \notin Dated /\ Dated' = Dated /\ \A r \in Runners : run[r].dest # date'
  BY <1>1 DEF BackupTypes, Dated
<1>3. BackupTypes'
  <2>1. date' \in Nat \ {0} /\ Dated \subseteq 1 .. date'
    BY <1>1 DEF BackupTypes
  <2>2. \A r \in Runners : run[r].dest <= date'
    BY <1>1 DEF BackupTypes
  <2> QED BY <1>1, <1>2, <2>1, <2>2 DEF BackupTypes, Runners
<1>4. OnceADay'
  BY <1>1, <1>2 DEF OnceADay, Runners
<1>5. TornByDaily' \subseteq TornByDaily
  BY <1>1, <1>2 DEF TornByDaily, AtStep
<1>6. Doubt' \subseteq Doubt
  BY <1>1, <1>2 DEF Doubt, AtRisk
<1>7. Settled \subseteq Settled'
  <2> SUFFICES ASSUME NEW d \in Settled PROVE d \in Settled'
    OBVIOUS
  <2>1. d \in Dated /\ d \in Nat /\ d < date
    BY DEF Settled, Whole, BackupTypes
  <2> QED BY <1>1, <1>2, <2>1 DEF Settled, Whole
<1>8. ASSUME NEW d \in Dated, Safe(d) PROVE d \in Dated' /\ Safe(d)'
  BY <1>1, <1>2, <1>8 DEF Safe, Whole, AtStep
<1> QED BY <1>1, <1>3, <1>4, <1>5, <1>6, <1>7, <1>8 DEF NoDoubt, Steady

LEMMA RebootStep ==
    ASSUME BackupTypes, OnceADay, Reboot
    PROVE  /\ BackupTypes' /\ OnceADay' /\ Steady /\ faults' = faults + 1
           /\ \E d : TornByDaily' \subseteq TornByDaily \cup {d}
           /\ \E d : Doubt' \subseteq Doubt \cup {d}
<1>1. /\ faults < MaxFaults /\ faults' = faults + 1 /\ faults \in Nat
      /\ starting' = Runners /\ UNCHANGED <<date, snapshots>> /\ Dated' = Dated
      /\ \A r \in Runners : run'[r].step = "rest" /\ run'[r].dest = 0
      /\ run' \in [Runners -> [step : {"rest", "remove", "vacuum", "copy", "prune"}, dest : Nat]]
  BY DEF Reboot, Resting, Dated, BackupTypes
<1>2. faults' \in Nat /\ faults' <= MaxFaults
  BY <1>1, BackupAssumption
<1>3. BackupTypes'
  BY <1>1, <1>2 DEF BackupTypes
<1>4. OnceADay'
  BY <1>1 DEF OnceADay, BackupTypes, Runners
<1>5. TornByDaily' \subseteq TornByDaily \cup {run["daily"].dest}
  BY <1>1 DEF TornByDaily
<1>6. Doubt' \subseteq Doubt \cup {date}
  BY <1>1 DEF Doubt, AtRisk, Runners
<1>7. Settled \subseteq Settled'
  BY <1>1 DEF Settled, Whole, BackupTypes
<1>8. Steady
  BY <1>1, <1>7 DEF Steady
<1>9. /\ \E d : TornByDaily' \subseteq TornByDaily \cup {d}
      /\ \E d : Doubt' \subseteq Doubt \cup {d}
  BY <1>5, <1>6
<1> QED BY <1>1, <1>3, <1>4, <1>8, <1>9

LEMMA BackupInitial == BackupInit => BackupInv
<1> SUFFICES ASSUME BackupInit PROVE BackupInv
  OBVIOUS
<1>1. /\ date = 1 /\ Dated = {} /\ starting = Runners /\ kept = {} /\ faults = 0
      /\ \A r \in Runners : run[r].step = "rest" /\ run[r].dest = 0
      /\ run \in [Runners -> [step : {"rest", "remove", "vacuum", "copy", "prune"}, dest : Nat]]
      /\ snapshots \in [Dated -> [by : Runners, whole : BOOLEAN]]
  BY DEF BackupInit, Dated, Resting
<1>2. BackupTypes
  BY <1>1, BackupAssumption DEF BackupTypes
<1>3. OnceADay
  BY <1>1 DEF OnceADay, Runners
<1>4. TornByDaily = {} /\ Doubt = {}
  BY <1>1 DEF TornByDaily, Doubt, AtRisk, Runners
<1>5. Budget
  BY <1>1, <1>4, FS_EmptySet DEF Budget
<1>6. Reserve
  BY <1>1 DEF Reserve
<1> QED BY <1>2, <1>3, <1>5, <1>6 DEF BackupInv

\* Once a day has ended with a whole snapshot, a whole one remains: for any
\* number of snapshots kept, more than two for each failure and restart, and
\* however the two runs meet in a file or run past midnight.
THEOREM SnapshotRemains == BackupSpec => []OneSnapshotRemains
<1>1. BackupInv /\ [BackupNext]_backupVars => BackupInv'
  <2> SUFFICES ASSUME BackupInv, [BackupNext]_backupVars PROVE BackupInv'
    OBVIOUS
  <2>0. BackupTypes /\ OnceADay /\ Budget /\ Reserve
    BY DEF BackupInv
  <2>1. CASE UNCHANGED backupVars
    BY <2>1 DEF backupVars, BackupInv, BackupTypes, OnceADay, Budget, Reserve, TornByDaily,
                Doubt, AtRisk, Settled, Whole, Safe, Dated, AtStep
  <2>2. ASSUME BackupNext PROVE BackupInv'
    <3>0. kept' = kept \cup Settled'
      BY <2>2 DEF BackupNext
    <3>1. ASSUME BackupTypes' /\ OnceADay' /\ NoDoubt /\ Steady PROVE BackupInv'
      BY <2>0, <3>0, <3>1, WithinBudget, SteadyReserve DEF BackupInv, NoDoubt
    <3>2. ASSUME /\ BackupTypes' /\ OnceADay' /\ Steady /\ faults' = faults + 1
                 /\ \E d : TornByDaily' \subseteq TornByDaily \cup {d}
                 /\ \E d : Doubt' \subseteq Doubt \cup {d}
          PROVE  BackupInv'
      BY <2>0, <3>0, <3>2, WithinBudget, SteadyReserve DEF BackupInv
    <3>3. ASSUME NEW r \in Runners, StartBackup(r) PROVE BackupInv'
      BY <2>0, <3>1, <3>3, StartStep
    <3>4. ASSUME NEW r \in Runners, RemoveStale(r) PROVE BackupInv'
      BY <2>0, <3>1, <3>4, RemoveStep
    <3>5. ASSUME NEW r \in Runners, Vacuum(r) PROVE BackupInv'
      BY <2>0, <3>1, <3>5, VacuumStep
    <3>6. ASSUME NEW r \in Runners, Copied(r) PROVE BackupInv'
      BY <2>0, <3>1, <3>6, CopyStep
    <3>7. ASSUME NEW r \in Runners, VacuumFails(r) PROVE BackupInv'
      <4>1. \E d : Doubt' \subseteq Doubt \cup {d}
        BY <2>0, <3>7, FailStep
      <4> QED BY <2>0, <3>2, <3>7, <4>1, FailStep
    <3>8. ASSUME PruneOne PROVE BackupInv'
      <4>1. BackupTypes' /\ OnceADay' /\ NoDoubt /\ Reserve'
        BY <2>0, <3>0, <3>8, PruneStep
      <4> QED BY <2>0, <4>1, WithinBudget DEF BackupInv, NoDoubt
    <3>9. ASSUME Midnight PROVE BackupInv'
      BY <2>0, <3>1, <3>9, MidnightStep
    <3>10. ASSUME Reboot PROVE BackupInv'
      BY <2>0, <3>2, <3>10, RebootStep
    <3> QED BY <2>2, <3>3, <3>4, <3>5, <3>6, <3>7, <3>8, <3>9, <3>10 DEF BackupNext
  <2> QED BY <2>1, <2>2
<1>2. BackupInv => OneSnapshotRemains
  BY DEF BackupInv, Reserve, OneSnapshotRemains, Settled, Safe
<1> QED BY <1>1, <1>2, BackupInitial, PTL DEF BackupSpec

=============================================================================
