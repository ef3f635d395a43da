--------------------------- MODULE Greylist_proofs ---------------------------
(***************************************************************************)
(* What holds of the greylist for every set of addresses, every number of  *)
(* concurrent passes and requests, every TTL and every bound; and, at the  *)
(* end, of the request log that it reads.                                  *)
(***************************************************************************)
EXTENDS Greylist, RequestLog, FiniteSetTheorems, WellFoundedInduction, TLAPS

-----------------------------------------------------------------------------

(***************************************************************************)
(* Types.  TypeOK is not inductive: what an upsert writes is typed only    *)
(* because a pass that waits to verify or upsert has picked a feature, and *)
(* what an admin handler adds only because it remembers its address.       *)
(***************************************************************************)
InFlight ==
    /\ \A s \in Sweepers :
          pass[s].pc \in {"verify", "upsert"} => pass[s].cur \in Trip
    /\ \A a \in Admins : req[a].pc # "idle" => req[a].ip \in IPs

TInv == TypeOK /\ InFlight

\* A pass that starts, and the pass of a fresh process, are typed.
LEMMA IdleTyped == IdlePass \in Pass /\ BootPass \in Pass /\ IdleReq \in Req
BY DEF IdlePass, BootPass, IdleReq, Pass, PassPc, Req

\* What the two writers put in the table are rows.
LEMMA RowsTyped ==
    /\ PinRow \in Row
    /\ \A row \in Row \cup {NoRow}, rule \in Rules, exp \in Nat :
          UpsertAuto(row, rule, exp) \in Row
BY NoRowAssumption DEF PinRow, Row, UpsertAuto, Rules

\* A fresh process with an empty table is well typed.
LEMMA TypeInit == Init => TInv
BY IdleTyped, GreylistAssumption
   DEF Init, TInv, TypeOK, InFlight, Listed, Verdicts, Rules,
       IdlePass, BootPass, IdleReq

\* Every step of a sweep pass keeps the types.
LEMMA TypeSweep ==
    ASSUME TInv, NEW s \in Sweepers, SweepStep(s) \/ Abort(s)
    PROVE  TInv'
<1> USE GreylistAssumption DEF TInv, TypeOK, InFlight
<1>1. CASE Begin(s)
  <2> DEFINE picked == {t \in Trip : log[t.ip] = t.rule}
  <2>1. pass'[s] = [pc |-> "eval", todo |-> picked, cur |-> NoTrip,
                    exp |-> now + Ttl, rel |-> {}, snap |-> {}]
    BY <1>1 DEF Begin, SetPass, IdlePass
  <2>2. picked \in SUBSET Trip /\ now + Ttl \in Nat
    OBVIOUS
  <2> HIDE DEF picked
  <2>3. pass'[s] \in Pass /\ pass'[s].pc = "eval"
    BY <2>1, <2>2 DEF Pass, PassPc
  <2> QED BY <1>1, <2>3 DEF Begin, SetPass, Event
<1>2. CASE Consider(s)
  <2>1. PICK t \in pass[s].todo :
          pass'[s] = [pass[s] EXCEPT
             !.todo = @ \ {t},
             !.cur = IF t.ip \in allow THEN NoTrip ELSE t,
             !.pc = IF t.ip \in allow THEN "eval"
                    ELSE IF t.rule = "R1" THEN "upsert" ELSE "verify"]
    BY <1>2 DEF Consider, SetPass
  <2>2. pass[s] \in Pass /\ t \in Trip
    BY DEF Pass
  <2>3. CASE t.ip \in allow
    <3>1. pass'[s] = [pass[s] EXCEPT !.todo = @ \ {t}, !.cur = NoTrip,
                                     !.pc = "eval"]
      BY <2>1, <2>3
    <3>2. pass'[s] \in Pass /\ pass'[s].pc = "eval"
      BY <3>1, <2>2 DEF Pass, PassPc
    <3> QED BY <1>2, <3>2 DEF Consider, SetPass
  <2>4. CASE t.ip \notin allow
    <3>1. PICK pc \in {"upsert", "verify"} :
            pass'[s] = [pass[s] EXCEPT !.todo = @ \ {t}, !.cur = t, !.pc = pc]
      BY <2>1, <2>4
    <3>2. pass'[s] \in Pass /\ pass'[s].cur \in Trip
      BY <3>1, <2>2 DEF Pass, PassPc
    <3> QED BY <1>2, <3>2 DEF Consider, SetPass
  <2> QED BY <2>3, <2>4
<1>3. CASE Verify(s)
  <2>1. pass[s] \in Pass /\ pass[s].cur \in Trip
    BY <1>3 DEF Verify
  <2>2. CASE pass'[s] = [pass[s] EXCEPT !.pc = "upsert"]
    <3>1. pass'[s] \in Pass /\ pass'[s].cur \in Trip
      BY <2>1, <2>2 DEF Pass, PassPc
    <3> QED BY <1>3, <3>1 DEF Verify, SetPass
  <2>3. CASE pass'[s] = [pass[s] EXCEPT !.pc = "eval", !.cur = NoTrip]
    <3>1. pass'[s] \in Pass /\ pass'[s].pc = "eval"
      BY <2>1, <2>3 DEF Pass, PassPc
    <3> QED BY <1>3, <3>1 DEF Verify, SetPass
  <2> QED BY <1>3, <2>2, <2>3 DEF Verify, SetPass
<1>4. CASE Upsert(s)
  <2>1. pass'[s] \in Pass /\ pass'[s].pc = "eval"
    BY <1>4 DEF Upsert, SetPass, Pass, PassPc
  <2>2. pass[s].cur \in Trip /\ pass[s].exp \in Nat
    BY <1>4 DEF Upsert, Pass
  <2>3. rows' \in [IPs -> Row \cup {NoRow}]
    BY <1>4, <2>2, RowsTyped DEF Upsert, Trip
  <2> QED BY <1>4, <2>1, <2>3 DEF Upsert, SetPass
<1>5. CASE ReadAllowlist(s)
  <2>1. pass'[s] \in Pass /\ pass'[s].pc = "release"
    BY <1>5 DEF ReadAllowlist, SetPass, Pass, PassPc
  <2> QED BY <1>5, <2>1 DEF ReadAllowlist, SetPass
<1>6. CASE ReleaseOperator(s)
  <2>1. pass'[s] \in Pass /\ pass'[s].pc = "release"
    BY <1>6 DEF ReleaseOperator, SetPass, Pass, PassPc
  <2>2. rows' \in [IPs -> Row \cup {NoRow}]
    BY <1>6 DEF ReleaseOperator
  <2> QED BY <1>6, <2>1, <2>2 DEF ReleaseOperator, SetPass, Event
<1>7. CASE Prune(s)
  <2>1. pass'[s] \in Pass /\ pass'[s].pc = "active"
    BY <1>7 DEF Prune, SetPass, Pass, PassPc
  <2> QED BY <1>7, <2>1 DEF Prune, SetPass
<1>8. CASE ReadActive(s)
  <2>1. pass'[s] \in Pass /\ pass'[s].pc = "refresh"
    BY <1>8 DEF ReadActive, SetPass, Pass, PassPc, ActiveIps
  <2> QED BY <1>8, <2>1 DEF ReadActive, SetPass
<1>9. CASE Refresh(s)
  <2>1. pass'[s] = IdlePass /\ pass[s] \in Pass
    BY <1>9 DEF Refresh, SetPass
  <2> QED BY <1>9, <2>1, IdleTyped DEF Refresh, SetPass, Pass, IdlePass
<1>10. CASE Abort(s)
  <2>1. pass'[s] = IdlePass
    BY <1>10 DEF Abort, SetPass
  <2> QED BY <1>10, <2>1, IdleTyped DEF Abort, SetPass, Event, IdlePass
<1> QED BY <1>1, <1>2, <1>3, <1>4, <1>5, <1>6, <1>7, <1>8, <1>9, <1>10
        DEF SweepStep

\* Every step of an admin request keeps the types.
LEMMA TypeAdmin ==
    ASSUME TInv, NEW a \in Admins,
           \/ AdminStep(a) \/ Disconnect(a)
           \/ \E ip \in IPs : PinInTable(a, ip) \/ ReleaseInTable(a, ip)
    PROVE  TInv'
<1> USE GreylistAssumption DEF TInv, TypeOK, InFlight, SetReq, Event
<1>1. CASE PinInSnapshot(a) \/ ReleaseInSnapshot(a) \/ Disconnect(a)
  <2>1. req'[a] = IdleReq
    BY <1>1 DEF PinInSnapshot, ReleaseInSnapshot, Disconnect, IdleReq
  <2>2. inner' \subseteq IPs
    BY <1>1 DEF PinInSnapshot, ReleaseInSnapshot, Disconnect
  <2> QED BY <1>1, <2>1, <2>2, IdleTyped
          DEF PinInSnapshot, ReleaseInSnapshot, Disconnect, IdleReq
<1>2. ASSUME NEW ip \in IPs, PinInTable(a, ip) PROVE TInv'
  <2>1. req'[a] \in Req /\ req'[a].ip \in IPs
    BY <1>2 DEF PinInTable, Req
  <2> QED BY <1>2, <2>1, RowsTyped DEF PinInTable
<1>3. ASSUME NEW ip \in IPs, ReleaseInTable(a, ip) PROVE TInv'
  <2>1. req'[a] \in Req /\ req'[a].ip \in IPs
    BY <1>3 DEF ReleaseInTable, Req
  <2> QED BY <1>3, <2>1 DEF ReleaseInTable
<1> QED BY <1>1, <1>2, <1>3 DEF AdminStep

\* Every step keeps the types.
LEMMA TypeStep == TInv /\ [Next]_vars => TInv'
<1> SUFFICES ASSUME TInv, [Next]_vars PROVE TInv'
  OBVIOUS
<1> USE GreylistAssumption DEF TInv, TypeOK, InFlight
<1>1. ASSUME NEW s \in Sweepers, SweepStep(s) \/ Abort(s) PROVE TInv'
  BY <1>1, TypeSweep
<1>2. ASSUME NEW a \in Admins,
             \/ AdminStep(a) \/ Disconnect(a)
             \/ \E ip \in IPs : PinInTable(a, ip) \/ ReleaseInTable(a, ip)
      PROVE  TInv'
  BY <1>2, TypeAdmin
<1>3. ASSUME NEW ip \in IPs, SetPublicIps(ip) PROVE TInv'
  BY <1>3 DEF SetPublicIps, Event
<1>4. ASSUME NEW ip \in IPs, NEW v \in Verdicts, Traffic(ip, v) PROVE TInv'
  BY <1>4 DEF Traffic
<1>5. CASE Tick
  BY <1>5 DEF Tick
<1>6. CASE Crash
  BY <1>6, IdleTyped DEF Crash, Event, IdlePass, BootPass, IdleReq
<1>7. CASE UNCHANGED vars
  BY <1>7 DEF vars
<1> QED BY <1>1, <1>2, <1>3, <1>4, <1>5, <1>6, <1>7 DEF Next

\* The strengthened type invariant, used by the theorems below.
LEMMA TypeStrong == Spec => []TInv
BY TypeInit, TypeStep, PTL DEF Spec

\* The table, the process's memory and what is in flight keep their types.
THEOREM TypeCorrect == Spec => []TypeOK
BY TypeStrong, PTL DEF TInv

-----------------------------------------------------------------------------

\* Where the steps that write no row leave their pass.
LEMMA PcAfter ==
    ASSUME TInv, NEW s \in Sweepers
    PROVE  /\ Begin(s) => pass'[s].pc = "eval"
           /\ ReadAllowlist(s) \/ ReleaseOperator(s) => pass'[s].pc = "release"
           /\ Prune(s) => pass'[s].pc = "active"
           /\ ReadActive(s) => pass'[s].pc = "refresh"
           /\ Refresh(s) \/ Abort(s) => pass'[s].pc = "idle"
<1>0. pass \in [Sweepers -> Pass] /\ pass[s] \in Pass
  BY DEF TInv, TypeOK
<1>1. Begin(s) => pass'[s].pc = "eval"
  BY <1>0 DEF Begin, SetPass, IdlePass
<1>2. ReadAllowlist(s) => pass'[s].pc = "release"
  BY <1>0 DEF ReadAllowlist, SetPass, Pass
<1>3. ReleaseOperator(s) => pass'[s].pc = "release"
  BY <1>0 DEF ReleaseOperator, SetPass, Pass
<1>4. Prune(s) => pass'[s].pc = "active"
  BY <1>0 DEF Prune, SetPass, Pass
<1>5. ReadActive(s) => pass'[s].pc = "refresh"
  BY <1>0 DEF ReadActive, SetPass, Pass
<1>6. Refresh(s) => pass'[s].pc = "idle"
  BY <1>0 DEF Refresh, SetPass, IdlePass
<1>7. Abort(s) => pass'[s].pc = "idle"
  BY <1>0 DEF Abort, SetPass, IdlePass
<1> QED BY <1>1, <1>2, <1>3, <1>4, <1>5, <1>6, <1>7

-----------------------------------------------------------------------------

(***************************************************************************)
(* Verified crawlers.  What keeps them off the table is what a pass knows  *)
(* when it is about to write: a blunt rule has been through FCrDNS.        *)
(***************************************************************************)
Cleared ==
    \A s \in Sweepers : pass[s].pc = "upsert" /\ pass[s].cur.rule = "blunt"
                           => pass[s].cur.ip \notin Crawlers

CInv == NoBluntCrawler /\ Cleared

\* Every step keeps the crawlers off the table.
LEMMA CrawlerStep == TInv /\ CInv /\ [Next]_vars => CInv'
<1> SUFFICES ASSUME TInv, CInv, [Next]_vars PROVE CInv'
  OBVIOUS
<1> USE GreylistAssumption DEF CInv, NoBluntCrawler, Cleared, Listed
<1> USE DEF TInv, TypeOK, InFlight
<1>1. ASSUME NEW s \in Sweepers, SweepStep(s) \/ Abort(s) PROVE CInv'
  <2>1. CASE Upsert(s)
    <3> DEFINE t == pass[s].cur
    <3>1. /\ t \in Trip /\ pass[s].exp \in Nat
          /\ rows' = [rows EXCEPT ![t.ip] = UpsertAuto(@, t.rule, pass[s].exp)]
          /\ t.rule = "blunt" => t.ip \notin Crawlers
      BY <2>1 DEF Upsert, Pass
    <3>2. rows'[t.ip].reason = t.rule /\ t.ip \in IPs
      BY <3>1 DEF UpsertAuto, Trip, Row
    <3>3. NoBluntCrawler'
      BY <3>1, <3>2
    <3>4. pass'[s].pc = "eval"
      BY <2>1 DEF Upsert, SetPass, Pass
    <3> QED BY <3>3, <3>4, <2>1 DEF Upsert, SetPass
  <2>2. CASE Consider(s)
    <3>1. PICK t \in pass[s].todo :
            pass'[s] = [pass[s] EXCEPT
               !.todo = @ \ {t},
               !.cur = IF t.ip \in allow THEN NoTrip ELSE t,
               !.pc = IF t.ip \in allow THEN "eval"
                      ELSE IF t.rule = "R1" THEN "upsert" ELSE "verify"]
      BY <2>2 DEF Consider, SetPass
    <3>2. pass[s] \in Pass
      OBVIOUS
    <3>3. pass'[s].pc = "upsert" => pass'[s].cur = t /\ t.rule = "R1"
      BY <3>1, <3>2 DEF Pass
    <3> QED BY <2>2, <3>3 DEF Consider, SetPass
  <2>3. CASE Verify(s)
    <3>1. pass[s] \in Pass
      OBVIOUS
    <3>2. pass'[s].pc = "upsert" => /\ pass'[s].cur = pass[s].cur
                                    /\ pass[s].cur.ip \notin Crawlers
      BY <2>3, <3>1 DEF Verify, SetPass, Verdict, Pass
    <3> QED BY <2>3, <3>2 DEF Verify, SetPass
  <2>4. CASE Begin(s) \/ ReadAllowlist(s) \/ Refresh(s) \/ ReadActive(s) \/ Abort(s)
    <3>1. pass'[s].pc # "upsert"
      BY <2>4, PcAfter
    <3> QED BY <2>4, <3>1
            DEF Begin, ReadAllowlist, Refresh, ReadActive, Abort, SetPass
  <2>5. CASE ReleaseOperator(s) \/ Prune(s)
    <3>1. pass'[s].pc # "upsert"
      BY <2>5, PcAfter
    <3>2. \A ip \in IPs : rows'[ip] \in {NoRow, rows[ip]}
      BY <2>5 DEF ReleaseOperator, Prune
    <3> QED BY <2>5, <3>1, <3>2 DEF ReleaseOperator, Prune, SetPass
  <2> QED BY <1>1, <2>1, <2>2, <2>3, <2>4, <2>5 DEF SweepStep
<1>2. ASSUME NEW a \in Admins, AdminStep(a) \/ Disconnect(a) PROVE CInv'
  BY <1>2 DEF AdminStep, PinInSnapshot, ReleaseInSnapshot, Disconnect
<1>3. ASSUME NEW a \in Admins, NEW ip \in IPs,
             PinInTable(a, ip) \/ ReleaseInTable(a, ip)
      PROVE  CInv'
  BY <1>3 DEF PinInTable, ReleaseInTable, PinRow
<1>4. ASSUME NEW ip \in IPs, SetPublicIps(ip) PROVE CInv'
  BY <1>4 DEF SetPublicIps
<1>5. ASSUME NEW ip \in IPs, NEW v \in Verdicts, Traffic(ip, v) PROVE CInv'
  BY <1>5 DEF Traffic
<1>6. CASE Tick \/ UNCHANGED vars
  BY <1>6 DEF Tick, vars
<1>7. CASE Crash
  BY <1>7 DEF Crash, IdlePass, BootPass
<1> QED BY <1>1, <1>2, <1>3, <1>4, <1>5, <1>6, <1>7 DEF Next

\* A search crawler that FCrDNS confirms is never listed by a blunt rule,
\* however many passes overlap and whatever DNS failures they meet.
THEOREM CrawlersSafe == Spec => []NoBluntCrawler
<1>1. Init => CInv
  <2> SUFFICES ASSUME Init PROVE CInv
    OBVIOUS
  <2>1. NoBluntCrawler
    BY GreylistAssumption DEF Init, NoBluntCrawler, Listed
  <2>2. Cleared
    BY DEF Init, Cleared, IdlePass, BootPass
  <2> QED BY <2>1, <2>2 DEF CInv
<1> QED BY <1>1, CrawlerStep, TypeStrong, PTL DEF Spec, CInv

-----------------------------------------------------------------------------

(***************************************************************************)
(* Pins.                                                                   *)
(***************************************************************************)

\* An upsert over a pinned row leaves it pinned.
LEMMA UpsertKeepsPin ==
    \A row \in Row, rule \in Rules, exp \in Nat :
       row.manual => /\ UpsertAuto(row, rule, exp) # NoRow
                     /\ UpsertAuto(row, rule, exp).manual
BY NoRowAssumption DEF UpsertAuto, Row, Rules

\* A manual pin leaves the table only by an admin's release of that address
\* or by a pass that read it on the operator allowlist.
THEOREM PinsStick == Spec => PinSticks
<1> DEFINE Sticks == \A ip \in IPs : Pinned(ip) /\ ~Pinned(ip)' =>
          \/ \E a \in Admins : req[a].pc = "idle" /\ req'[a] =
                                   [pc |-> "released", ip |-> ip]
          \/ \E s \in Sweepers : ip \in pass[s].rel
<1>1. TInv /\ [Next]_vars => [Sticks]_rows
  <2> SUFFICES ASSUME TInv, [Next]_vars, rows' # rows,
                      NEW ip \in IPs, Pinned(ip), ~Pinned(ip)'
               PROVE  \/ \E a \in Admins : req[a].pc = "idle" /\ req'[a] =
                                   [pc |-> "released", ip |-> ip]
                      \/ \E s \in Sweepers : ip \in pass[s].rel
    OBVIOUS
  <2> USE NoRowAssumption DEF Pinned, Listed, TInv, TypeOK, InFlight
  <2>1. ASSUME NEW s \in Sweepers, Upsert(s) PROVE FALSE
    <3> DEFINE t == pass[s].cur
    <3>1. /\ t \in Trip /\ pass[s].exp \in Nat
          /\ rows' = [rows EXCEPT ![t.ip] = UpsertAuto(@, t.rule, pass[s].exp)]
      BY <2>1 DEF Upsert, Pass
    <3>2. rows'[ip] = rows[ip] \/ rows'[ip] = UpsertAuto(rows[ip], t.rule, pass[s].exp)
      BY <3>1
    <3> QED BY <3>1, <3>2, UpsertKeepsPin DEF Trip
  <2>2. ASSUME NEW s \in Sweepers, ReleaseOperator(s) PROVE ip \in pass[s].rel
    BY <2>2 DEF ReleaseOperator
  <2>3. ASSUME NEW s \in Sweepers, Prune(s) PROVE FALSE
    BY <2>3 DEF Prune, Lapsed
  <2>4. ASSUME NEW a \in Admins, NEW i \in IPs, PinInTable(a, i) PROVE FALSE
    BY <2>4, RowsTyped DEF PinInTable, PinRow
  <2>5. ASSUME NEW a \in Admins, NEW i \in IPs, ReleaseInTable(a, i)
        PROVE  req[a].pc = "idle" /\ req'[a] = [pc |-> "released", ip |-> ip]
    BY <2>5 DEF ReleaseInTable, SetReq
  <2>6. \/ \E s \in Sweepers : Upsert(s) \/ ReleaseOperator(s) \/ Prune(s)
        \/ \E a \in Admins, i \in IPs : PinInTable(a, i) \/ ReleaseInTable(a, i)
    BY DEF Next, vars, SweepStep, AdminStep, Begin, Consider, Verify,
           ReadAllowlist, ReadActive, Refresh, Abort, PinInSnapshot,
           ReleaseInSnapshot, Disconnect, SetPublicIps, Traffic, Tick, Crash
  <2> QED BY <2>1, <2>2, <2>3, <2>4, <2>5, <2>6
<1> QED BY <1>1, TypeStrong, PTL DEF Spec, PinSticks

-----------------------------------------------------------------------------

(***************************************************************************)
(* The sliding expiry.  With one pass at a time, no row expires later than *)
(* the cutoff the running pass is about to write: the cutoff was fixed at  *)
(* a Begin, after every earlier pass had written its own.                  *)
(***************************************************************************)
Writing == pass[Timer].pc \in {"eval", "verify", "upsert"}

Bounded ==
    /\ Writing => pass[Timer].exp <= now + Ttl
    /\ \A ip \in IPs : Listed(ip) /\ rows[ip].expires # Never =>
          /\ rows[ip].expires <= now + Ttl
          /\ Writing => rows[ip].expires <= pass[Timer].exp

\* Without overlapping passes every step keeps the bound.
LEMMA BoundedStep ==
    ASSUME Sweepers = {Timer}
    PROVE  TInv /\ Bounded /\ [Next]_vars => Bounded'
<1> SUFFICES ASSUME TInv, Bounded, [Next]_vars PROVE Bounded'
  OBVIOUS
<1> USE GreylistAssumption, NoRowAssumption
    DEF Bounded, Writing, Listed, TInv, TypeOK
<1>0. now \in Nat /\ pass[Timer] \in Pass /\ pass[Timer].exp \in Nat
  BY DEF Pass
<1>r. \A ip \in IPs : rows[ip] = NoRow \/ rows[ip] \in Row
  OBVIOUS
<1>1. CASE Begin(Timer)
  <2>1. pass'[Timer].exp = now + Ttl /\ rows' = rows /\ now' = now
    BY <1>1 DEF Begin, SetPass, IdlePass
  <2> QED BY <1>0, <1>r, <2>1
<1>2. CASE Consider(Timer) \/ Verify(Timer)
  <2>1. pass'[Timer].exp = pass[Timer].exp /\ Writing
    <3>1. CASE Consider(Timer)
      BY <1>0, <3>1 DEF Consider, SetPass, Pass
    <3>2. CASE Verify(Timer)
      BY <1>0, <3>2 DEF Verify, SetPass, Pass
    <3> QED BY <1>2, <3>1, <3>2
  <2> QED BY <1>0, <1>r, <1>2, <2>1 DEF Consider, Verify
<1>3. CASE Upsert(Timer)
  <2> DEFINE t == pass[Timer].cur
             exp == pass[Timer].exp
  <2>1. /\ t \in Trip /\ exp <= now + Ttl /\ now' = now
        /\ rows' = [rows EXCEPT ![t.ip] = UpsertAuto(@, t.rule, exp)]
        /\ pass'[Timer].exp = exp
    BY <1>0, <1>3 DEF Upsert, SetPass, Pass, InFlight
  <2>2. rows'[t.ip].expires = exp
    BY <2>1, <1>r DEF UpsertAuto, Trip, Row
  <2>3. \A ip \in IPs : ip # t.ip => rows'[ip] = rows[ip]
    BY <2>1
  <2>4. Writing
    BY <1>3 DEF Upsert
  <2> QED BY <1>0, <1>r, <2>1, <2>2, <2>3, <2>4
<1>4. CASE ReadAllowlist(Timer) \/ ReadActive(Timer) \/ Refresh(Timer) \/ Abort(Timer)
  <2>1. pass'[Timer].pc \notin {"eval", "verify", "upsert"}
    BY <1>4, PcAfter
  <2>2. rows' = rows /\ now' = now
    BY <1>4 DEF ReadAllowlist, ReadActive, Refresh, Abort
  <2> QED BY <1>0, <1>r, <2>1, <2>2
<1>5. CASE ReleaseOperator(Timer) \/ Prune(Timer)
  <2>1. pass'[Timer].pc \notin {"eval", "verify", "upsert"}
    BY <1>5, PcAfter
  <2>2. now' = now /\ \A ip \in IPs : rows'[ip] \in {NoRow, rows[ip]}
    BY <1>5 DEF ReleaseOperator, Prune
  <2> QED BY <1>0, <1>r, <2>1, <2>2
<1>6. ASSUME NEW a \in Admins, AdminStep(a) \/ Disconnect(a) PROVE Bounded'
  BY <1>6 DEF AdminStep, PinInSnapshot, ReleaseInSnapshot, Disconnect
<1>7. ASSUME NEW a \in Admins, NEW i \in IPs,
             PinInTable(a, i) \/ ReleaseInTable(a, i)
      PROVE  Bounded'
  <2>1. pass' = pass /\ now' = now
    BY <1>7 DEF PinInTable, ReleaseInTable
  <2>2. \A ip \in IPs : rows'[ip] \in {NoRow, PinRow, rows[ip]}
    BY <1>7 DEF PinInTable, ReleaseInTable
  <2> QED BY <1>0, <1>r, <2>1, <2>2 DEF PinRow
<1>8. CASE Tick
  BY <1>0, <1>r, <1>8 DEF Tick, Row
<1>9. CASE Crash
  <2>1. rows' = rows /\ now' = now /\ pass'[Timer].pc = "active"
    BY <1>9 DEF Crash, BootPass, IdlePass
  <2> QED BY <1>0, <1>r, <2>1
<1>10. ASSUME NEW i \in IPs, SetPublicIps(i) PROVE Bounded'
  BY <1>10 DEF SetPublicIps
<1>11. ASSUME NEW i \in IPs, NEW v \in Verdicts, Traffic(i, v) PROVE Bounded'
  BY <1>11 DEF Traffic
<1>12. CASE UNCHANGED vars
  BY <1>12 DEF vars
<1> QED BY <1>1, <1>2, <1>3, <1>4, <1>5, <1>6, <1>7, <1>8, <1>9, <1>10, <1>11,
           <1>12 DEF Next, SweepStep

\* With the timer's passes alone (no "Run sweep now"), a listed address never
\* has its ban shortened, across slow and aborted passes and restarts.
THEOREM ExpirySlides ==
    ASSUME Sweepers = {Timer}
    PROVE  Spec => SlidesForward
<1> DEFINE Slides == \A ip \in IPs :
          /\ Listed(ip) /\ rows[ip].expires # Never
          /\ Listed(ip)' /\ rows'[ip].expires # Never
          => rows'[ip].expires >= rows[ip].expires
<1>1. Init => Bounded
  BY GreylistAssumption, NoRowAssumption
     DEF Init, Bounded, Writing, Listed, BootPass, IdlePass
<1>2. TInv /\ Bounded /\ [Next]_vars => [Slides]_rows
  <2> SUFFICES ASSUME TInv, Bounded, [Next]_vars, rows' # rows, NEW ip \in IPs,
                      Listed(ip), rows[ip].expires # Never,
                      Listed(ip)', rows'[ip].expires # Never
               PROVE  rows'[ip].expires >= rows[ip].expires
    OBVIOUS
  <2> USE NoRowAssumption, GreylistAssumption DEF Listed, TInv, TypeOK
  <2>0. rows[ip] \in Row /\ rows[ip].expires \in Nat
    BY DEF Row
  <2>1. ASSUME Upsert(Timer) PROVE rows'[ip].expires >= rows[ip].expires
    <3> DEFINE t == pass[Timer].cur
               exp == pass[Timer].exp
    <3>1. /\ t \in Trip /\ exp \in Nat /\ rows[ip].expires <= exp
          /\ rows' = [rows EXCEPT ![t.ip] = UpsertAuto(@, t.rule, exp)]
      BY <2>1 DEF Upsert, Pass, InFlight, Bounded, Writing
    <3>2. rows'[ip] = rows[ip] \/ rows'[ip].expires = exp
      BY <3>1, <2>0 DEF UpsertAuto, Row
    <3> QED BY <3>1, <3>2, <2>0
  <2>2. ASSUME ReleaseOperator(Timer) \/ Prune(Timer)
        PROVE  rows'[ip].expires >= rows[ip].expires
    <3>1. rows'[ip] \in {NoRow, rows[ip]}
      BY <2>2 DEF ReleaseOperator, Prune
    <3> QED BY <3>1, <2>0
  <2>3. ASSUME NEW a \in Admins, NEW i \in IPs,
               PinInTable(a, i) \/ ReleaseInTable(a, i)
        PROVE  rows'[ip].expires >= rows[ip].expires
    <3>1. rows'[ip] \in {NoRow, PinRow, rows[ip]}
      BY <2>3 DEF PinInTable, ReleaseInTable
    <3> QED BY <3>1, <2>0 DEF PinRow
  <2>4. \/ Upsert(Timer) \/ ReleaseOperator(Timer) \/ Prune(Timer)
        \/ \E a \in Admins, i \in IPs : PinInTable(a, i) \/ ReleaseInTable(a, i)
    BY DEF Next, vars, SweepStep, AdminStep, Begin, Consider, Verify,
           ReadAllowlist, ReadActive, Refresh, Abort, PinInSnapshot,
           ReleaseInSnapshot, Disconnect, SetPublicIps, Traffic, Tick, Crash
  <2> QED BY <2>1, <2>2, <2>3, <2>4
<1> QED BY <1>1, <1>2, BoundedStep, TypeStrong, PTL DEF Spec, SlidesForward

-----------------------------------------------------------------------------

(***************************************************************************)
(* The request log.  A row is right when its class is the one that the     *)
(* rules of this release give its agent, or says bot because the door had  *)
(* stopped the request; a run in flight accounts for the rows that are not.*)
(***************************************************************************)
Right(r) == r.bot = ClassOf(r.req.agent) \/ (r.req.tolled /\ r.bot = "bot")

IsEntry(r) == r \in [id : {r.id}, day : {r.day}, req : {r.req}, bot : {r.bot}, timed : {r.timed}]

IsRun(v) == v \in [on : {v.on}, left : {v.left}]

\* A run that is under way has the agents of all rows before it that it would
\* leave wrong.
LogInv ==
    /\ DOMAIN job = Jobs /\ \A j \in Jobs : IsRun(job[j])
    /\ \A s \in sending : s.bot = StampOf(s.req)
    /\ \A r \in logged : IsEntry(r)
    /\ \A j \in Jobs : job[j].on =>
         \A r \in logged : r.bot = "null" => r.req.agent \in job[j].left
    /\ job["recompute"].on =>
         \A r \in logged : r.req.agent \in job["recompute"].left \/ Right(r)
    /\ AudienceIsRight

LEMMA TwoClasses == \A a : ClassOf(a) \in {"bot", "human"}
BY DEF ClassOf

LEMMA Runs ==
    /\ IsRun(Finished) /\ ~Finished.on
    /\ \A as : IsRun(Begun(as)) /\ Begun(as).on /\ Begun(as).left = as
BY DEF IsRun, Finished, Begun

LEMMA LogStart == LogInit => LogInv
<1> SUFFICES ASSUME LogInit PROVE LogInv
  OBVIOUS
<1>1. PICK t \in Requests : logged \in {{}, {Legacy(1, t)}}
  BY DEF LogInit
<1>2. [t EXCEPT !.tolled = FALSE].tolled = FALSE
  <2>1. IsRequest(t)
    BY LogAssumption
  <2> QED BY <2>1 DEF IsRequest
<1>3. PICK q : q = [t EXCEPT !.tolled = FALSE]
  OBVIOUS
<1>4. \A r \in logged : r = [id |-> 1, day |-> 0, req |-> q, bot |-> "null", timed |-> FALSE]
  BY <1>1, <1>3 DEF Legacy
<1>5. \A r \in logged : IsEntry(r) /\ r.bot = "null" /\ ~r.req.tolled
  <2>1. SUFFICES ASSUME NEW r \in logged PROVE IsEntry(r) /\ r.bot = "null" /\ ~r.req.tolled
    OBVIOUS
  <2>2. r \in [id : {1}, day : {0}, req : {q}, bot : {"null"}, timed : {FALSE}]
    <3>1. r = [id |-> 1, day |-> 0, req |-> q, bot |-> "null", timed |-> FALSE]
      BY <1>4
    <3> QED BY <3>1
  <2> QED BY <2>2, <1>2, <1>3 DEF IsEntry
<1>6. /\ DOMAIN job = Jobs /\ sending = {} /\ ~settled /\ ~applied
      /\ job["backfill"] = Begun(Unset(logged)) /\ ~job["recompute"].on
  BY Runs DEF LogInit, Jobs
<1>7. \A r \in logged : r.bot = "null" => r.req.agent \in job["backfill"].left
  BY <1>6, Runs DEF Unset
<1>8. DOMAIN job = Jobs /\ \A j \in Jobs : IsRun(job[j])
  BY Runs DEF LogInit
<1> QED BY <1>5, <1>6, <1>7, <1>8 DEF LogInv, AudienceIsRight, Jobs

\* An insert brings a row that is right.
LEMMA Inserting == ASSUME LogInv, NEW s, InsertRow(s) PROVE LogInv'
<1>1. PICK new : new = [id |-> rowId', day |-> day, req |-> s.req, bot |-> s.bot, timed |-> TRUE]
  OBVIOUS
<1>2. /\ logged' = logged \cup {new} /\ sending' \subseteq sending /\ s \in sending
      /\ UNCHANGED <<rules, job, settled, applied, recomputed>>
  BY <1>1 DEF InsertRow
<1>3. IsEntry(new) /\ new.bot = StampOf(new.req)
  BY <1>1, <1>2 DEF LogInv, IsEntry
<1>4. Right(new) /\ new.bot # "null" /\ (new.req.tolled => new.bot = "bot")
  BY <1>3, TwoClasses DEF Right, StampOf
<1> QED BY <1>2, <1>3, <1>4 DEF LogInv, AudienceIsRight, Right, ClassOf, StampOf, IsEntry

\* Nothing of a row that stays changes.
LEMMA LogStands ==
    ASSUME LogInv, logged' \subseteq logged, UNCHANGED <<rules, settled, applied, recomputed>>,
           \A s \in sending' : s.bot = StampOf(s.req),
           DOMAIN job' = Jobs, \A j \in Jobs : job'[j] = job[j] \/ job'[j] = Finished
    PROVE  LogInv'
<1>1. "recompute" \in Jobs
  BY DEF Jobs
<1> QED BY <1>1, Runs DEF LogInv, AudienceIsRight, Right, ClassOf, StampOf, IsEntry

LEMMA RunBegins == ASSUME LogInv, Recompute PROVE LogInv'
<1>1. /\ UNCHANGED <<logged, sending, rules, settled, applied, recomputed>>
      /\ job' = [job EXCEPT !["recompute"] = Begun(EveryAgent(logged))]
  BY DEF Recompute, ToClassify
<1>2. /\ DOMAIN job' = Jobs /\ job'["backfill"] = job["backfill"]
      /\ job'["recompute"] = Begun(EveryAgent(logged))
  BY <1>1 DEF LogInv, Jobs
<1>3. \A r \in logged : r.req.agent \in job'["recompute"].left
  BY <1>2, Runs DEF EveryAgent
<1>4. \A j \in Jobs : IsRun(job'[j])
  BY <1>2, Runs DEF LogInv, Jobs
<1> QED BY <1>1, <1>2, <1>3, <1>4 DEF LogInv, AudienceIsRight, Right, ClassOf, StampOf, IsEntry, Jobs

\* One UPDATE of a run.
LEMMA Updating == ASSUME LogInv, NEW j \in Jobs, NEW a, Classify(j, a) PROVE LogInv'
<1> DEFINE touched == Touched(j, a)
           New(r) == [r EXCEPT !.bot = ClassOf(a)]
<1>1. /\ job[j].on /\ a \in job[j].left /\ job' = [job EXCEPT ![j].left = @ \ {a}]
      /\ logged' = (logged \ touched) \cup {New(r) : r \in touched}
      /\ recomputed' = IF j = "recompute" THEN recomputed \cup {r.id : r \in touched} ELSE recomputed
      /\ UNCHANGED <<sending, rules, settled, applied>>
  BY DEF Classify
<1>2. /\ DOMAIN job' = Jobs /\ \A k \in Jobs \ {j} : job'[k] = job[k]
      /\ job'[j].on = job[j].on /\ job'[j].left = job[j].left \ {a} /\ IsRun(job'[j])
  <2>1. PICK v, w : v = job[j] /\ w = [v EXCEPT !.left = @ \ {a}]
    OBVIOUS
  <2>2. IsRun(w) /\ w.on = v.on /\ w.left = v.left \ {a}
    BY <2>1 DEF LogInv, IsRun
  <2> QED BY <1>1, <2>1, <2>2 DEF LogInv
<1>3. ASSUME NEW r \in touched
      PROVE  /\ IsEntry(New(r)) /\ New(r).id = r.id /\ New(r).req = r.req /\ New(r).bot = ClassOf(a)
             /\ r.req.agent = a /\ (j = "backfill" => r.bot = "null") /\ r \in logged
  <2>1. r \in logged /\ r.req.agent = a /\ (j = "backfill" => r.bot = "null") /\ IsEntry(r)
    BY DEF Touched, LogInv
  <2>2. PICK b : b = ClassOf(a)
    OBVIOUS
  <2>3. PICK n : n = [r EXCEPT !.bot = b]
    OBVIOUS
  <2>4. IsEntry(n) /\ n.id = r.id /\ n.req = r.req /\ n.bot = b
    BY <2>1, <2>3 DEF IsEntry
  <2> QED BY <2>1, <2>2, <2>3, <2>4
<1>4. \A r \in logged' : \/ r \in logged /\ ~(r.req.agent = a /\ (j = "backfill" => r.bot = "null"))
                         \/ \E o \in touched : r = New(o)
  BY <1>1 DEF Touched
<1> HIDE DEF touched, New
<1>5. \A r \in logged' : IsEntry(r)
  BY <1>3, <1>4 DEF LogInv
<1>6. \A r \in logged' : r.bot = "null" => r \in logged /\ r.req.agent # a
  BY <1>3, <1>4, TwoClasses DEF Jobs
<1>7. \A k \in Jobs : job'[k].on =>
         \A r \in logged' : r.bot = "null" => r.req.agent \in job'[k].left
  BY <1>2, <1>6 DEF LogInv
<1>8. \A r \in logged' : (r \in logged /\ (j = "recompute" => r.req.agent # a)) \/ Right(r)
  BY <1>3, <1>4 DEF Right, Jobs
<1>9. job'["recompute"].on =>
         \A r \in logged' : r.req.agent \in job'["recompute"].left \/ Right(r)
  BY <1>2, <1>8 DEF LogInv, Jobs
<1>10. \A r \in logged' : r.req.tolled /\ r.bot # "bot" => r.id \in recomputed'
  <2>1. SUFFICES ASSUME NEW r \in logged', r.req.tolled, r.bot # "bot" PROVE r.id \in recomputed'
    OBVIOUS
  <2>2. CASE r \in logged
    BY <2>1, <2>2, <1>1 DEF LogInv, AudienceIsRight
  <2>3. CASE \E o \in touched : r = New(o)
    <3>1. PICK o \in touched : r = New(o)
      BY <2>3
    <3>2. o \in logged /\ r.id = o.id /\ o.req.tolled /\ (j = "backfill" => o.bot = "null")
      BY <3>1, <1>3, <2>1
    <3>3. CASE j = "backfill"
      BY <3>2, <3>3, <1>1 DEF LogInv, AudienceIsRight
    <3>4. CASE j = "recompute"
      BY <3>1, <3>2, <3>4, <1>1
    <3> QED BY <3>3, <3>4 DEF Jobs
  <2> QED BY <2>2, <2>3, <1>4
<1>11. settled' => \A r \in logged' : r.bot # "null"
  BY <1>1, <1>6 DEF LogInv, AudienceIsRight
<1>12. applied' => \A r \in logged' : Right(r)
  BY <1>1, <1>8 DEF LogInv, AudienceIsRight, Right
<1>13. UNCHANGED rules
  BY <1>1
<1>14. \A r : Right(r)' <=> Right(r)
  BY <1>13 DEF Right, ClassOf
<1>15. \A s \in sending' : s.bot = StampOf(s.req)'
  BY <1>1 DEF LogInv, StampOf, ClassOf
<1>16. AudienceIsRight'
  BY <1>10, <1>11, <1>12, <1>13 DEF AudienceIsRight, Right, ClassOf
<1>17. \A k \in Jobs : IsRun(job'[k])
  BY <1>2 DEF LogInv
<1> QED BY <1>2, <1>5, <1>7, <1>9, <1>14, <1>15, <1>16, <1>17 DEF LogInv, IsEntry

\* A run that has no agent left has left no row wrong.
LEMMA RunEnds == ASSUME LogInv, NEW j \in Jobs, Classified(j) PROVE LogInv'
<1>1. /\ job[j].on /\ job[j].left = {} /\ job' = [job EXCEPT ![j] = Finished]
      /\ settled' = TRUE /\ applied' = (applied \/ j = "recompute")
      /\ UNCHANGED <<logged, sending, rules, recomputed>>
  BY Runs DEF Classified
<1>2. /\ DOMAIN job' = Jobs /\ \A k \in Jobs \ {j} : job'[k] = job[k]
      /\ ~job'[j].on /\ IsRun(job'[j])
  BY <1>1, Runs DEF LogInv
<1>3. \A r \in logged : r.bot # "null"
  BY <1>1 DEF LogInv
<1>4. applied' => \A r \in logged : Right(r)
  BY <1>1 DEF LogInv, AudienceIsRight, Right
<1> QED BY <1>1, <1>2, <1>3, <1>4 DEF LogInv, AudienceIsRight, Right, ClassOf, StampOf, IsEntry, Jobs

LEMMA Releasing == ASSUME LogInv, Deploy PROVE LogInv'
<1>1. /\ sending' = {} /\ ~settled' /\ ~applied' /\ UNCHANGED <<logged, recomputed>>
      /\ DOMAIN job' = Jobs /\ job'["backfill"] = Begun(Unset(logged)) /\ ~job'["recompute"].on
      /\ \A j \in Jobs : IsRun(job'[j])
  BY Runs DEF Deploy, ToClassify, Jobs
<1>2. \A r \in logged : r.bot = "null" => r.req.agent \in job'["backfill"].left
  BY <1>1, Runs DEF Unset
<1> QED BY <1>1, <1>2 DEF LogInv, AudienceIsRight, IsEntry, Jobs

THEOREM LogAlwaysHolds == LogSpec => []LogInv
<1>1. LogInv /\ [LogNext]_logVars => LogInv'
  <2> SUFFICES ASSUME LogInv, [LogNext]_logVars PROVE LogInv'
    OBVIOUS
  <2>1. CASE UNCHANGED logVars
    <3>1. UNCHANGED <<logged, sending, rules, job, settled, applied, recomputed>>
      BY <2>1 DEF logVars
    <3> QED BY <3>1 DEF LogInv, AudienceIsRight, Right, ClassOf, StampOf, IsEntry
  <2>2. ASSUME NEW t \in Requests, LogRequest(t) PROVE LogInv'
    <3>1. PICK s : s = [req |-> t, bot |-> StampOf(t)]
      OBVIOUS
    <3>2. s.bot = StampOf(s.req) /\ sending' = sending \cup {s}
      BY <3>1, <2>2 DEF LogRequest
    <3> QED BY <3>2, <2>2, LogStands DEF LogRequest, LogInv
  <2>3. ASSUME NEW s \in sending, DropRow(s) PROVE LogInv'
    BY <2>3, LogStands DEF DropRow, LogInv
  <2>4. ASSUME NEW j \in Jobs, Aborted(j) PROVE LogInv'
    BY <2>4, LogStands DEF Aborted, LogInv, Finished
  <2>5. CASE PruneLog
    BY <2>5, LogStands DEF PruneLog, LogInv
  <2>6. CASE NextDay
    BY <2>6, LogStands DEF NextDay, LogInv
  <2> QED BY <2>1, <2>2, <2>3, <2>4, <2>5, <2>6, Inserting, RunBegins, Updating, RunEnds,
             Releasing DEF LogNext
<1> QED BY LogStart, <1>1, PTL DEF LogSpec

\* The audience of every row is right for any requests, rules and releases.
THEOREM AudienceAlwaysRight == LogSpec => []AudienceIsRight
<1>1. LogInv => AudienceIsRight
  BY DEF LogInv
<1> QED BY <1>1, LogAlwaysHolds, PTL

-----------------------------------------------------------------------------

(***************************************************************************)
(* Counting.                                                               *)
(***************************************************************************)

LEMMA LeastNumber ==
    ASSUME NEW S, S \subseteq Nat, S # {}
    PROVE  \E m \in S : \A k \in S : m <= k
<1>1. IsWellFoundedOn(OpToRel(<, Nat), Nat)
  BY NatLessThanWellFounded
<1>2. PICK m \in S : \A k \in S : ~ (<<k, m>> \in OpToRel(<, Nat))
  BY <1>1, WFMin, Zenon
<1>3. \A k \in S : ~ (k < m)
  BY <1>2 DEF OpToRel
<1> QED BY <1>3

\* What is true at 0, and next to where it is, is true of every number.
LEMMA Climbs ==
    ASSUME NEW T, 0 \in T, \A n \in Nat : n > 0 /\ n - 1 \in T => n \in T
    PROVE  \A n \in Nat : n \in T
<1> SUFFICES ASSUME \E n \in Nat : n \notin T PROVE FALSE
  OBVIOUS
<1> DEFINE Bad == {n \in Nat : n \notin T}
<1>1. PICK n \in Bad : \A k \in Bad : n <= k
  <2>1. Bad \subseteq Nat /\ Bad # {}
    OBVIOUS
  <2> HIDE DEF Bad
  <2> QED BY <2>1, LeastNumber
<1>2. n > 0 /\ n - 1 \in Nat /\ ~(n <= n - 1)
  OBVIOUS
<1>3. n - 1 \in T
  BY <1>1, <1>2
<1> QED BY <1>2, <1>3

\* Finitely many numbers have a least and a greatest.
LEMMA FiniteBounds ==
    ASSUME NEW S, S \subseteq Nat, S # {}, IsFiniteSet(S)
    PROVE  /\ Min(S) \in S /\ \A x \in S : Min(S) <= x
           /\ Max(S) \in S /\ \A x \in S : x <= Max(S)
<1> DEFINE Tall(n) == \A s \in SUBSET S :
             Cardinality(s) = n /\ s # {} => \E m \in s : \A x \in s : x <= m
           T == {n \in Nat : Tall(n)}
<1>1. 0 \in T
  <2>1. \A s \in SUBSET S : Cardinality(s) = 0 => s = {}
    BY FS_Subset, FS_EmptySet
  <2> QED BY <2>1
<1>2. ASSUME NEW n \in Nat, n > 0, Tall(n - 1) PROVE Tall(n)
  <2> SUFFICES ASSUME NEW s \in SUBSET S, Cardinality(s) = n, NEW a \in s
               PROVE  \E m \in s : \A x \in s : x <= m
    OBVIOUS
  <2> DEFINE r == s \ {a}
  <2>1. Cardinality(r) = n - 1 /\ r \in SUBSET S
    BY FS_Subset, FS_RemoveElement
  <2>2. CASE r = {}
    BY <2>2
  <2>3. CASE r # {}
    <3>1. PICK m \in r : \A x \in r : x <= m
      BY <1>2, <2>1, <2>3
    <3>2. PICK k : k = IF a <= m THEN m ELSE a
      OBVIOUS
    <3>3. k \in s /\ \A x \in s : x = a \/ x \in r
      BY <3>2
    <3>4. \A x \in s : x <= k
      BY <3>1, <3>2, <3>3
    <3> QED BY <3>3, <3>4
  <2> QED BY <2>2, <2>3
<1>3. \A n \in Nat : n > 0 /\ n - 1 \in T => n \in T
  <2> SUFFICES ASSUME NEW n \in Nat, n > 0, n - 1 \in T PROVE Tall(n)
    OBVIOUS
  <2> HIDE DEF Tall
  <2> QED BY <1>2
<1>4. Cardinality(S) \in T
  <2>1. Cardinality(S) \in Nat
    BY FS_CardinalityType
  <2> HIDE DEF T
  <2> QED BY <1>1, <1>3, <2>1, Climbs
<1>5. \E m \in S : \A x \in S : x <= m
  BY <1>4
<1>6. \E m \in S : \A x \in S : m <= x
  BY LeastNumber
<1>7. Max(S) \in S /\ \A x \in S : x <= Max(S)
  BY <1>5 DEF Max
<1>8. Min(S) \in S /\ \A x \in S : Min(S) <= x
  BY <1>6 DEF Min
<1> QED BY <1>7, <1>8

\* A function adds up what another counts of each key: then its sum over some
\* keys is the number of all that have one of these keys.
Counts(f, S, rs, key) ==
    \A k \in S : f[k] = Cardinality({r \in rs : key[r] = k})

With(rs, key, s) == {r \in rs : key[r] \in s}

\* How MapThenSumSet goes through a set.
Adds(g, f, S) ==
    g = [s \in SUBSET S |-> IF s = {} THEN 0
                            ELSE f[CHOOSE x \in s : TRUE] + g[s \ {CHOOSE x \in s : TRUE}]]

LEMMA SumOverIs ==
    ASSUME NEW f, NEW S
    PROVE  SumOver(f, S) = (CHOOSE sum : Adds(sum, f, S))[S]
BY DEF SumOver, MapThenSumSet, MapThenFoldSet, Adds

LEMMA GroupSum ==
    ASSUME NEW rs, IsFiniteSet(rs), NEW key, NEW S, IsFiniteSet(S), NEW f, Counts(f, S, rs, key)
    PROVE  SumOver(f, S) = Cardinality(With(rs, key, S))
<1> DEFINE h == [s \in SUBSET S |-> Cardinality(With(rs, key, s))]
           x(s) == CHOOSE y \in s : TRUE
<1>0. With(rs, key, {}) = {} /\ \A s : IsFiniteSet(With(rs, key, s))
  BY FS_Subset DEF With
<1>1. ASSUME NEW s \in SUBSET S, s # {}
      PROVE  h[s] = f[x(s)] + h[s \ {x(s)}] /\ f[x(s)] \in Nat /\ h[s] \in Nat
  <2>1. PICK y : y = x(s)
    OBVIOUS
  <2>2. y \in s
    BY <1>1, <2>1
  <2>3. f[y] = Cardinality(With(rs, key, {y}))
    <3>1. With(rs, key, {y}) = {r \in rs : key[r] = y}
      BY DEF With
    <3> QED BY <3>1, <2>2 DEF Counts
  <2>4. /\ With(rs, key, s) = With(rs, key, {y}) \cup With(rs, key, s \ {y})
        /\ With(rs, key, {y}) \cap With(rs, key, s \ {y}) = {}
    BY <2>2 DEF With
  <2>5. /\ Cardinality(With(rs, key, {y})) \in Nat
        /\ Cardinality(With(rs, key, s \ {y})) \in Nat
        /\ Cardinality({}) = 0
    BY <1>0, FS_CardinalityType, FS_EmptySet
  <2>6. Cardinality(With(rs, key, s)) =
          Cardinality(With(rs, key, {y})) + Cardinality(With(rs, key, s \ {y}))
    <3>1. PICK A, B : A = With(rs, key, {y}) /\ B = With(rs, key, s \ {y})
      OBVIOUS
    <3>2. Cardinality(A \cup B) = Cardinality(A) + Cardinality(B) - Cardinality(A \cap B)
      BY <1>0, <3>1, FS_Union
    <3>3. A \cup B = With(rs, key, s) /\ A \cap B = {}
      BY <2>4, <3>1
    <3>4. Cardinality(A \cap B) = 0
      BY <3>3, <2>5
    <3>5. Cardinality(With(rs, key, s)) = Cardinality(A \cup B)
      BY <3>3
    <3>6. Cardinality(A) \in Nat /\ Cardinality(B) \in Nat
      BY <3>1, <2>5
    <3>7. Cardinality(With(rs, key, s)) = Cardinality(A) + Cardinality(B)
      BY <3>2, <3>4, <3>5, <3>6
    <3> QED BY <3>1, <3>7
  <2>7. s \ {y} \in SUBSET S
    OBVIOUS
  <2> HIDE DEF x
  <2> QED BY <2>1, <2>3, <2>5, <2>6, <2>7
<1>2. Adds(h, f, S)
  <2>1. \A s \in SUBSET S :
          h[s] = IF s = {} THEN 0 ELSE f[x(s)] + h[s \ {x(s)}]
    <3>1. h[{}] = 0
      BY <1>0, FS_EmptySet
    <3> HIDE DEF h, x
    <3> QED BY <1>1, <3>1
  <2>2. h = [s \in SUBSET S |-> h[s]]
    OBVIOUS
  <2> HIDE DEF h
  <2>3. h = [s \in SUBSET S |-> IF s = {} THEN 0 ELSE f[x(s)] + h[s \ {x(s)}]]
    BY <2>1, <2>2
  <2> QED BY <2>3 DEF Adds
<1>3. PICK g : g = CHOOSE sum : Adds(sum, f, S)
  OBVIOUS
<1>4. Adds(g, f, S)
  <2> HIDE DEF h
  <2> QED BY <1>2, <1>3
<1>5. /\ g[{}] = 0
      /\ \A s \in SUBSET S : s # {} => g[s] = f[x(s)] + g[s \ {x(s)}]
  <2> DEFINE G == [s \in SUBSET S |-> IF s = {} THEN 0 ELSE f[x(s)] + g[s \ {x(s)}]]
  <2>1. g = G
    BY <1>4 DEF Adds
  <2>2. \A s \in SUBSET S : G[s] = IF s = {} THEN 0 ELSE f[x(s)] + g[s \ {x(s)}]
    OBVIOUS
  <2>3. {} \in SUBSET S
    OBVIOUS
  <2> HIDE DEF G
  <2> QED BY <2>1, <2>2, <2>3
<1> DEFINE Same(n) == \A s \in SUBSET S : Cardinality(s) = n => g[s] = h[s]
           T == {n \in Nat : Same(n)}
<1>6. Same(0)
  <2>1. \A s \in SUBSET S : Cardinality(s) = 0 => s = {}
    BY FS_Subset, FS_EmptySet
  <2>2. h[{}] = 0
    BY <1>0, FS_EmptySet
  <2> HIDE DEF h
  <2> QED BY <1>5, <2>1, <2>2
<1>7. ASSUME NEW n \in Nat, n > 0, Same(n - 1) PROVE Same(n)
  <2> SUFFICES ASSUME NEW s \in SUBSET S, Cardinality(s) = n PROVE g[s] = h[s]
    OBVIOUS
  <2>1. s # {}
    <3>1. Cardinality({}) # n
      BY <1>7, FS_EmptySet
    <3> QED BY <3>1
  <2>2. x(s) \in s
    BY <2>1
  <2>3. s \ {x(s)} \in SUBSET S /\ Cardinality(s \ {x(s)}) = n - 1
    BY <2>2, FS_Subset, FS_RemoveElement
  <2> HIDE DEF h, x
  <2> QED BY <1>1, <1>5, <1>7, <2>1, <2>3
<1>8. Cardinality(S) \in T
  <2>1. 0 \in T
    BY <1>6
  <2>2. \A n \in Nat : n > 0 /\ n - 1 \in T => n \in T
    <3> SUFFICES ASSUME NEW n \in Nat, n > 0, n - 1 \in T PROVE Same(n)
      OBVIOUS
    <3> HIDE DEF Same
    <3> QED BY <1>7
  <2>3. Cardinality(S) \in Nat
    BY FS_CardinalityType
  <2> HIDE DEF T
  <2> QED BY <2>1, <2>2, <2>3, Climbs
<1>9. g[S] = h[S]
  BY <1>8
<1> QED BY <1>3, <1>9, SumOverIs

-----------------------------------------------------------------------------

\* There are no more keys than what has them.
LEMMA ImageBound ==
    ASSUME NEW rs, IsFiniteSet(rs), NEW key
    PROVE  /\ IsFiniteSet({key[r] : r \in rs})
           /\ Cardinality({key[r] : r \in rs}) <= Cardinality(rs)
<1> DEFINE D == {key[r] : r \in rs}
           g == [r \in rs |-> key[r]]
<1>1. g \in Surjection(rs, D)
  BY DEF Surjection
<1> HIDE DEF D, g
<1>2. IsFiniteSet(D) /\ Cardinality(D) <= Cardinality(rs)
  BY <1>1, FS_Surjection
<1> QED BY <1>2 DEF D

\* A report that has a row for each key that occurs, and adds up what it counts.
LEMMA GroupedSum ==
    ASSUME NEW rs, IsFiniteSet(rs), NEW key, NEW f,
           DOMAIN f = {key[r] : r \in rs}, Counts(f, DOMAIN f, rs, key)
    PROVE  /\ Sum(f) = Cardinality(rs)
           /\ \A S \in SUBSET DOMAIN f : SumOver(f, S) = Cardinality(With(rs, key, S))
<1>1. IsFiniteSet(DOMAIN f)
  BY ImageBound
<1>2. ASSUME NEW S \in SUBSET DOMAIN f PROVE SumOver(f, S) = Cardinality(With(rs, key, S))
  <2>1. IsFiniteSet(S)
    BY <1>1, FS_Subset
  <2>2. Counts(f, S, rs, key)
    BY DEF Counts
  <2> QED BY <2>1, <2>2, GroupSum
<1>3. With(rs, key, DOMAIN f) = rs
  BY DEF With
<1>4. Sum(f) = Cardinality(With(rs, key, DOMAIN f))
  BY <1>2 DEF Sum
<1> QED BY <1>2, <1>3, <1>4

-----------------------------------------------------------------------------

(***************************************************************************)
(* What the rows are.                                                      *)
(***************************************************************************)
IsRow(r) == IsRequest(r.req) /\ r.day \in Nat /\ r.bot \in {"null", "human", "bot"}

LogTyped ==
    /\ day \in Nat /\ IsFiniteSet(logged)
    /\ \A s \in sending : IsRequest(s.req)
    /\ \A r \in logged : IsRow(r)

LEMMA TypedStart == LogInit => LogTyped
<1> SUFFICES ASSUME LogInit PROVE LogTyped
  OBVIOUS
<1>1. PICK t \in Requests : logged \in {{}, {Legacy(1, t)}}
  BY DEF LogInit
<1>2. PICK q : q = [t EXCEPT !.tolled = FALSE]
  OBVIOUS
<1>3. IsRequest(q)
  <2>1. IsRequest(t)
    BY LogAssumption
  <2>2. q \in [addr : {t.addr}, path : {t.path}, status : 200 .. 599, agent : {t.agent},
              referer : {"direct", "external", "noise", "internal"}, tolled : BOOLEAN, ms : Nat]
    BY <1>2, <2>1 DEF IsRequest
  <2>3. q.addr = t.addr /\ q.path = t.path /\ q.agent = t.agent
    BY <2>2
  <2> QED BY <2>2, <2>3 DEF IsRequest
<1>4. PICK r : r = [id |-> 1, day |-> 0, req |-> q, bot |-> "null", timed |-> FALSE]
  OBVIOUS
<1>5. logged \in {{}, {r}}
  BY <1>1, <1>2, <1>4 DEF Legacy
<1>6. IsRow(r)
  BY <1>3, <1>4 DEF IsRow
<1>7. IsFiniteSet(logged)
  <2>1. IsFiniteSet({r}) /\ IsFiniteSet({})
    BY FS_EmptySet, FS_Singleton
  <2> QED BY <1>5, <2>1
<1> QED BY <1>5, <1>6, <1>7 DEF LogTyped, LogInit

LEMMA TypedStep == LogInv /\ LogTyped /\ [LogNext]_logVars => LogTyped'
<1> SUFFICES ASSUME LogInv, LogTyped, [LogNext]_logVars PROVE LogTyped'
  OBVIOUS
<1>1. ASSUME logged' \subseteq logged, day' \in Nat, sending' \subseteq sending PROVE LogTyped'
  <2>1. IsFiniteSet(logged')
    BY <1>1, FS_Subset DEF LogTyped
  <2> QED BY <1>1, <2>1 DEF LogTyped, IsRow, IsRequest
<1>2. CASE UNCHANGED logVars
  <2>1. UNCHANGED <<logged, day, sending>>
    BY <1>2 DEF logVars
  <2> QED BY <2>1, <1>1 DEF LogTyped
<1>3. ASSUME NEW t \in Requests, LogRequest(t) PROVE LogTyped'
  <2>1. PICK s : s = [req |-> t, bot |-> StampOf(t)]
    OBVIOUS
  <2>2. sending' = sending \cup {s} /\ UNCHANGED <<logged, day>> /\ IsRequest(s.req)
    BY <1>3, <2>1, LogAssumption DEF LogRequest
  <2> QED BY <2>2 DEF LogTyped, IsRow, IsRequest
<1>4. ASSUME NEW s \in sending, InsertRow(s) PROVE LogTyped'
  <2>1. PICK new : new = [id |-> rowId', day |-> day, req |-> s.req, bot |-> s.bot, timed |-> TRUE]
    OBVIOUS
  <2>2. logged' = logged \cup {new} /\ sending' \subseteq sending /\ day' = day
    BY <1>4, <2>1 DEF InsertRow
  <2>3. s.bot \in {"human", "bot"}
    BY TwoClasses DEF LogInv, StampOf
  <2>4. IsRow(new)
    BY <2>1, <2>3 DEF IsRow, LogTyped
  <2>5. IsFiniteSet(logged')
    BY <2>2, FS_AddElement DEF LogTyped
  <2> QED BY <2>2, <2>4, <2>5 DEF LogTyped, IsRow, IsRequest
<1>5. ASSUME NEW j \in Jobs, NEW a, Classify(j, a) PROVE LogTyped'
  <2> DEFINE touched == Touched(j, a)
  <2>1. PICK b : b = ClassOf(a)
    OBVIOUS
  <2>2. PICK new : new = [r \in touched |-> [r EXCEPT !.bot = b]]
    OBVIOUS
  <2>3. /\ logged' = (logged \ touched) \cup {new[r] : r \in touched}
        /\ UNCHANGED <<sending, day>> /\ touched \subseteq logged
    BY <1>5, <2>1, <2>2 DEF Classify, Touched
  <2>4. ASSUME NEW r \in touched PROVE IsRow(new[r])
    <3>1. IsEntry(r) /\ IsRow(r)
      BY <2>3 DEF LogInv, LogTyped
    <3>2. PICK n : n = [r EXCEPT !.bot = b]
      OBVIOUS
    <3>3. n.req = r.req /\ n.day = r.day /\ n.bot = b
      BY <3>1, <3>2 DEF IsEntry
    <3>4. new[r] = n
      BY <2>2, <3>2
    <3> QED BY <3>1, <3>3, <3>4, <2>1, TwoClasses DEF IsRow
  <2> HIDE DEF touched
  <2>5. IsFiniteSet(touched) /\ IsFiniteSet(logged \ touched)
    BY <2>3, FS_Subset DEF LogTyped
  <2>6. IsFiniteSet({new[r] : r \in touched})
    BY <2>5, ImageBound
  <2>7. IsFiniteSet(logged')
    BY <2>3, <2>5, <2>6, FS_Union
  <2> QED BY <2>3, <2>4, <2>7 DEF LogTyped, IsRow, IsRequest
<1>6. ASSUME NEW s \in sending, DropRow(s) PROVE LogTyped'
  BY <1>6, <1>1 DEF DropRow, LogTyped
<1>7. ASSUME NEW j \in Jobs, Classified(j) \/ Aborted(j) PROVE LogTyped'
  BY <1>7, <1>1 DEF Classified, Aborted, LogTyped
<1>8. CASE PruneLog
  BY <1>8, <1>1 DEF PruneLog, LogTyped
<1>9. CASE Recompute
  BY <1>9, <1>1 DEF Recompute, LogTyped
<1>10. CASE NextDay
  BY <1>10, <1>1 DEF NextDay, LogTyped
<1>11. CASE Deploy
  BY <1>11, <1>1 DEF Deploy, LogTyped
<1> QED BY <1>2, <1>3, <1>4, <1>5, <1>6, <1>7, <1>8, <1>9, <1>10, <1>11 DEF LogNext

\* A part of the log is finite, and its rows are rows.
LEMMA PartIs ==
    ASSUME LogTyped, NEW rs \in SUBSET logged
    PROVE  IsFiniteSet(rs) /\ Cardinality(rs) \in Nat /\ \A r \in rs : IsRow(r)
<1>1. IsFiniteSet(rs)
  BY FS_Subset DEF LogTyped
<1> QED BY <1>1, FS_CardinalityType DEF LogTyped

-----------------------------------------------------------------------------

(***************************************************************************)
(* The reports, on the rows `rs` that each of them reads.                  *)
(***************************************************************************)

LEMMA WindowIs ==
    ASSUME NEW w, NEW au
    PROVE  InWindow(w) \in SUBSET logged /\ Of(au, InWindow(w)) \in SUBSET logged
BY DEF InWindow, Of

\* Counted by the day, with or without the days on which nothing was.
LEMMA DaysAddUp ==
    ASSUME LogTyped, NEW rs \in SUBSET logged, NEW f,
           f = [k \in {r.day : r \in rs} |-> Cardinality({r \in rs : r.day = k})]
    PROVE  /\ Sum(f) = Cardinality(rs)
           /\ DOMAIN f = {r.day : r \in rs} /\ IsFiniteSet(DOMAIN f) /\ DOMAIN f \subseteq Nat
           /\ \A axis : IsFiniteSet(axis) /\ DOMAIN f \subseteq axis =>
                Sum(Filled(f, axis)) = Cardinality(rs)
<1> DEFINE key == [r \in rs |-> r.day]
<1>1. IsFiniteSet(rs) /\ \A r \in rs : IsRow(r)
  BY PartIs
<1>2. /\ DOMAIN f = {r.day : r \in rs} /\ {r.day : r \in rs} = {key[r] : r \in rs}
      /\ \A r \in rs : key[r] = r.day
  OBVIOUS
<1>3. \A k \in DOMAIN f : f[k] = Cardinality({r \in rs : r.day = k})
  OBVIOUS
<1>4. \A k : {r \in rs : r.day = k} = {r \in rs : key[r] = k}
  OBVIOUS
<1> HIDE DEF key
<1>5. Counts(f, DOMAIN f, rs, key)
  BY <1>3, <1>4 DEF Counts
<1>6. Sum(f) = Cardinality(rs)
  BY <1>1, <1>2, <1>5, GroupedSum
<1>7. IsFiniteSet(DOMAIN f)
  BY <1>1, <1>2, ImageBound
<1>8. DOMAIN f \subseteq Nat
  BY <1>1, <1>2 DEF IsRow
<1>9. ASSUME NEW axis, IsFiniteSet(axis), DOMAIN f \subseteq axis
      PROVE  Sum(Filled(f, axis)) = Cardinality(rs)
  <2>1. PICK g : g = Filled(f, axis)
    OBVIOUS
  <2>2. DOMAIN g = axis /\ \A d \in axis : g[d] = IF d \in DOMAIN f THEN f[d] ELSE 0
    BY <2>1 DEF Filled
  <2>3. ASSUME NEW d \in axis PROVE g[d] = Cardinality({r \in rs : key[r] = d})
    <3>1. CASE d \in DOMAIN f
      BY <3>1, <2>2, <1>5 DEF Counts
    <3>2. CASE d \notin DOMAIN f
      <4>1. {r \in rs : key[r] = d} = {}
        BY <1>2, <3>2
      <4> QED BY <4>1, <2>2, <3>2, FS_EmptySet
    <3> QED BY <3>1, <3>2
  <2>4. Counts(g, axis, rs, key)
    BY <2>3 DEF Counts
  <2>5. SumOver(g, axis) = Cardinality(With(rs, key, axis))
    BY <1>1, <1>9, <2>4, GroupSum
  <2>6. With(rs, key, axis) = rs
    BY <1>2, <1>9 DEF With
  <2> QED BY <2>1, <2>2, <2>5, <2>6 DEF Sum
<1> QED BY <1>2, <1>6, <1>7, <1>8, <1>9

\* The addresses of the days together are at least the addresses of all.
LEMMA UniqueAddUp ==
    ASSUME LogTyped, NEW rs \in SUBSET logged, NEW f,
           f = [d \in {r.day : r \in rs} |-> Cardinality(Addrs({r \in rs : r.day = d}))],
           NEW axis, IsFiniteSet(axis), {r.day : r \in rs} \subseteq axis
    PROVE  Cardinality(Addrs(rs)) <= Sum(Filled(f, axis))
<1> DEFINE tag == [r \in rs |-> <<r.day, r.req.addr>>]
           ps == {tag[r] : r \in rs}
           key == [p \in ps |-> p[1]]
           addr == [p \in ps |-> p[2]]
           Day(d) == {r \in rs : r.day = d}
<1>1. IsFiniteSet(rs)
  BY PartIs
<1>2. IsFiniteSet(ps)
  <2> HIDE DEF tag
  <2> QED BY <1>1, ImageBound
<1>3. ASSUME NEW d
      PROVE  Cardinality(Addrs(Day(d))) = Cardinality({p \in ps : key[p] = d})
  <2> DEFINE A == Addrs(Day(d))
             B == {p \in ps : key[p] = d}
             g == [a \in A |-> <<d, a>>]
  <2>1. A = {r.req.addr : r \in Day(d)}
    BY DEF Addrs
  <2>2. ASSUME NEW a \in A PROVE <<d, a>> \in B
    <3>1. PICK r \in rs : r.day = d /\ r.req.addr = a
      BY <2>1
    <3>2. tag[r] = <<d, a>>
      BY <3>1
    <3>3. <<d, a>> \in ps
      BY <3>2
    <3> QED BY <3>3
  <2>3. ASSUME NEW p \in B PROVE \E a \in A : p = <<d, a>>
    <3>1. PICK r \in rs : p = <<r.day, r.req.addr>>
      OBVIOUS
    <3>2. r.day = d
      BY <3>1
    <3>3. r.req.addr \in A
      BY <2>1, <3>2
    <3> QED BY <3>1, <3>2, <3>3
  <2>4. IsFiniteSet(B)
    BY <1>2, FS_Subset
  <2> HIDE DEF A, B
  <2>5. g \in Bijection(A, B)
    <3>1. g \in [A -> B]
      BY <2>2
    <3>2. g \in Injection(A, B)
      BY <3>1 DEF Injection, IsInjective
    <3>3. g \in Surjection(A, B)
      BY <3>1, <2>3 DEF Surjection
    <3> QED BY <3>2, <3>3 DEF Bijection
  <2>6. Cardinality(A) = Cardinality(B)
    <3> HIDE DEF g
    <3>1. g \in Injection(A, B) /\ g \in Surjection(A, B)
      BY <2>5 DEF Bijection
    <3> QED BY <2>4, <3>1, FS_Injection
  <2> QED BY <2>6 DEF A, B
<1>4. PICK g : g = Filled(f, axis)
  OBVIOUS
<1>5. DOMAIN g = axis /\ \A d \in axis : g[d] = IF d \in DOMAIN f THEN f[d] ELSE 0
  BY <1>4 DEF Filled
<1>6. DOMAIN f = {r.day : r \in rs} /\ \A d \in DOMAIN f : f[d] = Cardinality(Addrs(Day(d)))
  OBVIOUS
<1>7. \A p \in ps : key[p] \in axis
  OBVIOUS
<1>8. ASSUME NEW d \in axis PROVE g[d] = Cardinality({p \in ps : key[p] = d})
  <2>1. CASE d \in DOMAIN f
    BY <2>1, <1>3, <1>5, <1>6
  <2>2. CASE d \notin DOMAIN f
    <3>1. {p \in ps : key[p] = d} = {}
      BY <1>6, <2>2
    <3> HIDE DEF ps, key
    <3> QED BY <3>1, <2>2, <1>5, FS_EmptySet
  <2> QED BY <2>1, <2>2
<1>9. Addrs(rs) = {addr[p] : p \in ps}
  <2>1. \A r \in rs : tag[r] \in ps /\ addr[tag[r]] = r.req.addr
    OBVIOUS
  <2>2. \A p \in ps : \E r \in rs : p = tag[r]
    OBVIOUS
  <2> HIDE DEF tag, ps, addr
  <2> QED BY <2>1, <2>2 DEF Addrs
<1> HIDE DEF ps, key, addr
<1>10. Counts(g, axis, ps, key)
  BY <1>8 DEF Counts
<1>11. SumOver(g, axis) = Cardinality(With(ps, key, axis))
  BY <1>2, <1>10, GroupSum
<1>12. With(ps, key, axis) = ps
  BY <1>7 DEF With
<1>13. Cardinality(Addrs(rs)) <= Cardinality(ps)
  BY <1>2, <1>9, ImageBound
<1> QED BY <1>4, <1>5, <1>11, <1>12, <1>13 DEF Sum

LEMMA SeriesAddUp ==
    ASSUME LogTyped, NEW w, NEW au
    PROVE  LET series == TimeSeries(w, au)
           IN  /\ Sum(CountByDay(w, au)) = CountSince(w, au)
               /\ Sum(series.total) = CountSince(w, au)
               /\ DistinctIpCount(w, au) <= Sum(series.unique)
               /\ Sum(series.tolls) = CountSince(w, "challenged")
<1>1. PICK rs, ch : rs = Of(au, InWindow(w)) /\ ch = Of("challenged", InWindow(w))
  OBVIOUS
<1>2. rs \in SUBSET logged /\ ch \in SUBSET logged
  BY <1>1, WindowIs
<1>3. PICK f, c, u : f = CountByDay(w, au) /\ c = CountByDay(w, "challenged")
                     /\ u = DistinctIpByDay(w, au)
  OBVIOUS
<1>4. /\ f = [k \in {r.day : r \in rs} |-> Cardinality({r \in rs : r.day = k})]
      /\ c = [k \in {r.day : r \in ch} |-> Cardinality({r \in ch : r.day = k})]
      /\ u = [d \in {r.day : r \in rs} |-> Cardinality(Addrs({r \in rs : r.day = d}))]
  BY <1>1, <1>3 DEF CountByDay, CountBy, DistinctIpByDay
<1> DEFINE present == DOMAIN f \cup DOMAIN c
           axis == IF present = {} THEN {} ELSE Min(present) .. Max(present)
<1>5. /\ Sum(f) = Cardinality(rs)
      /\ DOMAIN f = {r.day : r \in rs} /\ IsFiniteSet(DOMAIN f) /\ DOMAIN f \subseteq Nat
      /\ \A ax : IsFiniteSet(ax) /\ DOMAIN f \subseteq ax =>
                Sum(Filled(f, ax)) = Cardinality(rs)
  BY <1>2, <1>4, DaysAddUp
<1>6. /\ DOMAIN c = {r.day : r \in ch} /\ IsFiniteSet(DOMAIN c) /\ DOMAIN c \subseteq Nat
      /\ \A ax : IsFiniteSet(ax) /\ DOMAIN c \subseteq ax =>
                Sum(Filled(c, ax)) = Cardinality(ch)
  BY <1>2, <1>4, DaysAddUp
<1>7. IsFiniteSet(axis) /\ DOMAIN f \subseteq axis /\ DOMAIN c \subseteq axis
  <2>1. IsFiniteSet(present) /\ present \subseteq Nat
    BY <1>5, <1>6, FS_Union
  <2>2. CASE present = {}
    BY <2>2, FS_EmptySet
  <2>3. CASE present # {}
    <3> HIDE DEF present
    <3>1. /\ Min(present) \in Nat /\ Max(present) \in Nat
          /\ \A x \in present : Min(present) <= x /\ x <= Max(present) /\ x \in Nat
      BY <2>1, <2>3, FiniteBounds
    <3>2. IsFiniteSet(Min(present) .. Max(present))
      BY <3>1, FS_Interval
    <3>3. present \subseteq Min(present) .. Max(present)
      BY <3>1
    <3> QED BY <2>3, <3>2, <3>3 DEF present
  <2> QED BY <2>2, <2>3
<1>8. TimeSeries(w, au) = [total |-> Filled(f, axis), unique |-> Filled(u, axis),
                           tolls |-> Filled(c, axis)]
  BY <1>3 DEF TimeSeries
<1>9. /\ CountSince(w, au) = Cardinality(rs) /\ CountSince(w, "challenged") = Cardinality(ch)
      /\ DistinctIpCount(w, au) = Cardinality(Addrs(rs))
  BY <1>1 DEF CountSince, DistinctIpCount
<1> HIDE DEF axis
<1>10. Cardinality(Addrs(rs)) <= Sum(Filled(u, axis))
  BY <1>2, <1>4, <1>5, <1>7, UniqueAddUp
<1>11. Sum(Filled(f, axis)) = Cardinality(rs) /\ Sum(Filled(c, axis)) = Cardinality(ch)
  BY <1>5, <1>6, <1>7
<1> QED BY <1>3, <1>5, <1>8, <1>9, <1>10, <1>11

-----------------------------------------------------------------------------

LEMMA FiniteFew == \A a, b, c : IsFiniteSet({a, b}) /\ IsFiniteSet({a, b, c})
<1> SUFFICES ASSUME NEW a, NEW b, NEW c PROVE IsFiniteSet({a, b}) /\ IsFiniteSet({a, b, c})
  OBVIOUS
<1>1. IsFiniteSet({a}) /\ IsFiniteSet({b}) /\ IsFiniteSet({c})
  BY FS_Singleton
<1>2. IsFiniteSet({a} \cup {b})
  BY <1>1, FS_Union
<1>3. IsFiniteSet(({a} \cup {b}) \cup {c})
  BY <1>1, <1>2, FS_Union
<1>4. {a} \cup {b} = {a, b} /\ ({a} \cup {b}) \cup {c} = {a, b, c}
  OBVIOUS
<1> QED BY <1>2, <1>3, <1>4

Buckets == {"s2xx", "s3xx", "s403", "s404", "s429", "s4xx", "s5xx"}

\* The bucket of a status.
Bucket(s) == IF s < 300 THEN "s2xx" ELSE IF s < 400 THEN "s3xx"
             ELSE IF s = 403 THEN "s403" ELSE IF s = 404 THEN "s404"
             ELSE IF s = 429 THEN "s429" ELSE IF s < 500 THEN "s4xx" ELSE "s5xx"

LEMMA BucketsAddUp ==
    ASSUME LogTyped, NEW w, NEW au
    PROVE  Sum(StatusBuckets(w, au)) = CountSince(w, au)
<1>1. PICK rs : rs = Of(au, InWindow(w))
  OBVIOUS
<1>2. rs \in SUBSET logged /\ IsFiniteSet(rs) /\ \A r \in rs : r.req.status \in 200 .. 599
  BY <1>1, WindowIs, PartIs DEF IsRow, IsRequest
<1> DEFINE N(ss) == Cardinality({r \in rs : r.req.status \in ss})
           key == [r \in rs |-> Bucket(r.req.status)]
<1>3. PICK f : f = StatusBuckets(w, au)
  OBVIOUS
<1>4. f = [s2xx |-> N(200 .. 299), s3xx |-> N(300 .. 399), s403 |-> N({403}), s404 |-> N({404}),
           s429 |-> N({429}), s4xx |-> N((400 .. 499) \ {403, 404, 429}), s5xx |-> N(500 .. 599)]
  BY <1>1, <1>3 DEF StatusBuckets
<1>5. \A s \in 200 .. 599 :
         /\ s \in 200 .. 299 <=> Bucket(s) = "s2xx"
         /\ s \in 300 .. 399 <=> Bucket(s) = "s3xx"
         /\ s \in {403} <=> Bucket(s) = "s403"
         /\ s \in {404} <=> Bucket(s) = "s404"
         /\ s \in {429} <=> Bucket(s) = "s429"
         /\ s \in (400 .. 499) \ {403, 404, 429} <=> Bucket(s) = "s4xx"
         /\ s \in 500 .. 599 <=> Bucket(s) = "s5xx"
         /\ Bucket(s) \in Buckets
  BY DEF Bucket, Buckets
<1>6. \A r \in rs : key[r] = Bucket(r.req.status)
  OBVIOUS
<1> HIDE DEF key
<1>7. /\ f.s2xx = Cardinality({r \in rs : key[r] = "s2xx"})
      /\ f.s3xx = Cardinality({r \in rs : key[r] = "s3xx"})
      /\ f.s403 = Cardinality({r \in rs : key[r] = "s403"})
      /\ f.s404 = Cardinality({r \in rs : key[r] = "s404"})
      /\ f.s429 = Cardinality({r \in rs : key[r] = "s429"})
      /\ f.s4xx = Cardinality({r \in rs : key[r] = "s4xx"})
      /\ f.s5xx = Cardinality({r \in rs : key[r] = "s5xx"})
  <2>1. {r \in rs : r.req.status \in 200 .. 299} = {r \in rs : key[r] = "s2xx"}
    BY <1>2, <1>5, <1>6
  <2>2. {r \in rs : r.req.status \in 300 .. 399} = {r \in rs : key[r] = "s3xx"}
    BY <1>2, <1>5, <1>6
  <2>3. {r \in rs : r.req.status \in {403}} = {r \in rs : key[r] = "s403"}
    BY <1>2, <1>5, <1>6
  <2>4. {r \in rs : r.req.status \in {404}} = {r \in rs : key[r] = "s404"}
    BY <1>2, <1>5, <1>6
  <2>5. {r \in rs : r.req.status \in {429}} = {r \in rs : key[r] = "s429"}
    BY <1>2, <1>5, <1>6
  <2>6. {r \in rs : r.req.status \in (400 .. 499) \ {403, 404, 429}} = {r \in rs : key[r] = "s4xx"}
    BY <1>2, <1>5, <1>6
  <2>7. {r \in rs : r.req.status \in 500 .. 599} = {r \in rs : key[r] = "s5xx"}
    BY <1>2, <1>5, <1>6
  <2> QED BY <1>4, <2>1, <2>2, <2>3, <2>4, <2>5, <2>6, <2>7
<1>8. DOMAIN f = Buckets
  BY <1>4 DEF Buckets
<1>9. Counts(f, Buckets, rs, key)
  BY <1>7 DEF Counts, Buckets
<1>10. IsFiniteSet(Buckets)
  <2>1. IsFiniteSet({"s2xx", "s3xx"})
    BY FiniteFew
  <2>2. IsFiniteSet({"s403", "s404", "s429"})
    BY FiniteFew
  <2>3. IsFiniteSet({"s4xx", "s5xx"})
    BY FiniteFew
  <2>4. Buckets = {"s2xx", "s3xx"} \cup {"s403", "s404", "s429"} \cup {"s4xx", "s5xx"}
    BY DEF Buckets
  <2> QED BY <2>1, <2>2, <2>3, <2>4, FS_Union
<1>11. SumOver(f, Buckets) = Cardinality(With(rs, key, Buckets))
  BY <1>2, <1>9, <1>10, GroupSum
<1>12. With(rs, key, Buckets) = rs
  BY <1>2, <1>5 DEF With, key
<1> QED BY <1>1, <1>3, <1>8, <1>11, <1>12 DEF Sum, CountSince

Classes == {"direct", "external", "noise", "internal"}

LEMMA SourcesAddUp ==
    ASSUME LogTyped, NEW w
    PROVE  Sum(GroupReferers(w)) = CountSince(w, "all")
<1>1. PICK rs : rs = InWindow(w)
  OBVIOUS
<1>2. /\ rs \in SUBSET logged /\ IsFiniteSet(rs) /\ \A r \in rs : r.req.referer \in Classes
      /\ Of("all", rs) = rs
  BY <1>1, WindowIs, PartIs DEF IsRow, IsRequest, Of, Classes
<1> DEFINE key == [r \in rs |-> r.req.referer]
           C(c) == Cardinality({r \in rs : key[r] = c})
<1>3. PICK u : u = RefererUrls(w)
  OBVIOUS
<1>4. /\ DOMAIN u = {r.req.referer : r \in {s \in rs : s.req.referer # "direct"}}
      /\ \A c \in DOMAIN u : u[c] =
           Cardinality({r \in {s \in rs : s.req.referer # "direct"} : r.req.referer = c})
  BY <1>1, <1>3 DEF RefererUrls, CountBy
<1>5. ASSUME NEW c, c # "direct" PROVE (IF c \in DOMAIN u THEN u[c] ELSE 0) = C(c)
  <2>1. {r \in {s \in rs : s.req.referer # "direct"} : r.req.referer = c} = {r \in rs : key[r] = c}
    BY <1>5
  <2>2. CASE c \in DOMAIN u
    BY <2>1, <2>2, <1>4
  <2>3. CASE c \notin DOMAIN u
    <3>1. {r \in rs : key[r] = c} = {}
      BY <2>3, <1>4, <1>5
    <3> HIDE DEF key
    <3> QED BY <3>1, <2>3, FS_EmptySet
  <2> QED BY <2>2, <2>3
<1>6. DirectRefererCount(w) = C("direct")
  <2>1. {r \in rs : r.req.referer = "direct"} = {r \in rs : key[r] = "direct"}
    OBVIOUS
  <2> QED BY <2>1, <1>1 DEF DirectRefererCount
<1> HIDE DEF key, C
<1>7. PICK f : f = GroupReferers(w)
  OBVIOUS
<1>8. f = [external |-> C("external"), noise |-> C("noise"), internal |-> C("internal"),
           direct |-> C("direct")]
  BY <1>3, <1>5, <1>6, <1>7 DEF GroupReferers
<1>9. DOMAIN f = Classes
  BY <1>8 DEF Classes
<1>10. Counts(f, Classes, rs, key)
  BY <1>8 DEF Counts, Classes, C
<1>11. IsFiniteSet(Classes)
  <2>1. IsFiniteSet({"direct", "external"}) /\ IsFiniteSet({"noise", "internal"})
    BY FiniteFew
  <2>2. Classes = {"direct", "external"} \cup {"noise", "internal"}
    BY DEF Classes
  <2> QED BY <2>1, <2>2, FS_Union
<1>12. SumOver(f, Classes) = Cardinality(With(rs, key, Classes))
  BY <1>2, <1>10, <1>11, GroupSum
<1>13. With(rs, key, Classes) = rs
  BY <1>2 DEF With, key
<1> QED BY <1>1, <1>2, <1>7, <1>9, <1>12, <1>13 DEF Sum, CountSince

\* Counted by the agent.
LEMMA AgentsAddUp ==
    ASSUME LogTyped, NEW rs \in SUBSET logged, NEW f,
           f = [k \in {r.req.agent : r \in rs} |-> Cardinality({r \in rs : r.req.agent = k})]
    PROVE  Sum(f) = Cardinality(rs)
<1> DEFINE key == [r \in rs |-> r.req.agent]
<1>1. IsFiniteSet(rs)
  BY PartIs
<1>2. DOMAIN f = {key[r] : r \in rs}
  OBVIOUS
<1>3. \A k \in DOMAIN f : f[k] = Cardinality({r \in rs : r.req.agent = k})
  OBVIOUS
<1>4. \A k : {r \in rs : r.req.agent = k} = {r \in rs : key[r] = k}
  OBVIOUS
<1> HIDE DEF key
<1>5. Counts(f, DOMAIN f, rs, key)
  BY <1>3, <1>4 DEF Counts
<1> QED BY <1>1, <1>2, <1>5, GroupedSum

\* No row without a class: then the chips add up.
LEMMA ChipsAddUp ==
    ASSUME LogTyped, NEW w, \A r \in logged : r.bot # "null"
    PROVE  LET n == AudienceCounts(w) IN n.humans + n.bots = n.all
<1>1. PICK rs, h, b : /\ rs = InWindow(w)
                      /\ h = {r \in rs : r.bot = "human"} /\ b = {r \in rs : r.bot = "bot"}
  OBVIOUS
<1>2. rs \in SUBSET logged /\ IsFiniteSet(rs) /\ Cardinality(rs) \in Nat
      /\ \A r \in rs : r.bot \in {"human", "bot"}
  BY <1>1, WindowIs, PartIs DEF IsRow
<1>3. rs = h \cup b /\ h \cap b = {}
  BY <1>1, <1>2
<1>4. IsFiniteSet(h) /\ IsFiniteSet(b)
  BY <1>1, <1>2, FS_Subset
<1>5. Cardinality(h) \in Nat /\ Cardinality(b) \in Nat /\ Cardinality(h \cap b) = 0
  BY <1>3, <1>4, FS_CardinalityType, FS_EmptySet
<1>6. Cardinality(h \cup b) = Cardinality(h) + Cardinality(b) - Cardinality(h \cap b)
  BY <1>4, FS_Union
<1>7. Cardinality(rs) = Cardinality(h) + Cardinality(b)
  BY <1>3, <1>5, <1>6
<1> QED BY <1>1, <1>7 DEF AudienceCounts

\* A page that was served well is not one that never was.
LEMMA PagesAgree ==
    ASSUME LogTyped, NEW w, NEW au
    PROVE  /\ ContentPaths(w, au, 400) \cap NeverSucceeded(w) = {}
           /\ ContentPaths(w, au, 400) \subseteq ContentPaths(w, au, 10000)
<1>1. \A r \in InWindow(w) : r.req.status \in 200 .. 599
  BY WindowIs, PartIs DEF IsRow, IsRequest
<1>2. Of(au, InWindow(w)) \subseteq InWindow(w)
  BY DEF Of
<1>3. ASSUME NEW p \in ContentPaths(w, au, 400),
             NEW hits, hits = {r \in InWindow(w) : r.req.path = p}
      PROVE  hits # Failed(hits)
  <2>1. PICK r \in Of(au, InWindow(w)) : r.req.status < 400 /\ r.req.path = p
    BY DEF ContentPaths, PathsOf
  <2>2. r \in hits /\ ~(r.req.status >= 400)
    BY <1>1, <1>2, <1>3, <2>1
  <2> QED BY <2>2 DEF Failed
<1>4. ContentPaths(w, au, 400) \cap NeverSucceeded(w) = {}
  BY <1>3 DEF NeverSucceeded
<1>5. \A r \in Of(au, InWindow(w)) : r.req.status < 400 => r.req.status < 10000
  BY <1>1, <1>2
<1>6. ContentPaths(w, au, 400) \subseteq ContentPaths(w, au, 10000)
  BY <1>5 DEF ContentPaths, PathsOf
<1> QED BY <1>4, <1>6

\* An address that was tolled was tolled by some row.
LEMMA TollsAgree ==
    ASSUME LogTyped, NEW w
    PROVE  DistinctChallengedIps(w) <= CountSince(w, "challenged")
<1>1. PICK rs : rs = {r \in InWindow(w) : r.req.tolled}
  OBVIOUS
<1>2. rs = Of("challenged", InWindow(w)) /\ rs \in SUBSET logged
  BY <1>1, WindowIs DEF Of
<1> DEFINE key == [r \in rs |-> r.req.addr]
<1>3. Addrs(rs) = {key[r] : r \in rs}
  BY DEF Addrs
<1> HIDE DEF key
<1>4. Cardinality(Addrs(rs)) <= Cardinality(rs)
  BY <1>2, <1>3, PartIs, ImageBound
<1> QED BY <1>1, <1>2, <1>4 DEF DistinctChallengedIps, CountSince

-----------------------------------------------------------------------------

\* The leaderboard's row of an address is its drill-down.
LEMMA DrillDownIs ==
    ASSUME LogTyped, NEW w, NEW a
    PROVE  /\ NoisyIp(w, a) = IpDetail(w, a)
           /\ Sum(IpUserAgents(w, a)) = NoisyIp(w, a).total
<1>1. PICK own : own = From(w, a)
  OBVIOUS
<1>2. own \in SUBSET logged /\ IsFiniteSet(own) /\ \A r \in own : r.req.status \in 200 .. 599
  <2>1. own \in SUBSET logged
    BY <1>1, WindowIs DEF From
  <2> QED BY <2>1, PartIs DEF IsRow, IsRequest
<1> DEFINE key == [r \in own |-> <<r.req.path, r.req.status>>]
<1>3. PICK f : f = IpPathStatus(w, a)
  OBVIOUS
<1>4. f = [k \in {<<r.req.path, r.req.status>> : r \in own} |->
             Cardinality({r \in own : <<r.req.path, r.req.status>> = k})]
  BY <1>1, <1>3 DEF IpPathStatus, CountBy
<1>5. DOMAIN f = {key[r] : r \in own} /\ DOMAIN f = {<<r.req.path, r.req.status>> : r \in own}
  BY <1>4
<1>6. \A k \in DOMAIN f : f[k] = Cardinality({r \in own : <<r.req.path, r.req.status>> = k})
  BY <1>4
<1>7. \A k : {r \in own : <<r.req.path, r.req.status>> = k} = {r \in own : key[r] = k}
  OBVIOUS
<1>8. \A r \in own : key[r] = <<r.req.path, r.req.status>>
  OBVIOUS
<1> HIDE DEF key
<1>9. Counts(f, DOMAIN f, own, key)
  BY <1>6, <1>7 DEF Counts
<1>10. /\ Sum(f) = Cardinality(own)
       /\ \A S \in SUBSET DOMAIN f : SumOver(f, S) = Cardinality(With(own, key, S))
  BY <1>2, <1>5, <1>9, GroupedSum
<1>11. PICK bad, dead : /\ bad = {ps \in DOMAIN f : ps[2] >= 400}
                        /\ dead = {ps \in DOMAIN f : ps[2] = 404}
  OBVIOUS
<1>12. IpDetail(w, a) = [total |-> Sum(f), paths |-> Cardinality({ps[1] : ps \in DOMAIN f}),
                         dead |-> Cardinality({ps[1] : ps \in dead}), errors |-> SumOver(f, bad)]
  BY <1>3, <1>11 DEF IpDetail
<1>13. PathsOf(own) = {ps[1] : ps \in DOMAIN f}
  <2>1. \A r \in own : <<r.req.path, r.req.status>> \in DOMAIN f
    BY <1>5
  <2>2. \A ps \in DOMAIN f : \E r \in own : ps[1] = r.req.path
    <3> SUFFICES ASSUME NEW ps \in DOMAIN f PROVE \E r \in own : ps[1] = r.req.path
      OBVIOUS
    <3>1. PICK r \in own : ps = <<r.req.path, r.req.status>>
      BY <1>5
    <3> QED BY <3>1
  <2> QED BY <2>1, <2>2 DEF PathsOf
<1>14. PathsOf(Status(own, 404)) = {ps[1] : ps \in dead}
  <2>1. \A r \in Status(own, 404) : <<r.req.path, r.req.status>> \in dead
    BY <1>5, <1>11 DEF Status
  <2>2. \A ps \in dead : \E r \in Status(own, 404) : ps[1] = r.req.path
    <3> SUFFICES ASSUME NEW ps \in dead PROVE \E r \in Status(own, 404) : ps[1] = r.req.path
      OBVIOUS
    <3>1. PICK r \in own : ps = <<r.req.path, r.req.status>>
      BY <1>5, <1>11
    <3>2. r.req.status = 404 /\ ps[1] = r.req.path
      BY <3>1, <1>11
    <3> QED BY <3>2 DEF Status
  <2> QED BY <2>1, <2>2 DEF PathsOf
<1>15. With(own, key, bad) = Failed(own)
  <2>1. \A r \in own : key[r] \in bad <=> r.req.status >= 400
    BY <1>5, <1>8, <1>11
  <2> QED BY <2>1 DEF With, Failed
<1>16. SumOver(f, bad) = Cardinality(Failed(own))
  BY <1>10, <1>11, <1>15
<1>17. NoisyIp(w, a) = [total |-> Cardinality(own), paths |-> Cardinality(PathsOf(own)),
                        dead |-> Cardinality(PathsOf(Status(own, 404))),
                        errors |-> Cardinality(Failed(own))]
  BY <1>1 DEF NoisyIp
<1>18. NoisyIp(w, a) = IpDetail(w, a)
  BY <1>10, <1>12, <1>13, <1>14, <1>16, <1>17
<1>19. PICK u : u = IpUserAgents(w, a)
  OBVIOUS
<1>20. u = [k \in {r.req.agent : r \in own} |-> Cardinality({r \in own : r.req.agent = k})]
  BY <1>1, <1>19 DEF IpUserAgents, CountBy
<1>21. Sum(u) = Cardinality(own)
  BY <1>2, <1>20, AgentsAddUp
<1>22. NoisyIp(w, a).total = Cardinality(own)
  BY <1>17
<1> QED BY <1>18, <1>19, <1>21, <1>22

\* What the sweep counts of an address is what the leaderboard counts.
LEMMA SweepAgrees ==
    ASSUME LogTyped, NEW w, NEW a
    PROVE  LET row == NoisyIp(w, a)
               f == Features(w, a)
           IN  /\ f.dead = row.dead /\ f.errors = row.errors
               /\ Score(f) = "R2" => IsScanner(row)
<1>1. PICK all, own : all = InWindow(w) /\ own = From(w, a)
  OBVIOUS
<1>2. /\ all \in SUBSET logged /\ IsFiniteSet(all) /\ \A r \in all : r.req.status \in 200 .. 599
      /\ own = {r \in all : r.req.addr = a} /\ IsFiniteSet(own)
  <2>1. all \in SUBSET logged /\ own = {r \in all : r.req.addr = a}
    BY <1>1, WindowIs DEF From
  <2>2. own \in SUBSET logged
    BY <2>1
  <2> QED BY <2>1, <2>2, PartIs DEF IsRow, IsRequest
<1> DEFINE Triple(r) == <<r.req.addr, r.req.path, r.req.status>>
           key == [r \in all |-> Triple(r)]
<1>3. PICK f : f = IpPathAggregates(w)
  OBVIOUS
<1>4. f = [k \in {Triple(r) : r \in all} |-> Cardinality({r \in all : Triple(r) = k})]
  BY <1>1, <1>3 DEF IpPathAggregates, CountBy
<1>5. DOMAIN f = {key[r] : r \in all} /\ DOMAIN f = {Triple(r) : r \in all}
  BY <1>4
<1>6. \A k \in DOMAIN f : f[k] = Cardinality({r \in all : Triple(r) = k})
  BY <1>4
<1>7. \A k : {r \in all : Triple(r) = k} = {r \in all : key[r] = k}
  OBVIOUS
<1>8. \A r \in all : key[r] = <<r.req.addr, r.req.path, r.req.status>>
  OBVIOUS
<1> HIDE DEF key
<1>9. Counts(f, DOMAIN f, all, key)
  <2> HIDE DEF Triple
  <2> QED BY <1>6, <1>7 DEF Counts
<1>10. \A S \in SUBSET DOMAIN f : SumOver(f, S) = Cardinality(With(all, key, S))
  <2> HIDE DEF Triple
  <2> QED BY <1>2, <1>5, <1>9, GroupedSum
<1>11. PICK bad, dead : /\ bad = {t \in {t \in DOMAIN f : t[1] = a} : t[3] >= 400}
                        /\ dead = {b \in bad : b[3] = 404}
  OBVIOUS
<1>12. PICK n : n = Features(w, a)
  OBVIOUS
<1>13. n.dead = Cardinality({t[2] : t \in dead}) /\ n.errors = SumOver(f, bad)
  BY <1>3, <1>11, <1>12 DEF Features
<1>14. With(all, key, bad) = Failed(own)
  <2>1. \A r \in all : key[r] \in bad <=> r \in own /\ r.req.status >= 400
    BY <1>2, <1>5, <1>8, <1>11
  <2> QED BY <2>1, <1>2 DEF With, Failed
<1>15. n.errors = Cardinality(Failed(own))
  <2>1. bad \in SUBSET DOMAIN f
    BY <1>11
  <2> QED BY <2>1, <1>10, <1>13, <1>14
<1>16. {t[2] : t \in dead} = PathsOf(Status(own, 404))
  <2>1. ASSUME NEW r \in Status(own, 404) PROVE key[r] \in dead /\ key[r][2] = r.req.path
    <3>1. r \in all /\ r.req.addr = a /\ r.req.status = 404
      BY <1>2 DEF Status
    <3> QED BY <3>1, <1>5, <1>8, <1>11
  <2>2. ASSUME NEW t \in dead PROVE \E r \in Status(own, 404) : t[2] = r.req.path
    <3>1. PICK r \in all : t = <<r.req.addr, r.req.path, r.req.status>>
      BY <1>5, <1>11
    <3>2. r.req.addr = a /\ r.req.status = 404 /\ t[2] = r.req.path
      BY <3>1, <1>11
    <3> QED BY <3>2, <1>2 DEF Status
  <2> QED BY <2>1, <2>2 DEF PathsOf
<1>17. PICK row : row = NoisyIp(w, a)
  OBVIOUS
<1>18. /\ row.dead = Cardinality(PathsOf(Status(own, 404))) /\ row.errors = Cardinality(Failed(own))
  BY <1>1, <1>17 DEF NoisyIp
<1>19. n.dead = row.dead /\ n.errors = row.errors
  BY <1>13, <1>15, <1>16, <1>18
<1>20. n.dead \in Nat
  <2>1. Status(own, 404) \in SUBSET logged
    BY <1>2 DEF Status
  <2>2. PICK rs : rs = Status(own, 404)
    OBVIOUS
  <2> DEFINE path == [r \in rs |-> r.req.path]
  <2>3. PathsOf(rs) = {path[r] : r \in rs}
    BY DEF PathsOf
  <2> HIDE DEF path
  <2>4. IsFiniteSet(PathsOf(rs))
    BY <2>1, <2>2, <2>3, PartIs, ImageBound
  <2> QED BY <2>2, <2>4, <1>18, <1>19, FS_CardinalityType
<1>21. Score(n) = "R2" => n.dead >= R2Min
  BY DEF Score
<1>22. Score(n) = "R2" => IsScanner(row)
  BY <1>19, <1>20, <1>21, LogAssumption DEF IsScanner
<1> QED BY <1>12, <1>17, <1>19, <1>22

\* The nearest rank of at least one sample, for a part that all of them make up.
LEMMA PercentileIs ==
    ASSUME NEW rs, IsFiniteSet(rs), rs # {}, \A r \in rs : r.req.ms \in Nat
    PROVE  /\ Slowest(rs) \in {r.req.ms : r \in rs} /\ \A r \in rs : r.req.ms <= Slowest(rs)
           /\ Percentile(rs, 50) \in Nat /\ Percentile(rs, 95) \in Nat
           /\ Percentile(rs, 50) <= Percentile(rs, 95)
           /\ Percentile(rs, 95) <= Slowest(rs)
<1> DEFINE ms == {r.req.ms : r \in rs}
           key == [r \in rs |-> r.req.ms]
           AtMost(m) == Cardinality({r \in rs : r.req.ms <= m})
           N == Cardinality(rs)
           Above(p) == {m \in ms : 100 * AtMost(m) >= p * N}
<1>1. IsFiniteSet(ms) /\ ms \subseteq Nat /\ ms # {}
  <2>1. ms = {key[r] : r \in rs}
    OBVIOUS
  <2>2. IsFiniteSet({key[r] : r \in rs})
    <3> HIDE DEF key
    <3> QED BY ImageBound
  <2> QED BY <2>1, <2>2
<1>2. Slowest(rs) = Max(ms) /\ \A p : Percentile(rs, p) = Min(Above(p))
  BY DEF Slowest, Percentile
<1>3. Max(ms) \in ms /\ \A x \in ms : x <= Max(ms)
  <2> HIDE DEF ms
  <2> QED BY <1>1, FiniteBounds
<1>4. N \in Nat /\ \A m : AtMost(m) \in Nat
  <2>1. \A m : {r \in rs : r.req.ms <= m} \in SUBSET rs
    OBVIOUS
  <2> QED BY <2>1, FS_Subset, FS_CardinalityType
<1>5. AtMost(Max(ms)) = N
  <2>1. {r \in rs : r.req.ms <= Max(ms)} = rs
    BY <1>3
  <2> QED BY <2>1
<1>6. Max(ms) \in Above(95) /\ Above(95) \subseteq Above(50)
  <2> HIDE DEF ms, AtMost, N
  <2> QED BY <1>3, <1>4, <1>5
<1>7. ASSUME NEW p, Above(p) # {}
      PROVE  Min(Above(p)) \in Above(p) /\ \A x \in Above(p) : Min(Above(p)) <= x
  <2>1. Above(p) \subseteq Nat /\ IsFiniteSet(Above(p))
    BY <1>1, FS_Subset
  <2> HIDE DEF Above
  <2> QED BY <1>7, <2>1, FiniteBounds
<1>8. /\ Min(Above(95)) \in Above(95) /\ Min(Above(50)) \in Above(50)
      /\ Min(Above(50)) <= Min(Above(95)) /\ Min(Above(95)) <= Max(ms)
  <2> HIDE DEF Above
  <2> QED BY <1>6, <1>7
<1>9. Min(Above(95)) \in Nat /\ Min(Above(50)) \in Nat
  BY <1>1, <1>8
<1> HIDE DEF Above
<1> QED BY <1>2, <1>3, <1>8, <1>9

LEMMA LatencyAgrees ==
    ASSUME LogTyped, NEW w, LatencySamples(w) # {}
    PROVE  LET rs == LatencySamples(w)
               by == ByRoute(w)
           IN  /\ \E p \in DOMAIN by : by[p].max = Slowest(rs)
               /\ \A p \in DOMAIN by : by[p].p50 <= by[p].p95
               /\ Percentile(rs, 95) <= Slowest(rs)
<1>1. PICK rs, by : rs = LatencySamples(w) /\ by = ByRoute(w)
  OBVIOUS
<1>2. rs \in SUBSET logged
  BY <1>1, WindowIs DEF LatencySamples
<1>3. \A s \in SUBSET rs : IsFiniteSet(s) /\ \A r \in s : r.req.ms \in Nat
  BY <1>2, PartIs DEF IsRow, IsRequest
<1> DEFINE On(p) == {r \in rs : r.req.path = p}
<1>4. DOMAIN by = PathsOf(rs)
      /\ \A p \in DOMAIN by : /\ by[p].max = Slowest(On(p))
                              /\ by[p].p50 = Percentile(On(p), 50)
                              /\ by[p].p95 = Percentile(On(p), 95)
  BY <1>1 DEF ByRoute
<1>5. \A p : On(p) \in SUBSET rs
  OBVIOUS
<1>6. \A p \in DOMAIN by : On(p) # {}
  BY <1>4 DEF PathsOf
<1>7. Slowest(rs) \in {r.req.ms : r \in rs} /\ (\A r \in rs : r.req.ms <= Slowest(rs))
      /\ Percentile(rs, 95) <= Slowest(rs)
  BY <1>1, <1>3, PercentileIs
<1>8. PICK r \in rs : r.req.ms = Slowest(rs)
  BY <1>7
<1>9. PICK p : p = r.req.path
  OBVIOUS
<1>10. r \in On(p) /\ p \in DOMAIN by
  BY <1>4, <1>8, <1>9 DEF PathsOf
<1> HIDE DEF On
<1>11. /\ Slowest(On(p)) \in {s.req.ms : s \in On(p)}
       /\ \A s \in On(p) : s.req.ms <= Slowest(On(p))
  BY <1>3, <1>5, <1>10, PercentileIs
<1>12. Slowest(On(p)) = Slowest(rs)
  <2>1. PICK s \in On(p) : s.req.ms = Slowest(On(p))
    BY <1>11
  <2>2. s \in rs /\ s.req.ms \in Nat /\ r.req.ms \in Nat
    BY <1>3, <1>5
  <2> QED BY <2>1, <2>2, <1>7, <1>8, <1>10, <1>11
<1>13. ASSUME NEW q \in DOMAIN by PROVE by[q].p50 <= by[q].p95
  BY <1>3, <1>4, <1>5, <1>6, PercentileIs
<1> QED BY <1>1, <1>4, <1>7, <1>10, <1>12, <1>13


LEMMA ReportsHold == LogTyped /\ LogInv => EveryReportAgrees
<1> SUFFICES ASSUME LogTyped, LogInv PROVE EveryReportAgrees
  OBVIOUS
<1>1. ASSUME NEW w, NEW au
      PROVE  LET n == CountSince(w, au)
                 series == TimeSeries(w, au)
                 good == ContentPaths(w, au, 400)
             IN  /\ Sum(CountByDay(w, au)) = n /\ Sum(StatusBuckets(w, au)) = n
                 /\ Sum(series.total) = n /\ DistinctIpCount(w, au) <= Sum(series.unique)
                 /\ Sum(series.tolls) = CountSince(w, "challenged")
                 /\ good \cap NeverSucceeded(w) = {} /\ good \subseteq ContentPaths(w, au, 10000)
  BY SeriesAddUp, BucketsAddUp, PagesAgree
<1>2. ASSUME NEW w
      PROVE  LET n == AudienceCounts(w) IN settled => n.humans + n.bots = n.all
  BY ChipsAddUp DEF LogInv, AudienceIsRight
<1>3. ASSUME NEW w
      PROVE  Sum(CountByUserAgent(w)) = CountSince(w, "all")
  <2>1. PICK rs, f : rs = InWindow(w) /\ f = CountByUserAgent(w)
    OBVIOUS
  <2>2. rs \in SUBSET logged /\ Of("all", rs) = rs
    BY <2>1, WindowIs DEF Of
  <2>3. f = [k \in {r.req.agent : r \in rs} |-> Cardinality({r \in rs : r.req.agent = k})]
    BY <2>1 DEF CountByUserAgent, CountBy
  <2>4. Sum(f) = Cardinality(rs)
    BY <2>2, <2>3, AgentsAddUp
  <2> QED BY <2>1, <2>2, <2>4 DEF CountSince
<1>4. ASSUME NEW w, NEW a
      PROVE  LET row == NoisyIp(w, a)
                 f == Features(w, a)
             IN  /\ row = IpDetail(w, a) /\ Sum(IpUserAgents(w, a)) = row.total
                 /\ a \in Scored(w) => /\ f.dead = row.dead /\ f.errors = row.errors
                                       /\ Score(f) = "R2" => IsScanner(row)
  BY DrillDownIs, SweepAgrees
<1>5. ASSUME NEW w
      PROVE  LET rs == LatencySamples(w)
                 by == ByRoute(w)
             IN  rs # {} => /\ \E p \in DOMAIN by : by[p].max = Slowest(rs)
                            /\ \A p \in DOMAIN by : by[p].p50 <= by[p].p95
                            /\ Percentile(rs, 95) <= Slowest(rs)
  BY LatencyAgrees
<1> QED BY <1>1, <1>2, <1>3, <1>4, <1>5, SourcesAddUp, TollsAgree DEF EveryReportAgrees

\* The reports agree in every state, for any requests, windows and rules, whatever
\* runs and inserts are under way.
THEOREM ReportsAlwaysAgree == LogSpec => []EveryReportAgrees
<1>1. LogTyped /\ LogInv => EveryReportAgrees
  BY ReportsHold
<1> QED BY TypedStart, TypedStep, LogAlwaysHolds, <1>1, PTL DEF LogSpec

\* So they do when nothing is written while they are read.
THEOREM ReportsAgreeWhenQuiet == LogSpec => []ReportsAgree
<1>1. EveryReportAgrees => ReportsAgree
  BY DEF ReportsAgree
<1> QED BY <1>1, ReportsAlwaysAgree, PTL

=============================================================================
