-------------------------- MODULE PublicIp_proofs --------------------------
(***************************************************************************)
(* Proofs about PublicIp: its types, that the domain is never left without *)
(* a record, and that every step of the channel and its readers is a step  *)
(* of Latest.                                                              *)
(***************************************************************************)
EXTENDS PublicIp, TLAPS

\* A receiver has nothing to read until something was sent.
Quiet == \A r \in Readers : rx[r] # "empty" => chan # None

\* A receiver that has something to read reads an address: the types are
\* inductive only together with Quiet.
LEMMA TypedAndQuiet == Spec => [](TypeOK /\ Quiet)
<1> USE PublicIpAssumption
<1>1. Init => TypeOK /\ Quiet
  BY DEF Init, TypeOK, Quiet, Dns, DnsStart, RxStart, Cursor
<1>2. TypeOK /\ Quiet /\ [Next]_vars => TypeOK'
  <2> SUFFICES ASSUME TypeOK, Quiet, [Next]_vars PROVE TypeOK'
    OBVIOUS
  <2> USE DEF TypeOK
  <2>1. CASE Measure
    BY <2>1 DEF Measure, channel, zone
  <2>2. CASE Announce
    BY <2>2 DEF Announce, Send, channel, zone, Cursor
  <2>3. CASE AllowRecv
    BY <2>3 DEF AllowRecv, Ok, Lagged, provider, zone, Cursor, Readers
  <2>4. CASE DnsRecv
    BY <2>4 DEF DnsRecv, Ok, Lagged, Goto, Quiet, provider, zone, Dns, Cursor, Readers
  <2>5. CASE Reconcile
    BY <2>5 DEF Reconcile, Goto, provider, channel, zone, Dns
  <2>6. CASE Update
    <3>1. CASE Lookup
      BY <3>1 DEF Lookup, Goto, provider, channel, zone, Dns
    <3>2. CASE Fetch
      BY <3>2 DEF Fetch, provider, channel, zone, Dns
    <3>3. CASE Create
      BY <3>3 DEF Create, Goto, provider, channel, Dns
    <3>4. CASE Delete
      BY <3>4 DEF Delete, provider, channel, Dns
    <3>5. CASE Confirm
      BY <3>5 DEF Confirm, Goto, provider, channel, zone, Dns
    <3> QED BY <2>6, <3>1, <3>2, <3>3, <3>4, <3>5 DEF Update
  <2>7. CASE UpdateFails
    BY <2>7 DEF UpdateFails, Goto, provider, channel, zone, Dns
  <2>8. CASE Move
    BY <2>8 DEF Move, provider, channel, zone
  <2>9. CASE Propagate
    BY <2>9 DEF Propagate, provider, channel
  <2>10. CASE Restart
    BY <2>10 DEF Restart, zone, RxStart, DnsStart, Dns, Cursor
  <2>11. CASE UNCHANGED vars
    BY <2>11 DEF vars
  <2> QED BY <2>1, <2>2, <2>3, <2>4, <2>5, <2>6, <2>7, <2>8, <2>9, <2>10, <2>11 DEF Next
<1>3. TypeOK /\ Quiet /\ [Next]_vars => Quiet'
  <2> SUFFICES ASSUME TypeOK, Quiet, [Next]_vars PROVE Quiet'
    OBVIOUS
  <2> USE DEF TypeOK, Quiet
  <2>1. CASE Announce
    BY <2>1 DEF Announce, Send, channel
  <2>2. CASE AllowRecv \/ DnsRecv
    BY <2>2 DEF AllowRecv, DnsRecv, Ok, Lagged, Readers
  <2>3. CASE Restart
    BY <2>3 DEF Restart, RxStart
  <2>4. CASE UNCHANGED channel
    BY <2>4 DEF channel
  <2> QED BY <2>1, <2>2, <2>3, <2>4
        DEF Next, Update, Measure, Reconcile, Lookup, Fetch, Create, Delete,
            Confirm, UpdateFails, Move, Propagate, channel, vars
<1> QED BY <1>1, <1>2, <1>3, PTL DEF Spec

\* Types hold for any set of addresses and any number of events: past its
\* first receive DnsProviderService::start always has an address.
THEOREM TypeCorrect == Spec => []TypeOK
BY TypedAndQuiet, PTL

-----------------------------------------------------------------------------

\* What an update under way knows: before it creates, the records are as it
\* fetched them; while it deletes, its own address is among them.
Replacing ==
    /\ dns.pc = "create" => dns.found = records
    /\ dns.pc = "delete" => dns.cur \in records

Inv == TypeOK /\ Replacing /\ Quiet

LEMMA InvHolds == Spec => []Inv
<1> USE PublicIpAssumption
<1>1. Init => Replacing
  BY DEF Init, Replacing, DnsStart
<1>2. TypeOK /\ Replacing /\ [Next]_vars => Replacing'
  <2> SUFFICES ASSUME TypeOK, Replacing, [Next]_vars PROVE Replacing'
    OBVIOUS
  <2> USE DEF TypeOK, Replacing, Dns
  <2>1. CASE Measure \/ Announce \/ AllowRecv \/ Move \/ Propagate \/ UNCHANGED vars
    BY <2>1 DEF Measure, Announce, AllowRecv, Move, Propagate, zone, vars
  <2>2. CASE DnsRecv
    BY <2>2 DEF DnsRecv, Goto, zone
  <2>3. CASE Reconcile \/ Confirm \/ UpdateFails
    BY <2>3 DEF Reconcile, Confirm, UpdateFails, Goto, zone
  <2>4. CASE Lookup \/ Fetch
    BY <2>4 DEF Lookup, Fetch, Goto, zone
  <2>5. CASE Create
    BY <2>5 DEF Create, Goto
  <2>6. CASE Delete
    BY <2>6 DEF Delete
  <2>7. CASE Restart
    BY <2>7 DEF Restart, DnsStart
  <2> QED BY <2>1, <2>2, <2>3, <2>4, <2>5, <2>6, <2>7 DEF Next, Update
<1> QED BY <1>1, <1>2, TypedAndQuiet, PTL DEF Spec, Inv

\* update_dns creates before it deletes: from a domain with a record no step,
\* failure or restart leads to one without.
THEOREM StaysListed == Spec => NeverUnlisted
<1> DEFINE P == records # {} => records' # {}
<1>1. Inv /\ [Next]_vars => [P]_records
  <2> SUFFICES ASSUME Inv, [Next]_vars, records' # records PROVE P
    OBVIOUS
  <2>1. CASE Create
    BY <2>1 DEF Create
  <2>2. CASE Delete
    BY <2>2 DEF Delete, Inv, Replacing
  <2> QED BY <2>1, <2>2
        DEF Next, Update, Measure, Announce, AllowRecv, DnsRecv, Reconcile,
            Lookup, Fetch, Confirm, UpdateFails, Move, Propagate, Restart, zone, vars
<1> QED BY <1>1, InvHolds, PTL DEF Spec, NeverUnlisted

-----------------------------------------------------------------------------

\* The safety half of DeliversLatest: a broadcast of capacity one and readers
\* that go on after a lag never hold anything but the newest address of the
\* moment they took it.
THEOREM ReadersHoldLatest == Spec => Watch!Spec
<1> USE PublicIpAssumption
<1>1. Init => Watch!Init
  BY DEF Init, DnsStart, Held, Readers, Watch!Init
<1>2. Inv /\ [Next]_vars => [Watch!Next]_Watch!vars
  <2> SUFFICES ASSUME Inv, [Next]_vars PROVE [Watch!Next]_Watch!vars
    OBVIOUS
  <2> USE DEF Inv, TypeOK, Dns, Held, Readers
  <2>1. CASE Announce
    <3>1. CASE measured # current
      BY <2>1, <3>1 DEF Announce, Send, Watch!Next, Watch!Publish
    <3>2. CASE measured = current
      BY <2>1, <3>2 DEF Announce, channel, Watch!vars
    <3> QED BY <3>1, <3>2
  <2>2. CASE AllowRecv
    <3>1. CASE Ok("allowlist") /\ allow' = chan
      <4>1. chan # None /\ chan' = chan
        BY <3>1 DEF Ok, Quiet
      <4>2. Held' = [Held EXCEPT !["allowlist"] = chan]
        BY <2>2, <3>1 DEF AllowRecv
      <4> QED BY <4>1, <4>2 DEF Watch!Next, Watch!Take
    <3>2. CASE Lagged("allowlist") /\ UNCHANGED allow
      BY <2>2, <3>2 DEF AllowRecv, Lagged, Watch!vars
    <3> QED BY <2>2, <3>1, <3>2 DEF AllowRecv
  <2>3. CASE DnsRecv
    <3>1. CASE Ok("dns") /\ dns' = [dns EXCEPT !.pc = "lookup", !.cur = chan]
      <4>1. chan # None /\ chan' = chan
        BY <3>1 DEF Ok, Quiet
      <4>2. dns'.cur = chan
        BY <3>1
      <4>3. Held' = [Held EXCEPT !["dns"] = chan]
        BY <2>3, <4>2 DEF DnsRecv
      <4> QED BY <4>1, <4>3 DEF Watch!Next, Watch!Take
    <3>2. CASE Lagged("dns")
      BY <2>3, <3>2 DEF DnsRecv, Lagged, Ok, Goto, Watch!vars
    <3> QED BY <2>3, <3>1, <3>2 DEF DnsRecv
  <2>4. CASE Restart
    BY <2>4 DEF Restart, DnsStart, Watch!Next, Watch!Restart
  <2>5. CASE UNCHANGED <<chan, allow>> /\ dns'.cur = dns.cur
    BY <2>5 DEF Watch!vars
  <2>6. CASE Measure \/ Move \/ Propagate \/ UNCHANGED vars
    BY <2>5, <2>6 DEF Measure, Move, Propagate, channel, vars
  <2>7. CASE Reconcile \/ Update \/ UpdateFails
    BY <2>5, <2>7 DEF Reconcile, Update, Lookup, Fetch, Create, Delete, Confirm,
                      UpdateFails, Goto, channel
  <2> QED BY <2>1, <2>2, <2>3, <2>4, <2>6, <2>7 DEF Next
<1> QED BY <1>1, <1>2, InvHolds, PTL DEF Spec, Watch!Spec

=============================================================================
