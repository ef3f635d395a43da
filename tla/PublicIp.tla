------------------------------ MODULE PublicIp ------------------------------
(***************************************************************************)
(* The server's public address: the provider that watches it, the          *)
(* broadcast channel of capacity one it announces changes on, and the      *)
(* channel's two readers - the DNS provider, which reconciles the          *)
(* domain's A records at Cloudflare, and the task that keeps the           *)
(* greylist's own-address allowlist.                                       *)
(*                                                                         *)
(* The address may move, the process may restart and a Cloudflare call may *)
(* fail between any two steps; a resolver may answer from the past.        *)
(***************************************************************************)
EXTENDS Naturals

CONSTANTS
    IPs,
    None,
    MaxEvents   \* bound on address changes, failed updates and restarts

ASSUME PublicIpAssumption ==
    /\ None \notin IPs
    /\ MaxEvents \in Nat

VARIABLES
    ip,        \* the address the server really has
    current,   \* the provider's current_ips
    measured,  \* what its fetch returned
    chan,      \* the one message the channel retains
    rx,        \* each receiver's cursor
    allow,     \* GreylistSet::public_ips
    dns,       \* the DNS provider
    records,   \* the A records at Cloudflare
    answer,    \* what a resolver says they are
    events

vars == <<ip, current, measured, chan, rx, allow, dns, records, answer, events>>

provider == <<current, measured>>
channel  == <<chan, rx>>
zone     == <<records, answer>>

-----------------------------------------------------------------------------

Readers == {"dns", "allowlist"}
Cursor  == {"empty", "ready", "lagged"}
Dns == [pc : {"wait", "lookup", "fetch", "create", "delete", "select"},
        cur : IPs \cup {None},   \* current_ips
        found : SUBSET IPs]      \* dns_ip_to_id
DnsStart == [pc |-> "wait", cur |-> None, found |-> {}]

Event == events < MaxEvents /\ events' = events + 1
Goto(pc) == dns' = [dns EXCEPT !.pc = pc]

RxStart == [r \in Readers |-> "empty"]

Init ==
    /\ ip \in IPs
    /\ records \in SUBSET IPs /\ answer = records
    /\ current = None /\ measured = None
    /\ chan = None /\ rx = RxStart
    /\ allow = None /\ dns = DnsStart
    /\ events = 0

-----------------------------------------------------------------------------
(* IpProviderService::start.  A failed fetch changes nothing.              *)

Measure ==
    /\ measured = None
    /\ measured' = ip
    /\ UNCHANGED <<ip, current, channel, allow, dns, zone, events>>

\* tokio's broadcast with room for one message: a second one overwrites it,
\* and a receiver that had not read the first has lagged.
Send(v) ==
    /\ chan' = v
    /\ rx' = [r \in Readers |-> IF rx[r] = "empty" THEN "ready" ELSE "lagged"]

\* The first address is always sent, a later one when it differs.
Announce ==
    /\ measured # None
    /\ IF measured # current THEN current' = measured /\ Send(measured)
                             ELSE UNCHANGED <<current, channel>>
    /\ measured' = None
    /\ UNCHANGED <<ip, allow, dns, zone, events>>

\* recv: the retained message, or the news that others were missed.
Ok(r)     == rx[r] = "ready"  /\ rx' = [rx EXCEPT ![r] = "empty"] /\ UNCHANGED chan
Lagged(r) == rx[r] = "lagged" /\ rx' = [rx EXCEPT ![r] = "ready"] /\ UNCHANGED chan

-----------------------------------------------------------------------------
(* The allowlist's reader.                                                 *)

\* Mutant: a reader that lagged skips the message the channel still has.
AllowRecvSkips ==
    /\ rx["allowlist"] # "empty"
    /\ rx' = [rx EXCEPT !["allowlist"] = "empty"]
    /\ allow' = IF rx["allowlist"] = "ready" THEN chan ELSE allow
    /\ UNCHANGED <<ip, provider, chan, dns, zone, events>>

AllowRecv ==
    /\ \/ Ok("allowlist") /\ allow' = chan
       \/ Lagged("allowlist") /\ UNCHANGED allow
    /\ UNCHANGED <<ip, provider, dns, zone, events>>

-----------------------------------------------------------------------------
(* DnsProviderService::start.                                              *)

\* Mutant: a first receive that lagged is taken for an address.
DnsRecvEager ==
    /\ dns.pc \in {"wait", "select"}
    /\ \/ Ok("dns") /\ dns' = [dns EXCEPT !.pc = "lookup", !.cur = chan]
       \/ Lagged("dns") /\ Goto("lookup")
    /\ UNCHANGED <<ip, provider, allow, zone, events>>

\* A reader that lagged waits on before the first address, and goes on with
\* the one it has after it.
DnsRecv ==
    /\ dns.pc \in {"wait", "select"}
    /\ \/ Ok("dns") /\ dns' = [dns EXCEPT !.pc = "lookup", !.cur = chan]
       \/ /\ Lagged("dns")
          /\ IF dns.pc = "wait" THEN UNCHANGED dns ELSE Goto("lookup")
    /\ UNCHANGED <<ip, provider, allow, zone, events>>

\* Mutant: only a changed address wakes the reconciliation.
ReconcileNever ==
    /\ FALSE
    /\ UNCHANGED vars

Reconcile ==
    /\ dns.pc = "select"
    /\ Goto("lookup")
    /\ UNCHANGED <<ip, provider, channel, allow, zone, events>>

\* lookup_dns: a failed lookup reads as no records.
Lookup ==
    /\ dns.pc = "lookup"
    /\ \E seen \in {answer, {}} : Goto(IF seen = {dns.cur} THEN "select" ELSE "fetch")
    /\ UNCHANGED <<ip, provider, channel, allow, zone, events>>

\* update_dns: the records as Cloudflare has them ...
Fetch ==
    /\ dns.pc = "fetch"
    /\ dns' = [dns EXCEPT !.pc = "create", !.found = records]
    /\ UNCHANGED <<ip, provider, channel, allow, zone, events>>

\* Mutant: the update replaces the records, deletions first.
CreateLast ==
    /\ dns.pc = "create"
    /\ IF dns.found \ {dns.cur} # {}
       THEN \E old \in dns.found \ {dns.cur} :
              /\ records' = records \ {old}
              /\ dns' = [dns EXCEPT !.found = @ \ {old}]
       ELSE records' = records \cup {dns.cur} /\ Goto("delete")
    /\ UNCHANGED <<ip, provider, channel, allow, answer, events>>

\* ... the missing one is created ...
Create ==
    /\ dns.pc = "create"
    /\ records' = IF dns.cur \in dns.found THEN records ELSE records \cup {dns.cur}
    /\ Goto("delete")
    /\ UNCHANGED <<ip, provider, channel, allow, answer, events>>

\* ... and the others are deleted, one call each.
Delete ==
    /\ dns.pc = "delete"
    /\ \E old \in dns.found \ {dns.cur} :
         /\ records' = records \ {old}
         /\ dns' = [dns EXCEPT !.found = @ \ {old}]
    /\ UNCHANGED <<ip, provider, channel, allow, answer, events>>

\* ensure_exists takes up to five minutes; its verdict is only logged.
Confirm ==
    /\ dns.pc = "delete"
    /\ dns.found \subseteq {dns.cur}
    /\ Goto("select")
    /\ UNCHANGED <<ip, provider, channel, allow, zone, events>>

\* A call to Cloudflare fails and ends the update; a call that was carried
\* out although it reported an error is its step followed by this one.
UpdateFails ==
    /\ Event
    /\ dns.pc \in {"fetch", "create", "delete"}
    /\ Goto("select")
    /\ UNCHANGED <<ip, provider, channel, allow, zone>>

-----------------------------------------------------------------------------
(* The world.                                                              *)

Move ==
    /\ Event
    /\ ip' \in IPs \ {ip}
    /\ UNCHANGED <<provider, channel, allow, dns, zone>>

Propagate ==
    /\ answer' = records
    /\ UNCHANGED <<ip, provider, channel, allow, dns, records, events>>

Restart ==
    /\ Event
    /\ current' = None /\ measured' = None
    /\ chan' = None /\ rx' = RxStart
    /\ allow' = None /\ dns' = DnsStart
    /\ UNCHANGED <<ip, zone>>

Update == Lookup \/ Fetch \/ Create \/ Delete \/ Confirm

Next ==
    \/ Measure \/ Announce
    \/ AllowRecv
    \/ DnsRecv \/ Reconcile \/ Update \/ UpdateFails
    \/ Move \/ Propagate \/ Restart

Spec == Init /\ [][Next]_vars

\* The services loop for ever and every call they make has a timeout.  Of a
\* message and a tick that are both there, select! picks one at random: a
\* message is not passed over for ever.  Resolvers forget in the end.
Fairness ==
    /\ WF_vars(Measure) /\ WF_vars(Announce)
    /\ WF_vars(AllowRecv)
    /\ SF_vars(DnsRecv) /\ WF_vars(Reconcile) /\ WF_vars(Update)
    /\ WF_vars(Propagate)

FairSpec == Spec /\ Fairness

-----------------------------------------------------------------------------

\* Types: past its first receive the DNS provider always has an address.
TypeOK ==
    /\ ip \in IPs
    /\ current \in IPs \cup {None} /\ measured \in IPs \cup {None}
    /\ chan \in IPs \cup {None}
    /\ rx \in [Readers -> Cursor]
    /\ allow \in IPs \cup {None}
    /\ dns \in Dns
    /\ dns.pc # "wait" => dns.cur \in IPs
    /\ records \subseteq IPs /\ answer \subseteq IPs

\* update_dns never leaves the domain without a record, however often it
\* fails, starts over or is cut short: what it deletes it has replaced.
NeverUnlisted == [][records # {} => records' # {}]_records

\* Once the address rests, the domain has exactly its record and the operator
\* allowlist has it, whatever messages were missed and updates failed.
Follows == <>[](records = {ip} /\ allow = ip)

\* A capacity of one makes the broadcast the channel its readers rely on: no
\* reader goes back to an older address or is left with one.
Held == [r \in Readers |-> IF r = "dns" THEN dns.cur ELSE allow]
Watch == INSTANCE Latest WITH Values <- IPs, value <- chan, held <- Held
DeliversLatest == Watch!FairSpec

=============================================================================
