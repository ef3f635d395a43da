---------------------------- MODULE Certificates ----------------------------
(***************************************************************************)
(* The certificate of the site: acme_provider_service.rs orders and renews *)
(* it, proving the domain by a TXT record at Cloudflare, stores it, and    *)
(* broadcasts it to the HTTPS endpoint, which swaps it in.                 *)
(*                                                                         *)
(* A certificate is the time it expires.  Time passes while everybody      *)
(* waits; the minutes of an order are within one unit.  "Trouble" is an    *)
(* outage of Let's Encrypt, Cloudflare, the DNS or the database: while it  *)
(* lasts, any step may fail.                                               *)
(***************************************************************************)
EXTENDS Integers

CONSTANTS
    Retry,       \* RETRY_BACKOFF
    Refresh,     \* CERT_REFRESH
    Window,      \* a certificate with this much left is to be renewed
    Life,        \* how long a new certificate lasts
    MaxTrouble,  \* units of trouble between two renewals
    Horizon,     \* bound on the clock
    MaxRestarts   \* bound on restarts

ASSUME CertAssumption ==
    /\ Retry \in Nat /\ Refresh \in Nat /\ Window \in Nat /\ Life \in Nat
    /\ Retry > 0 /\ Refresh > 0
    /\ MaxTrouble \in Nat /\ Horizon \in Nat /\ MaxRestarts \in Nat
    \* The window has room for the sleep before it and for every retry.
    /\ Window < Life /\ Refresh + MaxTrouble * Retry <= Window

VARIABLES
    clock, trouble,
    lost,        \* units of trouble since the certificate was last announced
    stored,      \* the certificates row, or 0
    account,     \* whether there is an acme_account row
    current,     \* current_certificate of the provider's loop, or 0
    stage,       \* where the provider is
    wake,        \* the end of its sleep
    channel,     \* the broadcast (capacity 1): what was not received, or 0
    served,      \* what the HTTPS endpoint serves, or 0 before its first one
    txt,         \* whose proofs are in _acme-challenge: "old", "new"
    order,       \* the order at Let's Encrypt
    valid,       \* whether it has authorized the domain once
    restarts

certVars == <<clock, trouble, lost, stored, account, current, stage, wake, channel,
              served, txt, order, valid, restarts>>

IsAwake     == wake = clock
In(s)     == stage = s /\ IsAwake
Goto(s)   == stage' = s /\ UNCHANGED wake
Sleep(d)  == stage' = "load" /\ wake' = clock + d
Outside   == <<clock, trouble, restarts>>
\* What the DNS must tell before a step on the proof is over.
Published(recs) == txt' = recs
\* What a process that stops leaves in the zone.
Leftover      == IF txt = {} THEN {} ELSE {"old"}

CertInit ==
    /\ clock = 1 /\ trouble = FALSE /\ lost = 0
    /\ stored = 0 /\ account = FALSE /\ current = 0
    /\ stage = "load" /\ wake = 1 /\ channel = 0 /\ served = 0
    /\ txt = {} /\ order = "none" /\ valid = FALSE /\ restarts = 0

-----------------------------------------------------------------------------

(***************************************************************************)
(* The provider: one turn of its loop is refresh_once.                     *)
(***************************************************************************)

\* The fault of renewing what has expired.
FreshTooLong(cert) == cert > clock
\* maybe_load: the stored certificate, if it has more than the window left.
Fresh(cert) == cert # 0 /\ cert - clock > Window

Loaded == IF Fresh(stored) THEN stored ELSE 0

\* The same as before: nothing to do for a while.
Unchanged ==
    /\ In("load") /\ Loaded = current /\ current # 0
    /\ Sleep(Refresh)
    /\ UNCHANGED <<Outside, lost, stored, account, current, channel, served, txt, order, valid>>

\* Another one: it is announced to the endpoint.  It is current first.
Broadcast ==
    /\ In("load") /\ Loaded # current /\ Loaded # 0
    /\ current' = Loaded /\ channel' = Loaded /\ lost' = 0
    /\ Sleep(Refresh)
    /\ UNCHANGED <<Outside, stored, account, served, txt, order, valid>>

\* None, or one in its window: create_or_load the account, and order.
Renew ==
    /\ In("load") /\ Loaded = 0
    /\ current' = 0 /\ Goto("account")
    /\ UNCHANGED <<Outside, lost, stored, account, channel, served, txt, order, valid>>

CreateOrLoad ==
    /\ In("account")
    /\ account' = TRUE /\ Goto("clean")
    /\ UNCHANGED <<Outside, lost, stored, current, channel, served, txt, order, valid>>

\* clean_proof deletes every old TXT record and waits until they are gone.
CleanProof ==
    /\ In("clean")
    /\ Published({}) /\ Goto("order")
    /\ UNCHANGED <<Outside, lost, stored, account, current, channel, served, order, valid>>

\* new_order.  The authorization may be valid still, from an order before.
NewOrder ==
    /\ In("order")
    /\ \/ order' = "pending" /\ Goto("prove")
       \/ order' = "ready" /\ valid /\ Goto("poll")
    /\ UNCHANGED <<Outside, lost, stored, account, current, channel, served, txt, valid>>

\* create_proof cleans, creates the record and waits until it is the only one.
CreateProof ==
    /\ In("prove")
    /\ Published({"new"}) /\ Goto("validate")
    /\ UNCHANGED <<Outside, lost, stored, account, current, channel, served, order, valid>>

\* set_challenge_ready; Let's Encrypt looks the proof up.
Validate ==
    /\ In("validate")
    /\ order' \in (IF "new" \in txt THEN {"ready"} ELSE {"invalid"})
                  \cup (IF trouble THEN {"pending", "invalid"} ELSE {})
    /\ valid' = (valid \/ order' = "ready")
    /\ Goto("poll")
    /\ UNCHANGED <<Outside, lost, stored, account, current, channel, served, txt>>

\* The polls end with a ready order, or fail: an invalid one, or five tries.
Finalize ==
    /\ In("poll") /\ order = "ready"
    /\ order' = "valid" /\ Goto("save")
    /\ UNCHANGED <<Outside, lost, stored, account, current, channel, served, txt, valid>>

\* CertificateDao::save, with the chain of this order; the next turn of the
\* loop comes at once.
Save ==
    /\ In("save")
    /\ stored' = clock + Life /\ order' = "none" /\ Goto("load")
    /\ UNCHANGED <<Outside, lost, account, current, channel, served, txt, valid>>

\* start: whatever failed, the loop goes on after RETRY_BACKOFF.
BackOff ==
    /\ IsAwake /\ (trouble \/ (stage = "poll" /\ order # "ready"))
    /\ Sleep(Retry)
    /\ order' = "none" /\ txt' = Leftover
    /\ UNCHANGED <<Outside, lost, stored, account, current, channel, served, valid>>

-----------------------------------------------------------------------------

(***************************************************************************)
(* The endpoint, and the world.                                            *)
(***************************************************************************)

\* The first certificate starts the servers.
FirstConfig ==
    /\ channel # 0 /\ served = 0
    /\ served' = channel /\ channel' = 0
    /\ UNCHANGED <<Outside, lost, stored, account, current, stage, wake, txt, order, valid>>

\* The fault of an endpoint that keeps its first certificate.
ReloadNever ==
    /\ channel # 0 /\ served # 0
    /\ channel' = 0
    /\ UNCHANGED <<Outside, lost, stored, account, current, stage, wake, served, txt, order, valid>>

\* A later one is swapped in: reload_from_config.
Reload ==
    /\ channel # 0 /\ served # 0
    /\ served' = channel /\ channel' = 0
    /\ UNCHANGED <<Outside, lost, stored, account, current, stage, wake, txt, order, valid>>

\* Time passes; trouble comes and goes with it.
Wait ==
    /\ ~IsAwake /\ channel = 0 /\ clock < Horizon
    /\ clock' = clock + 1
    /\ trouble' \in BOOLEAN
    /\ lost' = IF trouble' THEN lost + 1 ELSE lost
    /\ lost' <= MaxTrouble
    /\ UNCHANGED <<stored, account, current, stage, wake, channel, served, txt, order,
                   restarts, valid>>

\* The process is restarted: a service that failed takes it down, or a deploy.
Restart ==
    /\ restarts < MaxRestarts /\ restarts' = restarts + 1
    /\ current' = 0 /\ stage' = "load" /\ wake' = clock
    /\ channel' = 0 /\ served' = 0
    /\ order' = "none" /\ txt' = Leftover
    /\ UNCHANGED <<clock, trouble, lost, stored, account, valid>>

CertNext ==
    \/ Unchanged \/ Broadcast \/ Renew \/ CreateOrLoad \/ CleanProof \/ NewOrder
    \/ CreateProof \/ Validate \/ Finalize \/ Save \/ BackOff
    \/ FirstConfig \/ Reload \/ Wait \/ Restart

CertSpec == CertInit /\ [][CertNext]_certVars

-----------------------------------------------------------------------------

(***************************************************************************)
(* Correctness.                                                            *)
(***************************************************************************)

\* The certificate that visitors are shown has not expired: the renewal wins
\* against an outage as long as MaxTrouble in the window (CERT_REFRESH,
\* maybe_load, the endpoint's reload).
ServedIsValid == served # 0 => served > clock

\* What the provider takes for current is what is stored, and it is served or
\* on its way: current is set before the send, and never announced again
\* (refresh_once).
CurrentIsServed ==
    current # 0 => stored = current /\ (channel = current \/ (channel = 0 /\ served = current))

=============================================================================
