----------------------------- MODULE Challenge -----------------------------
(***************************************************************************)
(* The door of the greylist: who is let through, the proof of work that a  *)
(* visitor at a listed address pays, and the clearance cookie it earns.    *)
(*                                                                         *)
(* The challenge is stateless.  A token is the three fields the visitor    *)
(* echoes and a seed, their HMAC; only their hash functions' contracts     *)
(* matter here: a seed or a MAC is the record it was computed from, the    *)
(* digest of an image tells its art, and a random inner seed is not told  *)
(* apart from another.  Kept across a restart are the key (crypto_keys)    *)
(* and what browsers hold; the art may change with the build.              *)
(***************************************************************************)
EXTENDS Naturals, FiniteSets

CONSTANTS
    Visitors,    \* browsers
    Places,      \* addresses
    Arts,        \* toll images, one in each build
    Blank,       \* no art, no cookie
    Freshness,   \* FRESHNESS_WINDOW
    Lifetime,    \* CLEARANCE_TTL_DAYS
    LastTick,    \* bound on the clock
    MaxTurns     \* bound on deployments, sweeps, moves and logins

ASSUME ChallengeAssumption ==
    /\ Blank \notin Arts /\ Blank \notin [expiry : Nat, mac : Nat]
    /\ Freshness \in Nat /\ Lifetime \in Nat /\ LastTick \in Nat /\ MaxTurns \in Nat

VARIABLES
    tick,        \* the clock
    art,         \* toll.version of the running build
    secret,      \* crypto_keys id 4
    listed,      \* the snapshot GreylistSet
    visitor,
    solves,      \* greylist_clearance: the addresses that paid
    turns,
    paid         \* history: until when each visitor has paid

challengeVars == <<tick, art, secret, listed, visitor, solves, turns, paid>>

-----------------------------------------------------------------------------

\* A gallery page; the exact /library and what is under it; the toll's pages.
Routes == {"page", "library", "shelf", "challenge", "login", "asset"}

NoKey == 0

\* The fault of a key that is drawn at every start.
KeyEachBoot(row) == row + 1

\* CryptoKey::get_or_create.
GetOrCreate(row) == IF row = NoKey THEN 1 ELSE row

NoToken    == [ts |-> 0, version |-> Blank, seed |-> Blank]
NewVisitor == [at |-> CHOOSE p \in Places : TRUE, in |-> FALSE,
               page |-> "none", want |-> "page", token |-> NoToken,
               digest |-> Blank, cached |-> {}, jar |-> Blank]

ChallengeInit ==
    /\ tick = 1
    /\ art \in Arts
    /\ secret = GetOrCreate(NoKey)
    /\ listed \in SUBSET Places
    /\ visitor = [v \in Visitors |-> NewVisitor]
    /\ solves = {} /\ turns = 0
    /\ paid = [v \in Visitors |-> 0]

(***************************************************************************)
(* greylist_challenge: no await between the snapshot, the session and the  *)
(* cookie.                                                                 *)
(***************************************************************************)

\* is_exempt_path: /library is exact, the others are prefixes.
ExemptPath(route) == route \in {"library", "challenge", "login", "asset"}

\* verify_clearance: the MAC over the claimed expiry, and not expired.
VerifyClearance(cookie) == cookie # Blank /\ cookie.mac = secret /\ cookie.expiry > tick

LetThrough(x, route) ==
    \/ x.at \notin listed
    \/ ExemptPath(route)
    \/ x.in
    \/ VerifyClearance(x.jar)

Becomes(v, x) == visitor' = [visitor EXCEPT ![v] = x]

\* A request comes to the door; who is not let through, or asks for
\* /challenge, gets the interstitial.  (A client that wants JSON gets a
\* notice instead, and nothing changes.)
Knock(v, route) ==
    LET tolls == route = "challenge" \/ ~LetThrough(visitor[v], route) IN
      /\ Becomes(v, [visitor[v] EXCEPT
                       !.page = IF tolls THEN "toll" ELSE "none",
                       !.want = IF tolls /\ route # "challenge" THEN route ELSE "page"])
      /\ UNCHANGED <<tick, art, secret, listed, solves, turns, paid>>

Visit(v, route) == visitor[v].page \in {"none", "toll"} /\ Knock(v, route)

\* The redirect after a toll that was paid.
Return(v) == visitor[v].page = "back" /\ Knock(v, visitor[v].want)

(***************************************************************************)
(* The toll, as the interstitial's script pays it.                         *)
(***************************************************************************)

Payment == UNCHANGED <<tick, art, secret, listed, turns>>

\* derive_seed: the HMAC of the echoed fields.
Seed(ts, version) == [key |-> secret, ts |-> ts, version |-> version]

\* image_digest: the chain over the pixels, which differs if a pixel does.
Digest(pixels) == [chain |-> pixels]

\* new_challenge.
NewChallenge(v) ==
    /\ visitor[v].page = "toll"
    /\ Becomes(v, [visitor[v] EXCEPT
                     !.page = "token",
                     !.token = [ts |-> tick, version |-> art, seed |-> Seed(tick, art)]])
    /\ UNCHANGED <<solves, paid>> /\ Payment

\* challenge_image, and the chain over it.  The image of a version is
\* immutable, so the browser may have it; for another build's version there
\* is none, and the script hashes what it is sent.
DrawImage(v) ==
    /\ visitor[v].page = "token"
    /\ LET x == visitor[v]
           has == x.token.version \in x.cached \cup {art} IN
         Becomes(v, [x EXCEPT !.page = "solved",
                              !.digest = Digest(IF has THEN x.token.version ELSE Blank),
                              !.cached = IF has THEN @ \cup {x.token.version} ELSE @])
    /\ UNCHANGED <<solves, paid>> /\ Payment

\* verify_answer: fresh, and the very answer the server computes again.
VerifyAnswer(x) ==
    /\ x.token.ts <= tick /\ tick - x.token.ts <= Freshness
    /\ x.token.seed = Seed(x.token.ts, x.token.version) /\ x.digest = Digest(art)

\* record_clearance, which may fail and hinders nothing.
RecordClearance(place) == solves' \in {solves, solves \cup {place}}

\* verify_challenge: by the Continue button, or again from the browser's
\* history.  What fails is sent back to the toll.
VerifyChallenge(v) ==
    LET x == visitor[v] IN
      /\ x.page \in {"solved", "none"} /\ x.token # NoToken
      /\ IF x.token.version = art /\ VerifyAnswer(x)
         THEN /\ Becomes(v, [x EXCEPT !.page = "back",
                                      !.jar = [expiry |-> tick + Lifetime, mac |-> secret]])
              /\ RecordClearance(x.at)
         ELSE Becomes(v, [x EXCEPT !.page = "toll"]) /\ UNCHANGED solves
      /\ paid' = IF x.digest = Digest(art) /\ x.token.version = art
                    /\ tick - x.token.ts <= Freshness
                 THEN [paid EXCEPT ![v] = tick + Lifetime] ELSE paid
      /\ Payment

(***************************************************************************)
(* What goes on around.                                                    *)
(***************************************************************************)

Turn == turns < MaxTurns /\ turns' = turns + 1 /\ UNCHANGED <<tick, solves, paid>>

\* ChallengeState::load, in a new build or the same; the snapshot is empty
\* until the sweep has read its rows.
Restart ==
    Turn /\ art' \in Arts /\ secret' = GetOrCreate(secret) /\ listed' = {} /\ UNCHANGED visitor

\* A sweep, a pin or a release (Greylist).
Relist == Turn /\ listed' \in SUBSET Places /\ UNCHANGED <<art, secret, visitor>>

\* A mobile visitor gets another address; someone logs in or out (Accounts).
Around(v) ==
    /\ Turn
    /\ \/ \E p \in Places : Becomes(v, [visitor[v] EXCEPT !.at = p])
       \/ Becomes(v, [visitor[v] EXCEPT !.in = ~@])
    /\ UNCHANGED <<art, secret, listed>>

Tick == tick < LastTick /\ tick' = tick + 1
        /\ UNCHANGED <<art, secret, listed, visitor, solves, turns, paid>>

ChallengeNext ==
    \/ \E v \in Visitors :
         \/ \E route \in Routes : Visit(v, route)
         \/ Return(v)
         \/ NewChallenge(v) \/ DrawImage(v) \/ VerifyChallenge(v)
         \/ Around(v)
    \/ Restart \/ Relist \/ Tick

ChallengeSpec == ChallengeInit /\ [][ChallengeNext]_challengeVars

-----------------------------------------------------------------------------

(***************************************************************************)
(* Who comes to the door from a listed address for more than the toll      *)
(* itself, the sign-in pages and their assets is let through exactly if    *)
(* logged in or paid up: a toll is paid by hashing the art of the running  *)
(* build for a challenge issued no longer than the freshness window ago,   *)
(* it is never refused, and it lasts its time over restarts, deployments   *)
(* and changes of address.  From an address not listed everyone comes in.  *)
(***************************************************************************)
TollIsJust ==
    \A v \in Visitors, route \in Routes :
      LetThrough(visitor[v], route) <=>
        \/ visitor[v].at \notin listed
        \/ visitor[v].in
        \/ paid[v] > tick
        \/ route \notin {"page", "shelf"}

=============================================================================
