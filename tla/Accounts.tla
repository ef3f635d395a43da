------------------------------ MODULE Accounts ------------------------------
(***************************************************************************)
(* Accounts, sessions and roles: the users table and its API keys, the     *)
(* cookie sessions with the user snapshot they store, and the requests     *)
(* that act on them - the passkey ceremonies, logout, and the admin's role *)
(* changes, deletions and keys.                                            *)
(*                                                                         *)
(* A request works on a private copy of its session, loaded when it        *)
(* arrives and written back with its response, and every database call is  *)
(* a step of its own: two requests interleave at each of them.             *)
(***************************************************************************)
EXTENDS Naturals, FiniteSets

CONSTANTS
    Users,     \* user ids (Uuid::new_v4): a bound on how many are ever drawn
    Clients,   \* browsers, each with its session cookie
    Requests,  \* slots for concurrent requests
    Nobody     \* no user

ASSUME AccountsAssumption ==
    /\ IsFiniteSet(Users)
    /\ Nobody \notin Users \cup Clients

VARIABLES
    role,      \* the users table: each id's app_role, "none" without a row
    issued,    \* ids drawn by start_registration
    keys,      \* users with a live API key
    store,     \* the session store: each client's SessionData
    req,       \* the requests in flight
    granted    \* history: users that founded the site or were promoted

vars == <<role, issued, keys, store, req, granted>>

-----------------------------------------------------------------------------

\* Family behaves like Registered everywhere in this module.
Roles == {"Registered", "Admin"}

\* AuthenticationState: Anonymous, AuthOptions, RegistrationStarted(user)
\* and Authenticated(user), the last with the role it was stored with.
Auth == [st : {"anon", "options", "draft", "in"},
         user : Users \cup {Nobody}, role : Roles \cup {"none"}]

Anon        == [st |-> "anon", user |-> Nobody, role |-> "none"]
AuthOptions == [st |-> "options", user |-> Nobody, role |-> "none"]
Draft(u)    == [st |-> "draft", user |-> u, role |-> "none"]
LoggedIn(u, ro) == [st |-> "in", user |-> u, role |-> ro]

RoleOps  == {"demote", "promote", "delete"}
KeyOps   == {"mint", "revoke"}
AdminOps == RoleOps \cup KeyOps
OpenOps  == {"get", "options", "login", "draft", "register", "logout"}

Pc == {"idle", "bearer", "lookup", "run", "find", "count", "commit", "key",
       "update", "create", "cycle", "respond"}

Request == [pc : Pc, op : AdminOps \cup OpenOps,
            client : Clients \cup {Nobody},
            copy : Auth,      \* the request's copy of the session
            dirty : BOOLEAN,  \* the copy was modified
            id : Auth,        \* the SessionData the extractor hands out
            target : Users \cup {Nobody},
            was : Roles \cup {"none"},   \* the target's role, as read
            count : Nat]                 \* the number of admins, as counted

Idle == [pc |-> "idle", op |-> "get", client |-> Nobody, copy |-> Anon,
         dirty |-> FALSE, id |-> Anon, target |-> Nobody, was |-> "none",
         count |-> 0]

Exists(u) == role[u] # "none"
Admins    == {u \in Users : role[u] = "Admin"}

\* require_admin and require_admin_for_mutations.
IsAdmin(id) == id.st = "in" /\ id.role = "Admin"

-----------------------------------------------------------------------------

Init ==
    /\ role = [u \in Users |-> "none"]
    /\ issued = {}
    /\ keys = {}
    /\ store = [c \in Clients |-> Anon]
    /\ req = [r \in Requests |-> Idle]
    /\ granted = {}

\* The response is on its way; a modified copy still has to be saved.
Responding(q) == IF q.dirty /\ q.client # Nobody
                 THEN [Idle EXCEPT !.pc = "respond", !.client = q.client,
                                   !.copy = q.copy, !.dirty = TRUE]
                 ELSE Idle

\* A request q that now knows its identity enters its handler, or is refused.
Enter(q, id) ==
    IF q.op \in AdminOps /\ ~IsAdmin(id) THEN Responding(q)
    ELSE [q EXCEPT !.id = id,
                   !.pc = IF q.op \in OpenOps THEN "run"
                          ELSE IF q.op \in RoleOps THEN "find" ELSE "key"]

Set(r, q) == req' = [req EXCEPT ![r] = q]
At(r, pc) == req[r].pc = pc
Respond(r) == Set(r, Responding(req[r]))

(***************************************************************************)
(* Arrival and identity: the session layer, api_key_auth and               *)
(* refresh_session_role.                                                   *)
(***************************************************************************)

\* Load the session; an authenticated one has its user looked up first.
Arrive(r, c, op, t) ==
    /\ At(r, "idle")
    /\ LET auth == store[c]
           q == [Idle EXCEPT !.op = op, !.client = c, !.target = t,
                             !.copy = auth, !.pc = "lookup"] IN
         Set(r, IF auth.st = "in" THEN q ELSE Enter(q, auth))
    /\ UNCHANGED <<role, issued, keys, store, granted>>

\* A Bearer key that is live; its user is a second query.  (A key without an
\* admin operation changes nothing and is left out; so is a user's second key.)
ArriveWithKey(r, u, op, t) ==
    /\ At(r, "idle")
    /\ u \in keys
    /\ Set(r, [Idle EXCEPT !.op = op, !.target = t, !.pc = "bearer",
                           !.id = LoggedIn(u, "none")])
    /\ UNCHANGED <<role, issued, keys, store, granted>>

\* The key's user, with the role of the table; without a row, nobody.
ResolveKey(r) ==
    /\ At(r, "bearer")
    /\ LET u  == req[r].id.user
           id == IF Exists(u) THEN LoggedIn(u, role[u]) ELSE Anon IN
         Set(r, Enter(req[r], id))
    /\ UNCHANGED <<role, issued, keys, store, granted>>

\* The row exists: the copy and the identity take its role.  The copy is also
\* written at most hourly to extend the session, whether or not it changed.
LookupFound(r) ==
    /\ At(r, "lookup")
    /\ LET u  == req[r].copy.user
           id == LoggedIn(u, role[u]) IN
         /\ Exists(u)
         /\ \E touch \in BOOLEAN :
              Set(r, Enter([req[r] EXCEPT !.copy = id,
                                !.dirty = touch \/ id # req[r].copy], id))
    /\ UNCHANGED <<role, issued, keys, store, granted>>

\* The row is gone: anonymous for this request.
LookupGone(r) ==
    /\ At(r, "lookup")
    /\ ~Exists(req[r].copy.user)
    /\ Set(r, Enter(req[r], Anon))
    /\ UNCHANGED <<role, issued, keys, store, granted>>

\* The query fails: the request stays on the stored snapshot.
LookupError(r) ==
    /\ At(r, "lookup")
    /\ Set(r, Enter(req[r], req[r].copy))
    /\ UNCHANGED <<role, issued, keys, store, granted>>

\* The layer saves a modified copy with the response.
Finish(r) ==
    /\ At(r, "respond")
    /\ store' = [store EXCEPT ![req[r].client] = req[r].copy]
    /\ Set(r, Idle)
    /\ UNCHANGED <<role, issued, keys, granted>>

\* The client hangs up: the handler is dropped at the await it is in.
Disconnect(r) ==
    /\ ~At(r, "idle")
    /\ Set(r, Idle)
    /\ UNCHANGED <<role, issued, keys, store, granted>>

(***************************************************************************)
(* Handlers without a database write: a page, logout, the two ceremony     *)
(* starts.                                                                 *)
(***************************************************************************)

Rewrite(r, auth) ==
    Set(r, Responding([req[r] EXCEPT !.copy = auth,
                                     !.dirty = @ \/ auth # req[r].copy]))

Get(r) ==
    /\ At(r, "run") /\ req[r].op = "get"
    /\ Respond(r)
    /\ UNCHANGED <<role, issued, keys, store, granted>>

Logout(r) ==
    /\ At(r, "run") /\ req[r].op = "logout"
    /\ Rewrite(r, Anon)
    /\ UNCHANGED <<role, issued, keys, store, granted>>

\* authentication_options refuses a session that is already logged in.
StartLogin(r) ==
    /\ At(r, "run") /\ req[r].op = "options"
    /\ IF req[r].id.st = "in" THEN Respond(r) ELSE Rewrite(r, AuthOptions)
    /\ UNCHANGED <<role, issued, keys, store, granted>>

\* start_registration draws the new user's id.
StartRegistration(r) ==
    /\ At(r, "run") /\ req[r].op = "draft"
    /\ \E u \in Users \ issued :
         /\ issued' = issued \cup {u}
         /\ Rewrite(r, Draft(u))
    /\ UNCHANGED <<role, keys, store, granted>>

(***************************************************************************)
(* The passkey ceremonies' ends.                                           *)
(***************************************************************************)

\* finish_authentication: the user the passkey names is read as a whole row.
FindUser(r) ==
    /\ At(r, "run") /\ req[r].op = "login"
    /\ \E u \in issued :
         IF Exists(u) /\ req[r].id.st = "options"
         THEN \E pc \in {"update", "cycle"} :   \* auth_result.needs_update()
                Set(r, [req[r] EXCEPT !.target = u, !.was = role[u], !.pc = pc])
         ELSE Respond(r)
    /\ UNCHANGED <<role, issued, keys, store, granted>>

\* UserDao::update writes the whole row back, the role it read included.
UpdateUser(r) ==
    /\ At(r, "update")
    /\ role' = IF Exists(req[r].target)
               THEN [role EXCEPT ![req[r].target] = req[r].was] ELSE role
    /\ Set(r, [req[r] EXCEPT !.pc = "cycle"])
    /\ UNCHANGED <<issued, keys, store, granted>>

\* finish_registration: only a session with a draft gets as far as the table.
FinishRegistration(r) ==
    /\ At(r, "run") /\ req[r].op = "register"
    /\ IF req[r].id.st = "draft"
       THEN Set(r, [req[r] EXCEPT !.target = req[r].id.user, !.pc = "create"])
       ELSE Respond(r)
    /\ UNCHANGED <<role, issued, keys, store, granted>>

\* Faults for FoundingRole: everyone is the founder; the draft's placeholder
\* role is stored as it is.
FoundingRoleAnyone(none) == "Admin"
FoundingRolePlaceholder(none) == IF none THEN "Admin" ELSE "Anonymous"

\* UserDao::create: the first row of an empty table is the admin.
FoundingRole(none) == IF none THEN "Admin" ELSE "Registered"

\* One INSERT decides the role; it may fail on a taken name, and does fail
\* when the id has a row already.
CreateUser(r) ==
    /\ At(r, "create")
    /\ LET u == req[r].target
           empty == \A v \in Users : ~Exists(v) IN
         \/ /\ Respond(r)
            /\ UNCHANGED <<role, granted>>
         \/ /\ ~Exists(u)
            /\ role' = [role EXCEPT ![u] = FoundingRole(empty)]
            /\ granted' = IF empty THEN granted \cup {u} ELSE granted
            /\ Set(r, [req[r] EXCEPT !.was = FoundingRole(empty), !.pc = "cycle"])
    /\ UNCHANGED <<issued, keys, store>>

\* cycle_id drops the old record; the user as read goes into the new one.
CycleSession(r) ==
    /\ At(r, "cycle")
    /\ store' = [store EXCEPT ![req[r].client] = Anon]
    /\ Set(r, Responding([req[r] EXCEPT
                  !.copy = LoggedIn(req[r].target, req[r].was), !.dirty = TRUE]))
    /\ UNCHANGED <<role, issued, keys, granted>>

(***************************************************************************)
(* set_user_role, delete_user and the API keys of the caller.              *)
(***************************************************************************)

\* Demoting or deleting an admin asks how many there are.
FindTarget(r) ==
    /\ At(r, "find")
    /\ LET was == role[req[r].target] IN
         IF was = "none" THEN Respond(r)
         ELSE Set(r, [req[r] EXCEPT !.was = was,
                  !.pc = IF was = "Admin" /\ req[r].op # "promote"
                         THEN "count" ELSE "commit"])
    /\ UNCHANGED <<role, issued, keys, store, granted>>

\* Fault for LastAdmin: `< 1` for `<= 1`.
LastAdminOffByOne(n) == n < 1

LastAdmin(n) == n <= 1

CountAdmins(r) ==
    /\ At(r, "count")
    /\ LET n == Cardinality(Admins) IN
         IF LastAdmin(n) THEN Respond(r)
         ELSE Set(r, [req[r] EXCEPT !.count = n, !.pc = "commit"])
    /\ UNCHANGED <<role, issued, keys, store, granted>>

\* UserDao::set_role: one UPDATE, of no row if the user is gone by now.
CommitRole(r) ==
    /\ At(r, "commit") /\ req[r].op # "delete"
    /\ LET t == req[r].target
           new == IF req[r].op = "promote" THEN "Admin" ELSE "Registered" IN
         /\ role' = IF Exists(t) THEN [role EXCEPT ![t] = new] ELSE role
         /\ granted' = IF new = "Admin" THEN granted \cup {t} ELSE granted
    /\ Respond(r)
    /\ UNCHANGED <<issued, keys, store>>

\* UserDao::delete wipes the user's keys in the same transaction.
CommitDelete(r) ==
    /\ At(r, "commit") /\ req[r].op = "delete"
    /\ role' = [role EXCEPT ![req[r].target] = "none"]
    /\ keys' = keys \ {req[r].target}
    /\ Respond(r)
    /\ UNCHANGED <<issued, store, granted>>

\* The foreign key refuses a key for a user without a row.
MintKey(r) ==
    /\ At(r, "key") /\ req[r].op = "mint"
    /\ keys' = IF Exists(req[r].id.user) THEN keys \cup {req[r].id.user} ELSE keys
    /\ Respond(r)
    /\ UNCHANGED <<role, issued, store, granted>>

RevokeKey(r) ==
    /\ At(r, "key") /\ req[r].op = "revoke"
    /\ keys' = keys \ {req[r].id.user}
    /\ Respond(r)
    /\ UNCHANGED <<role, issued, store, granted>>

Handle(r) ==
    \/ Get(r) \/ Logout(r) \/ StartLogin(r) \/ StartRegistration(r)
    \/ FindUser(r) \/ UpdateUser(r) \/ FinishRegistration(r)
    \/ CreateUser(r) \/ CycleSession(r)
    \/ FindTarget(r) \/ CountAdmins(r) \/ CommitRole(r) \/ CommitDelete(r)
    \/ MintKey(r) \/ RevokeKey(r)

\* Role changes and deletions name a user of the admin's list.
Target(op) == IF op \in RoleOps THEN issued ELSE {Nobody}

Next ==
    \E r \in Requests :
      \/ \E c \in Clients, op \in AdminOps \cup OpenOps :
            \E t \in Target(op) : Arrive(r, c, op, t)
      \/ \E u \in Users, op \in AdminOps :
            \E t \in Target(op) : ArriveWithKey(r, u, op, t)
      \/ ResolveKey(r) \/ LookupFound(r) \/ LookupGone(r) \/ LookupError(r)
      \/ Handle(r) \/ Finish(r) \/ Disconnect(r)

Spec == Init /\ [][Next]_vars

-----------------------------------------------------------------------------

\* The types of the two tables, the session store and the requests.
TypeOK ==
    /\ role \in [Users -> Roles \cup {"none"}]
    /\ issued \subseteq Users
    /\ keys \subseteq Users
    /\ store \in [Clients -> Auth]
    /\ req \in [Requests -> Request]
    /\ granted \subseteq Users

\* Nobody holds admin power - in the table, in a stored session snapshot or as
\* the identity of a request - who neither founded the empty site nor was ever
\* promoted by an admin, whatever stale snapshot or row is written back.
OnlyGranted ==
    /\ \A u \in Users : role[u] = "Admin" => u \in granted
    /\ \A c \in Clients : IsAdmin(store[c]) => store[c].user \in granted
    /\ \A r \in Requests : IsAdmin(req[r].id) => req[r].id.user \in granted

\* The last-admin guard is sufficient as long as what the request read still
\* holds: the site loses its last admin only to a stale count or a stale role.
LockoutOnlyByStaleRead ==
    [][(Admins # {} /\ Admins' = {}) =>
          \E r \in Requests :
             \/ At(r, "commit") /\ ( \/ req[r].was # role[req[r].target]
                                     \/ req[r].count > Cardinality(Admins) )
             \/ At(r, "update") /\ req[r].was # role[req[r].target]]_role

\* admin/users.rs: "The last admin is protected from demote/delete (no
\* lockout)": while there are users, there is an admin.
AdminRemains == (\E u \in Users : Exists(u)) => Admins # {}

=============================================================================
