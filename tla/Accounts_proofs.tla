--------------------------- MODULE Accounts_proofs ---------------------------
(***************************************************************************)
(* What holds of accounts and roles for every number of users, browsers    *)
(* and concurrent requests; and, at the end, of the door in front of them  *)
(* for every number of visitors and addresses.                             *)
(***************************************************************************)
EXTENDS Accounts, Challenge, FiniteSetTheorems, TLAPS

-----------------------------------------------------------------------------

(***************************************************************************)
(* Types.  A request whose pc is past a lookup has the user it is about.   *)
(***************************************************************************)
HasTarget(q) ==
    /\ q.pc \in {"bearer", "key"} => q.id.user \in Users
    /\ q.pc = "lookup" => q.copy.user \in Users
    /\ q.pc \in {"find", "count", "commit", "update", "create", "cycle"}
          => q.target \in Users
    /\ q.pc \in {"find", "count", "commit"} => q.op \in RoleOps
    /\ q.pc = "run" => q.op \in OpenOps
    /\ q.pc = "bearer" => q.op \in AdminOps
    /\ q.pc \in {"lookup", "run", "update", "create", "cycle", "respond"}
          => q.client \in Clients
    /\ q.pc \in {"update", "cycle"} => q.was \in Roles
    /\ q.op \in RoleOps => q.target \in Users

AuthShape(a) == a.st \in {"draft", "in"} => a.user \in Users

\* A typed request with the fields its pc needs.
GoodReq(q) == q \in Request /\ HasTarget(q) /\ AuthShape(q.copy) /\ AuthShape(q.id)

TInv ==
    /\ TypeOK
    /\ \A r \in Requests : GoodReq(req[r])
    /\ \A c \in Clients : AuthShape(store[c])

\* The session states are typed.
LEMMA AuthTyped ==
    /\ Anon \in Auth /\ AuthShape(Anon)
    /\ AuthOptions \in Auth /\ AuthShape(AuthOptions)
    /\ \A u \in Users : Draft(u) \in Auth /\ AuthShape(Draft(u))
    /\ \A u \in Users, ro \in Roles \cup {"none"} :
          LoggedIn(u, ro) \in Auth /\ AuthShape(LoggedIn(u, ro))
BY DEF Anon, AuthOptions, Draft, LoggedIn, Auth, AuthShape, Roles

\* A free slot is good.
LEMMA IdleGood == GoodReq(Idle)
BY AuthTyped DEF Idle, GoodReq, Request, HasTarget, Pc, OpenOps, AdminOps,
                 RoleOps, KeyOps, Anon

\* A response is good.
LEMMA RespondingGood ==
    ASSUME NEW q \in Request, AuthShape(q.copy)
    PROVE  GoodReq(Responding(q))
<1>1. CASE q.dirty /\ q.client # Nobody
  <2>1. Responding(q) = [Idle EXCEPT !.pc = "respond", !.client = q.client,
                                     !.copy = q.copy, !.dirty = TRUE]
    BY <1>1 DEF Responding
  <2>2. q.client \in Clients /\ q.copy \in Auth
    BY <1>1 DEF Request
  <2> QED BY <2>1, <2>2, IdleGood, ZenonT(40)
          DEF Idle, GoodReq, Request, HasTarget, Pc, OpenOps, AdminOps,
              RoleOps, KeyOps
<1>2. CASE ~(q.dirty /\ q.client # Nobody)
  BY <1>2, IdleGood DEF Responding
<1> QED BY <1>1, <1>2

\* Entering a handler keeps a request good.
LEMMA EnterGood ==
    ASSUME NEW q \in Request, NEW id \in Auth, AuthShape(q.copy), AuthShape(id),
           q.op \in RoleOps => q.target \in Users,
           q.op \in OpenOps => q.client \in Clients
    PROVE  GoodReq(Enter(q, id))
<1>1. CASE q.op \in AdminOps /\ ~IsAdmin(id)
  BY <1>1, RespondingGood DEF Enter
<1>2. CASE q.op \in OpenOps
  <2>1. Enter(q, id) = [q EXCEPT !.id = id, !.pc = "run"]
    BY <1>2 DEF Enter, OpenOps, AdminOps, RoleOps, KeyOps
  <2> QED BY <1>2, <2>1 DEF GoodReq, Request, HasTarget, Pc
<1>3. CASE q.op \in RoleOps /\ IsAdmin(id)
  <2>1. Enter(q, id) = [q EXCEPT !.id = id, !.pc = "find"]
    BY <1>3 DEF Enter, OpenOps, AdminOps, RoleOps, KeyOps
  <2> QED BY <1>3, <2>1 DEF GoodReq, Request, HasTarget, Pc
<1>4. CASE q.op \in KeyOps /\ IsAdmin(id)
  <2>1. Enter(q, id) = [q EXCEPT !.id = id, !.pc = "key"]
    BY <1>4 DEF Enter, OpenOps, AdminOps, RoleOps, KeyOps
  <2>2. id.user \in Users
    BY <1>4 DEF IsAdmin, AuthShape
  <2>3. q.op \notin RoleOps
    BY <1>4 DEF RoleOps, KeyOps
  <2> QED BY <2>1, <2>2, <2>3 DEF GoodReq, Request, HasTarget, Pc
<1> QED BY <1>1, <1>2, <1>3, <1>4 DEF Request, AdminOps

\* A fresh site is well typed.
LEMMA TypeInit == Init => TInv
BY IdleGood, AuthTyped
   DEF Init, TInv, TypeOK, GoodReq, AuthShape, Anon, Roles

\* A step that replaces one request by a good one keeps all of them good.
LEMMA SetGood ==
    ASSUME TInv, NEW r \in Requests, NEW q, GoodReq(q), Set(r, q)
    PROVE  /\ req' \in [Requests -> Request]
           /\ \A s \in Requests : GoodReq(req'[s])
BY DEF TInv, TypeOK, GoodReq, Set

\* Arriving and learning who asks keeps the types.
LEMMA TypeArrival ==
    ASSUME TInv, NEW r \in Requests,
           \/ \E c \in Clients, op \in AdminOps \cup OpenOps :
                 \E t \in Target(op) : Arrive(r, c, op, t)
           \/ \E u \in Users, op \in AdminOps :
                 \E t \in Target(op) : ArriveWithKey(r, u, op, t)
           \/ ResolveKey(r) \/ LookupFound(r) \/ LookupGone(r) \/ LookupError(r)
           \/ Finish(r) \/ Disconnect(r)
    PROVE  TInv'
<1> DEFINE Rest == UNCHANGED <<role, issued, keys, granted>>
<1>a. GoodReq(req[r]) /\ req[r] \in Request
  BY DEF TInv, GoodReq
<1>b. ASSUME NEW q, GoodReq(q), Set(r, q), Rest, store' = store PROVE TInv'
  BY <1>b, SetGood DEF TInv, TypeOK, AuthShape
<1>1. ASSUME NEW c \in Clients, NEW op \in AdminOps \cup OpenOps,
             NEW t \in Target(op), Arrive(r, c, op, t)
      PROVE  TInv'
  <2> DEFINE auth == store[c]
             q == [Idle EXCEPT !.op = op, !.client = c, !.target = t,
                               !.copy = auth, !.pc = "lookup"]
  <2>1. auth \in Auth /\ AuthShape(auth)
    BY DEF TInv, TypeOK
  <2>2. t \in Users \cup {Nobody} /\ (op \in RoleOps => t \in Users)
    BY DEF Target, TInv, TypeOK
  <2>3. /\ q \in Request /\ q.op = op /\ q.client = c /\ q.target = t
        /\ q.copy = auth /\ q.id = Anon /\ q.pc = "lookup"
    BY <2>1, <2>2, AuthTyped DEF Request, Idle, Pc, Roles
  <2>4. CASE auth.st = "in"
    <3>1. GoodReq(q)
      BY <2>1, <2>2, <2>3, <2>4, AuthTyped DEF GoodReq, HasTarget, AuthShape
    <3> HIDE DEF q
    <3> QED BY <1>1, <1>b, <2>4, <3>1 DEF Arrive, q
  <2>5. CASE auth.st # "in"
    <3> HIDE DEF q, auth
    <3>1. GoodReq(Enter(q, auth))
      BY <2>1, <2>2, <2>3, EnterGood
    <3>2. Set(r, Enter(q, auth)) /\ Rest /\ store' = store
      BY <1>1, <2>5 DEF Arrive, q, auth
    <3> QED BY <1>b, <3>1, <3>2
  <2> QED BY <2>4, <2>5
<1>2. ASSUME NEW u \in Users, NEW op \in AdminOps, NEW t \in Target(op),
             ArriveWithKey(r, u, op, t)
      PROVE  TInv'
  <2> DEFINE q == [Idle EXCEPT !.op = op, !.target = t, !.pc = "bearer",
                               !.id = LoggedIn(u, "none")]
  <2>2. t \in Users \cup {Nobody} /\ (op \in RoleOps => t \in Users)
    BY DEF Target, TInv, TypeOK
  <2>3. GoodReq(q)
    BY <2>2, IdleGood, AuthTyped, ZenonT(40)
       DEF GoodReq, Request, HasTarget, Idle, Pc, AuthShape, LoggedIn
  <2> HIDE DEF q
  <2> QED BY <1>2, <1>b, <2>3 DEF ArriveWithKey, q
<1>3. CASE ResolveKey(r)
  <2> DEFINE u == req[r].id.user
             id == IF Exists(u) THEN LoggedIn(u, role[u]) ELSE Anon
  <2>1. /\ u \in Users /\ req[r].op \in AdminOps /\ AuthShape(req[r].copy)
        /\ req[r].op \in RoleOps => req[r].target \in Users
    BY <1>3, <1>a DEF ResolveKey, At, GoodReq, HasTarget
  <2>2. id \in Auth /\ AuthShape(id)
    BY <2>1, AuthTyped DEF TInv, TypeOK
  <2>3. req[r].op \notin OpenOps
    BY <2>1 DEF AdminOps, RoleOps, KeyOps, OpenOps
  <2>4. Set(r, Enter(req[r], id)) /\ Rest /\ store' = store
    BY <1>3 DEF ResolveKey
  <2> HIDE DEF u, id
  <2>5. GoodReq(Enter(req[r], id))
    BY <1>a, <2>1, <2>2, <2>3, EnterGood
  <2> QED BY <1>b, <2>4, <2>5
<1>4. CASE LookupFound(r)
  <2> DEFINE u == req[r].copy.user
             id == LoggedIn(u, role[u])
  <2>1. /\ u \in Users /\ req[r].client \in Clients
        /\ req[r].op \in RoleOps => req[r].target \in Users
    BY <1>4, <1>a DEF LookupFound, At, GoodReq, HasTarget
  <2>2. id \in Auth /\ AuthShape(id)
    BY <2>1, AuthTyped DEF TInv, TypeOK
  <2>3. PICK d \in BOOLEAN :
           Set(r, Enter([req[r] EXCEPT !.copy = id, !.dirty = d], id))
    BY <1>4 DEF LookupFound
  <2> DEFINE q == [req[r] EXCEPT !.copy = id, !.dirty = d]
  <2> HIDE DEF id, u
  <2>4. /\ q \in Request /\ q.copy = id /\ q.op = req[r].op
        /\ q.target = req[r].target /\ q.client = req[r].client
    BY <1>a, <2>2 DEF Request
  <2> HIDE DEF q
  <2>5. GoodReq(Enter(q, id))
    BY <2>1, <2>2, <2>4, EnterGood
  <2>6. Rest /\ store' = store
    BY <1>4 DEF LookupFound
  <2> QED BY <1>b, <2>3, <2>5, <2>6 DEF q
<1>5. CASE LookupGone(r) \/ LookupError(r)
  <2>1. /\ req[r].client \in Clients
        /\ req[r].op \in RoleOps => req[r].target \in Users
    BY <1>5, <1>a DEF LookupGone, LookupError, At, GoodReq, HasTarget
  <2>2. req[r].copy \in Auth /\ AuthShape(req[r].copy)
    BY <1>a DEF GoodReq, Request
  <2>3. PICK id \in {Anon, req[r].copy} : Set(r, Enter(req[r], id))
    BY <1>5 DEF LookupGone, LookupError
  <2>4. GoodReq(Enter(req[r], id))
    BY <1>a, <2>1, <2>2, AuthTyped, EnterGood
  <2>5. Rest /\ store' = store
    BY <1>5 DEF LookupGone, LookupError
  <2> QED BY <1>b, <2>3, <2>4, <2>5
<1>6. CASE Finish(r)
  <2>1. /\ Set(r, Idle) /\ Rest /\ req[r].client \in Clients
        /\ store' = [store EXCEPT ![req[r].client] = req[r].copy]
        /\ req[r].copy \in Auth /\ AuthShape(req[r].copy)
    BY <1>6, <1>a DEF Finish, At, GoodReq, HasTarget, Request
  <2>2. /\ store' \in [Clients -> Auth]
        /\ \A c \in Clients : AuthShape(store'[c])
    BY <2>1 DEF TInv, TypeOK
  <2> QED BY <2>1, <2>2, IdleGood, SetGood DEF TInv, TypeOK
<1>7. CASE Disconnect(r)
  BY <1>7, <1>b, IdleGood DEF Disconnect
<1> QED BY <1>1, <1>2, <1>3, <1>4, <1>5, <1>6, <1>7

\* The handlers keep the types.
LEMMA TypeHandle ==
    ASSUME TInv, NEW r \in Requests, Handle(r)
    PROVE  TInv'
<1> DEFINE q == req[r]
<1>a. GoodReq(q) /\ q \in Request /\ q.copy \in Auth /\ AuthShape(q.copy)
  BY DEF TInv, GoodReq, Request
<1>b. ASSUME NEW p, GoodReq(p), Set(r, p),
             role' \in [Users -> Roles \cup {"none"}], issued' \subseteq Users,
             keys' \subseteq Users, granted' \subseteq Users, store' = store
      PROVE  TInv'
  BY <1>b, SetGood DEF TInv, TypeOK, AuthShape
<1>t. /\ role \in [Users -> Roles \cup {"none"}] /\ issued \subseteq Users
      /\ keys \subseteq Users /\ granted \subseteq Users
  BY DEF TInv, TypeOK
<1>r. GoodReq(Responding(q))
  BY <1>a, RespondingGood
<1>w. ASSUME NEW a \in Auth, AuthShape(a), NEW d \in BOOLEAN
      PROVE  GoodReq(Responding([q EXCEPT !.copy = a, !.dirty = d]))
  <2> DEFINE p == [q EXCEPT !.copy = a, !.dirty = d]
  <2>1. p \in Request /\ p.copy = a
    BY <1>a DEF Request
  <2> HIDE DEF p
  <2>2. GoodReq(Responding(p))
    BY <1>w, <2>1, RespondingGood
  <2> QED BY <2>2 DEF p
<1>1. CASE Get(r)
  BY <1>1, <1>b, <1>r, <1>t DEF Get, Respond
<1>2. CASE Logout(r)
  <2>1. PICK d \in BOOLEAN : Set(r, Responding([q EXCEPT !.copy = Anon, !.dirty = d]))
    BY <1>2, <1>a DEF Logout, Rewrite, Request
  <2>2. GoodReq(Responding([q EXCEPT !.copy = Anon, !.dirty = d]))
    BY <1>w, AuthTyped
  <2> QED BY <1>2, <1>b, <1>t, <2>1, <2>2 DEF Logout
<1>3. CASE StartLogin(r)
  <2>1. CASE Respond(r)
    BY <1>3, <2>1, <1>b, <1>r, <1>t DEF StartLogin, Respond
  <2>2. CASE Rewrite(r, AuthOptions)
    <3>1. PICK d \in BOOLEAN :
            Set(r, Responding([q EXCEPT !.copy = AuthOptions, !.dirty = d]))
      BY <2>2, <1>a DEF Rewrite, Request
    <3>2. GoodReq(Responding([q EXCEPT !.copy = AuthOptions, !.dirty = d]))
      BY <1>w, AuthTyped
    <3> QED BY <1>3, <1>b, <1>t, <3>1, <3>2 DEF StartLogin
  <2> QED BY <1>3, <2>1, <2>2 DEF StartLogin
<1>4. CASE StartRegistration(r)
  <2>1. PICK u \in Users \ issued :
          issued' = issued \cup {u} /\ Rewrite(r, Draft(u))
    BY <1>4 DEF StartRegistration
  <2>2. PICK d \in BOOLEAN :
          Set(r, Responding([q EXCEPT !.copy = Draft(u), !.dirty = d]))
    BY <2>1, <1>a DEF Rewrite, Request
  <2>3. GoodReq(Responding([q EXCEPT !.copy = Draft(u), !.dirty = d]))
    BY <1>w, AuthTyped
  <2> QED BY <1>4, <1>b, <1>t, <2>1, <2>2, <2>3 DEF StartRegistration
<1>5. CASE FindUser(r)
  <2>1. PICK u \in issued :
          IF Exists(u) /\ q.id.st = "options"
          THEN \E pc \in {"update", "cycle"} :
                 Set(r, [q EXCEPT !.target = u, !.was = role[u], !.pc = pc])
          ELSE Respond(r)
    BY <1>5 DEF FindUser
  <2>2. CASE Respond(r)
    BY <1>5, <2>2, <1>b, <1>r, <1>t DEF FindUser, Respond
  <2>3. ASSUME Exists(u), NEW pc \in {"update", "cycle"},
               Set(r, [q EXCEPT !.target = u, !.was = role[u], !.pc = pc])
        PROVE  TInv'
    <3>1. u \in Users /\ role[u] \in Roles /\ q.client \in Clients
      BY <1>5, <1>a, <1>t, <2>3 DEF Exists, FindUser, At, GoodReq, HasTarget
    <3>2. GoodReq([q EXCEPT !.target = u, !.was = role[u], !.pc = pc])
      BY <1>a, <3>1 DEF GoodReq, Request, HasTarget, Pc
    <3> QED BY <1>5, <1>b, <1>t, <2>3, <3>2 DEF FindUser
  <2> QED BY <2>1, <2>2, <2>3
<1>6. CASE UpdateUser(r)
  <2>1. q.target \in Users /\ q.was \in Roles /\ q.client \in Clients
    BY <1>6, <1>a DEF UpdateUser, At, GoodReq, HasTarget
  <2>2. GoodReq([q EXCEPT !.pc = "cycle"])
    BY <1>a, <2>1 DEF GoodReq, Request, HasTarget, Pc
  <2>3. role' \in [Users -> Roles \cup {"none"}]
    BY <1>6, <1>t, <2>1 DEF UpdateUser
  <2> QED BY <1>6, <1>b, <1>t, <2>2, <2>3 DEF UpdateUser
<1>7. CASE FinishRegistration(r)
  <2>1. CASE q.id.st = "draft"
    <3>1. q.id.user \in Users /\ q.client \in Clients
      BY <1>7, <1>a, <2>1 DEF FinishRegistration, At, GoodReq, HasTarget, AuthShape
    <3>2. GoodReq([q EXCEPT !.target = q.id.user, !.pc = "create"])
      BY <1>a, <3>1 DEF GoodReq, Request, HasTarget, Pc
    <3> QED BY <1>7, <2>1, <1>b, <1>t, <3>2 DEF FinishRegistration
  <2>2. CASE q.id.st # "draft"
    BY <1>7, <2>2, <1>b, <1>r, <1>t DEF FinishRegistration, Respond
  <2> QED BY <2>1, <2>2
<1>8. CASE CreateUser(r)
  <2> DEFINE u == q.target
             ro == FoundingRole(\A v \in Users : ~Exists(v))
  <2>1. u \in Users /\ q.client \in Clients /\ ro \in Roles
    BY <1>8, <1>a DEF CreateUser, At, GoodReq, HasTarget, FoundingRole, Roles
  <2>2. CASE Respond(r) /\ UNCHANGED <<role, granted>>
    BY <1>8, <2>2, <1>b, <1>r, <1>t DEF CreateUser, Respond
  <2>3. CASE /\ role' = [role EXCEPT ![u] = ro]
             /\ granted' \in {granted, granted \cup {u}}
             /\ Set(r, [q EXCEPT !.was = ro, !.pc = "cycle"])
    <3> HIDE DEF ro
    <3>1. GoodReq([q EXCEPT !.was = ro, !.pc = "cycle"])
      BY <1>a, <2>1 DEF GoodReq, Request, HasTarget, Pc
    <3>2. /\ role' \in [Users -> Roles \cup {"none"}]
          /\ granted' \subseteq Users
      BY <1>t, <2>1, <2>3
    <3> QED BY <1>8, <2>3, <1>b, <1>t, <3>1, <3>2 DEF CreateUser
  <2> QED BY <1>8, <2>2, <2>3 DEF CreateUser
<1>9. CASE CycleSession(r)
  <2> DEFINE a == LoggedIn(q.target, q.was)
             p == Responding([q EXCEPT !.copy = a, !.dirty = TRUE])
  <2>1. q.target \in Users /\ q.was \in Roles /\ q.client \in Clients
    BY <1>9, <1>a DEF CycleSession, At, GoodReq, HasTarget
  <2>2. a \in Auth /\ AuthShape(a)
    BY <2>1, AuthTyped
  <2>3. GoodReq(p)
    BY <1>w, <2>2
  <2>4. /\ store' = [store EXCEPT ![q.client] = Anon] /\ Set(r, p)
        /\ UNCHANGED <<role, issued, keys, granted>>
    BY <1>9 DEF CycleSession
  <2>5. /\ store' \in [Clients -> Auth]
        /\ \A c \in Clients : AuthShape(store'[c])
    BY <2>1, <2>4, AuthTyped DEF TInv, TypeOK
  <2> HIDE DEF p
  <2> QED BY <2>3, <2>4, <2>5, SetGood DEF TInv, TypeOK
<1>10. CASE FindTarget(r)
  <2>1. q.target \in Users /\ q.op \in RoleOps
    BY <1>10, <1>a DEF FindTarget, At, GoodReq, HasTarget
  <2>2. CASE role[q.target] = "none"
    BY <1>10, <2>2, <1>b, <1>r, <1>t DEF FindTarget, Respond
  <2>3. ASSUME role[q.target] # "none", NEW pc \in {"count", "commit"},
               Set(r, [q EXCEPT !.was = role[q.target], !.pc = pc])
        PROVE  TInv'
    <3>1. GoodReq([q EXCEPT !.was = role[q.target], !.pc = pc])
      BY <1>a, <1>t, <2>1 DEF GoodReq, Request, HasTarget, Pc, RoleOps
    <3> QED BY <1>10, <1>b, <1>t, <2>3, <3>1 DEF FindTarget
  <2> QED BY <1>10, <2>2, <2>3 DEF FindTarget
<1>11. CASE CountAdmins(r)
  <2> DEFINE n == Cardinality(Admins)
  <2>1. n \in Nat
    BY AccountsAssumption, FS_Subset, FS_CardinalityType DEF Admins
  <2>2. CASE Respond(r)
    BY <1>11, <2>2, <1>b, <1>r, <1>t DEF CountAdmins, Respond
  <2>3. CASE Set(r, [q EXCEPT !.count = n, !.pc = "commit"])
    <3> HIDE DEF n
    <3>1. q.target \in Users /\ q.op \in RoleOps
      BY <1>11, <1>a DEF CountAdmins, At, GoodReq, HasTarget
    <3>2. GoodReq([q EXCEPT !.count = n, !.pc = "commit"])
      BY <1>a, <2>1, <3>1 DEF GoodReq, Request, HasTarget, Pc, RoleOps
    <3> QED BY <1>11, <1>b, <1>t, <2>3, <3>2 DEF CountAdmins
  <2> QED BY <1>11, <2>2, <2>3 DEF CountAdmins
<1>12. CASE CommitRole(r)
  <2>1. q.target \in Users
    BY <1>12, <1>a DEF CommitRole, At, GoodReq, HasTarget
  <2>2. role' \in [Users -> Roles \cup {"none"}] /\ granted' \subseteq Users
    BY <1>12, <1>t, <2>1 DEF CommitRole, Roles
  <2> QED BY <1>12, <1>b, <1>r, <1>t, <2>2 DEF CommitRole, Respond
<1>13. CASE CommitDelete(r)
  <2>1. role' \in [Users -> Roles \cup {"none"}] /\ keys' \subseteq Users
    BY <1>13, <1>t DEF CommitDelete
  <2> QED BY <1>13, <1>b, <1>r, <1>t, <2>1 DEF CommitDelete, Respond
<1>14. CASE MintKey(r)
  <2>1. q.id.user \in Users
    BY <1>14, <1>a DEF MintKey, At, GoodReq, HasTarget
  <2>2. keys' \subseteq Users
    BY <1>14, <1>t, <2>1 DEF MintKey
  <2> QED BY <1>14, <1>b, <1>r, <1>t, <2>2 DEF MintKey, Respond
<1>15. CASE RevokeKey(r)
  <2>1. keys' \subseteq Users
    BY <1>15, <1>t DEF RevokeKey
  <2> QED BY <1>15, <1>b, <1>r, <1>t, <2>1 DEF RevokeKey, Respond
<1> QED BY <1>1, <1>2, <1>3, <1>4, <1>5, <1>6, <1>7, <1>8, <1>9, <1>10, <1>11,
           <1>12, <1>13, <1>14, <1>15 DEF Handle

\* Every step keeps the types.
LEMMA TypeStep == TInv /\ [Next]_vars => TInv'
<1> SUFFICES ASSUME TInv, [Next]_vars PROVE TInv'
  OBVIOUS
<1>1. CASE UNCHANGED vars
  BY <1>1 DEF vars, TInv, TypeOK, GoodReq, AuthShape
<1>2. CASE Next
  <2>1. PICK r \in Requests :
      \/ \E c \in Clients, op \in AdminOps \cup OpenOps :
            \E t \in Target(op) : Arrive(r, c, op, t)
      \/ \E u \in Users, op \in AdminOps :
            \E t \in Target(op) : ArriveWithKey(r, u, op, t)
      \/ ResolveKey(r) \/ LookupFound(r) \/ LookupGone(r) \/ LookupError(r)
      \/ Handle(r) \/ Finish(r) \/ Disconnect(r)
    BY <1>2 DEF Next
  <2> QED BY <2>1, TypeArrival, TypeHandle
<1> QED BY <1>1, <1>2

\* The strengthened type invariant, used by the theorems below.
LEMMA TypeStrong == Spec => []TInv
BY TypeInit, TypeStep, PTL DEF Spec

\* The tables, the session store and the requests keep their types.
THEOREM TypeCorrect == Spec => []TypeOK
BY TypeStrong, PTL DEF TInv

-----------------------------------------------------------------------------

(***************************************************************************)
(* Admin power is only ever granted.  A snapshot of it travels from the    *)
(* table into identities, session copies and the row a login holds, and    *)
(* from the last two back into the store and the table: the invariant      *)
(* follows it to each of these places.                                     *)
(***************************************************************************)
Earned(q) ==
    /\ IsAdmin(q.id) => q.id.user \in granted
    /\ IsAdmin(q.copy) => q.copy.user \in granted
    /\ q.pc \in {"update", "cycle"} /\ q.was = "Admin" => q.target \in granted

GInv == OnlyGranted /\ \A r \in Requests : Earned(req[r])

\* The session states that carry no power.
LEMMA Powerless ==
    /\ ~IsAdmin(Anon) /\ ~IsAdmin(AuthOptions) /\ Earned(Idle)
    /\ \A u : ~IsAdmin(Draft(u)) /\ ~IsAdmin(LoggedIn(u, "none"))
    /\ \A u, ro : IsAdmin(LoggedIn(u, ro)) => ro = "Admin" /\ LoggedIn(u, ro).user = u
BY DEF IsAdmin, Anon, AuthOptions, Draft, LoggedIn, Earned, Idle

\* A response carries no more power than the request did.
LEMMA RespondingEarned ==
    ASSUME NEW q \in Request, IsAdmin(q.copy) => q.copy.user \in granted
    PROVE  Earned(Responding(q))
BY Powerless DEF Responding, Earned, Idle

\* Entering a handler takes the power of the identity, and no other.
LEMMA EnterEarned ==
    ASSUME NEW q \in Request, NEW id \in Auth,
           IsAdmin(q.copy) => q.copy.user \in granted,
           IsAdmin(id) => id.user \in granted
    PROVE  Earned(Enter(q, id))
<1>1. CASE q.op \in AdminOps /\ ~IsAdmin(id)
  BY <1>1, RespondingEarned DEF Enter
<1>2. CASE ~(q.op \in AdminOps /\ ~IsAdmin(id))
  <2>1. PICK pc \in {"run", "find", "key"} :
          Enter(q, id) = [q EXCEPT !.id = id, !.pc = pc]
    BY <1>2 DEF Enter
  <2> QED BY <2>1 DEF Earned, Request
<1> QED BY <1>1, <1>2

\* A step that replaces one request by an earned one, adds no admin that was
\* not granted, and saves nothing.
LEMMA StepEarned ==
    ASSUME TInv, GInv, NEW r \in Requests, NEW q, Earned(q), Set(r, q),
           granted \subseteq granted', store' = store,
           \A u \in Users : role'[u] = "Admin" => u \in granted'
    PROVE  GInv'
<1>1. (\A s \in Requests : Earned(req[s]))'
  BY DEF GInv, Earned, Set, TInv, TypeOK
<1>2. (\A s \in Requests : IsAdmin(req[s].id) => req[s].id.user \in granted)'
  BY <1>1 DEF Earned
<1> QED BY <1>1, <1>2 DEF GInv, OnlyGranted, Earned

\* Arriving and learning who asks grants nothing.
LEMMA EarnedArrival ==
    ASSUME TInv, GInv, NEW r \in Requests,
           \/ \E c \in Clients, op \in AdminOps \cup OpenOps :
                 \E t \in Target(op) : Arrive(r, c, op, t)
           \/ \E u \in Users, op \in AdminOps :
                 \E t \in Target(op) : ArriveWithKey(r, u, op, t)
           \/ ResolveKey(r) \/ LookupFound(r) \/ LookupGone(r) \/ LookupError(r)
           \/ Finish(r) \/ Disconnect(r)
    PROVE  GInv'
<1> DEFINE Rest == UNCHANGED <<role, issued, keys, granted>>
<1>a. /\ Earned(req[r]) /\ req[r] \in Request /\ GoodReq(req[r])
      /\ \A u \in Users : role[u] = "Admin" => u \in granted
  BY DEF GInv, TInv, GoodReq, OnlyGranted
<1>b. ASSUME NEW q, Earned(q), Set(r, q), Rest, store' = store PROVE GInv'
  <2>1. \A u \in Users : role'[u] = "Admin" => u \in granted'
    BY <1>a, <1>b
  <2> QED BY <1>b, <2>1, StepEarned
<1>1. ASSUME NEW c \in Clients, NEW op \in AdminOps \cup OpenOps,
             NEW t \in Target(op), Arrive(r, c, op, t)
      PROVE  GInv'
  <2> DEFINE auth == store[c]
             q == [Idle EXCEPT !.op = op, !.client = c, !.target = t,
                               !.copy = auth, !.pc = "lookup"]
  <2>1. auth \in Auth /\ (IsAdmin(auth) => auth.user \in granted)
    BY DEF TInv, TypeOK, GInv, OnlyGranted
  <2>2. t \in Users \cup {Nobody}
    BY DEF Target, TInv, TypeOK
  <2>3. q \in Request /\ q.copy = auth /\ q.id = Anon /\ q.pc = "lookup"
    BY <2>1, <2>2, AuthTyped DEF Request, Idle, Pc, Roles
  <2> HIDE DEF q, auth
  <2>4. Earned(q)
    BY <2>1, <2>3, Powerless DEF Earned
  <2>5. Earned(Enter(q, auth))
    BY <2>1, <2>3, EnterEarned
  <2>6. (Set(r, q) \/ Set(r, Enter(q, auth))) /\ Rest /\ store' = store
    BY <1>1 DEF Arrive, q, auth
  <2> QED BY <1>b, <2>4, <2>5, <2>6
<1>2. ASSUME NEW u \in Users, NEW op \in AdminOps, NEW t \in Target(op),
             ArriveWithKey(r, u, op, t)
      PROVE  GInv'
  <2> DEFINE q == [Idle EXCEPT !.op = op, !.target = t, !.pc = "bearer",
                               !.id = LoggedIn(u, "none")]
  <2>1. q.id = LoggedIn(u, "none") /\ q.copy = Anon /\ q.pc = "bearer"
    BY DEF Idle
  <2> HIDE DEF q
  <2>2. Earned(q)
    BY <2>1, Powerless DEF Earned
  <2> QED BY <1>2, <1>b, <2>2 DEF ArriveWithKey, q
<1>3. CASE ResolveKey(r)
  <2> DEFINE u == req[r].id.user
             id == IF Exists(u) THEN LoggedIn(u, role[u]) ELSE Anon
  <2>1. u \in Users
    BY <1>3, <1>a DEF ResolveKey, At, GoodReq, HasTarget
  <2>2. id \in Auth /\ (IsAdmin(id) => id.user \in granted)
    BY <2>1, <1>a, AuthTyped, Powerless DEF TInv, TypeOK
  <2>3. Set(r, Enter(req[r], id)) /\ Rest /\ store' = store
    BY <1>3 DEF ResolveKey
  <2> HIDE DEF u, id
  <2>4. Earned(Enter(req[r], id))
    BY <1>a, <2>2, EnterEarned DEF Earned
  <2> QED BY <1>b, <2>3, <2>4
<1>4. CASE LookupFound(r)
  <2> DEFINE u == req[r].copy.user
             id == LoggedIn(u, role[u])
  <2>1. u \in Users
    BY <1>4, <1>a DEF LookupFound, At, GoodReq, HasTarget
  <2>2. id \in Auth /\ (IsAdmin(id) => id.user \in granted)
    BY <2>1, <1>a, AuthTyped, Powerless DEF TInv, TypeOK
  <2>3. PICK d \in BOOLEAN :
           Set(r, Enter([req[r] EXCEPT !.copy = id, !.dirty = d], id))
    BY <1>4 DEF LookupFound
  <2> DEFINE q == [req[r] EXCEPT !.copy = id, !.dirty = d]
  <2> HIDE DEF id, u
  <2>4. q \in Request /\ q.copy = id
    BY <1>a, <2>2 DEF Request
  <2> HIDE DEF q
  <2>5. Earned(Enter(q, id))
    BY <2>2, <2>4, EnterEarned
  <2>6. Rest /\ store' = store
    BY <1>4 DEF LookupFound
  <2> QED BY <1>b, <2>3, <2>5, <2>6 DEF q
<1>5. CASE LookupGone(r) \/ LookupError(r)
  <2>1. PICK id \in {Anon, req[r].copy} : Set(r, Enter(req[r], id))
    BY <1>5 DEF LookupGone, LookupError
  <2>2. id \in Auth /\ (IsAdmin(id) => id.user \in granted)
    BY <1>a, AuthTyped, Powerless DEF Earned, Request
  <2>3. Earned(Enter(req[r], id))
    BY <1>a, <2>2, EnterEarned DEF Earned
  <2>4. Rest /\ store' = store
    BY <1>5 DEF LookupGone, LookupError
  <2> QED BY <1>b, <2>1, <2>3, <2>4
<1>6. CASE Finish(r)
  <2>1. /\ Set(r, Idle) /\ Rest
        /\ store' = [store EXCEPT ![req[r].client] = req[r].copy]
    BY <1>6 DEF Finish
  <2>2. \A c \in Clients : IsAdmin(store'[c]) => store'[c].user \in granted
    BY <2>1, <1>a DEF GInv, OnlyGranted, Earned, TInv, TypeOK
  <2>3. \A s \in Requests : Earned(req'[s])
    BY <2>1, Powerless DEF GInv, Set, TInv, TypeOK
  <2> QED BY <2>1, <2>2, <2>3 DEF GInv, OnlyGranted, Earned
<1>7. CASE Disconnect(r)
  BY <1>7, <1>b, Powerless DEF Disconnect
<1> QED BY <1>1, <1>2, <1>3, <1>4, <1>5, <1>6, <1>7

\* The handlers grant admin power only to a founder or by a promotion.
LEMMA EarnedHandle ==
    ASSUME TInv, GInv, NEW r \in Requests, Handle(r)
    PROVE  GInv'
<1> DEFINE q == req[r]
           Powers == \A u \in Users : role'[u] = "Admin" => u \in granted'
<1>a. /\ Earned(q) /\ q \in Request /\ GoodReq(q)
      /\ \A u \in Users : role[u] = "Admin" => u \in granted
      /\ role \in [Users -> Roles \cup {"none"}]
  BY DEF GInv, TInv, TypeOK, GoodReq, OnlyGranted
<1>b. ASSUME NEW p, Earned(p), Set(r, p), granted \subseteq granted',
             store' = store, Powers
      PROVE  GInv'
  BY <1>b, StepEarned
<1>r. Earned(Responding(q))
  BY <1>a, RespondingEarned DEF Earned
<1>w. ASSUME NEW a \in Auth, ~IsAdmin(a) \/ a.user \in granted, NEW d \in BOOLEAN
      PROVE  Earned(Responding([q EXCEPT !.copy = a, !.dirty = d]))
  <2> DEFINE p == [q EXCEPT !.copy = a, !.dirty = d]
  <2>1. p \in Request /\ p.copy = a
    BY <1>a DEF Request
  <2> HIDE DEF p
  <2>2. Earned(Responding(p))
    BY <1>w, <2>1, RespondingEarned
  <2> QED BY <2>2 DEF p
<1>1. CASE Get(r) \/ RevokeKey(r) \/ MintKey(r)
  <2>1. Set(r, Responding(q)) /\ UNCHANGED <<role, store, granted>>
    BY <1>1 DEF Get, RevokeKey, MintKey, Respond
  <2> QED BY <1>a, <1>b, <1>r, <2>1
<1>2. CASE Logout(r) \/ StartLogin(r) \/ StartRegistration(r)
  <2>1. \/ Respond(r)
        \/ \E a \in Auth : ~IsAdmin(a) /\ Rewrite(r, a)
    BY <1>2, AuthTyped, Powerless DEF Logout, StartLogin, StartRegistration
  <2>2. UNCHANGED <<role, store, granted>>
    BY <1>2 DEF Logout, StartLogin, StartRegistration
  <2>3. CASE Respond(r)
    BY <1>a, <1>b, <1>r, <2>2, <2>3 DEF Respond
  <2>4. ASSUME NEW a \in Auth, ~IsAdmin(a), Rewrite(r, a) PROVE GInv'
    <3>1. PICK d \in BOOLEAN : Set(r, Responding([q EXCEPT !.copy = a, !.dirty = d]))
      BY <2>4, <1>a DEF Rewrite, Request
    <3>2. Earned(Responding([q EXCEPT !.copy = a, !.dirty = d]))
      BY <2>4, <1>w
    <3> QED BY <1>a, <1>b, <2>2, <3>1, <3>2
  <2> QED BY <2>1, <2>3, <2>4
<1>3. CASE FindUser(r)
  <2>1. PICK u \in issued :
          IF Exists(u) /\ q.id.st = "options"
          THEN \E pc \in {"update", "cycle"} :
                 Set(r, [q EXCEPT !.target = u, !.was = role[u], !.pc = pc])
          ELSE Respond(r)
    BY <1>3 DEF FindUser
  <2>2. UNCHANGED <<role, store, granted>>
    BY <1>3 DEF FindUser
  <2>3. CASE Respond(r)
    BY <1>a, <1>b, <1>r, <2>2, <2>3 DEF Respond
  <2>4. ASSUME NEW pc \in {"update", "cycle"},
               Set(r, [q EXCEPT !.target = u, !.was = role[u], !.pc = pc])
        PROVE  GInv'
    <3>1. u \in Users
      BY DEF TInv, TypeOK
    <3>2. Earned([q EXCEPT !.target = u, !.was = role[u], !.pc = pc])
      BY <1>a, <3>1 DEF Earned, Request
    <3> QED BY <1>a, <1>b, <2>2, <2>4, <3>2
  <2> QED BY <2>1, <2>3, <2>4
<1>4. CASE UpdateUser(r)
  <2>1. /\ q.pc = "update" /\ Set(r, [q EXCEPT !.pc = "cycle"])
        /\ UNCHANGED <<store, granted>>
        /\ role' = IF Exists(q.target) THEN [role EXCEPT ![q.target] = q.was] ELSE role
    BY <1>4 DEF UpdateUser, At
  <2>2. Earned([q EXCEPT !.pc = "cycle"])
    BY <1>a, <2>1 DEF Earned, Request
  <2>3. Powers
    BY <1>a, <2>1 DEF Earned
  <2> QED BY <1>b, <2>1, <2>2, <2>3
<1>5. CASE FinishRegistration(r)
  <2>1. UNCHANGED <<role, store, granted>>
    BY <1>5 DEF FinishRegistration
  <2>2. CASE Respond(r)
    BY <1>a, <1>b, <1>r, <2>1, <2>2 DEF Respond
  <2>3. CASE Set(r, [q EXCEPT !.target = q.id.user, !.pc = "create"])
    <3>1. Earned([q EXCEPT !.target = q.id.user, !.pc = "create"])
      BY <1>a DEF Earned, Request
    <3> QED BY <1>a, <1>b, <2>1, <2>3, <3>1
  <2> QED BY <1>5, <2>2, <2>3 DEF FinishRegistration
<1>6. CASE CreateUser(r)
  <2> DEFINE u == q.target
             empty == \A v \in Users : ~Exists(v)
             ro == FoundingRole(empty)
             p == [q EXCEPT !.was = ro, !.pc = "cycle"]
  <2>1. CASE Respond(r) /\ UNCHANGED <<role, granted>>
    BY <1>6, <1>a, <1>b, <1>r, <2>1 DEF CreateUser, Respond
  <2>2. CASE /\ role' = [role EXCEPT ![u] = ro]
             /\ granted' = IF empty THEN granted \cup {u} ELSE granted
             /\ Set(r, p)
    <3>1. ro \in Roles /\ (ro = "Admin" => u \in granted')
      BY <2>2 DEF FoundingRole, Roles
    <3>2. granted \subseteq granted' /\ store' = store /\ Powers
      BY <1>6, <1>a, <2>2, <3>1 DEF CreateUser
    <3> HIDE DEF ro
    <3>3. /\ p.id = q.id /\ p.copy = q.copy /\ p.was = ro /\ p.target = u
          /\ p.pc = "cycle"
      BY <1>a, <3>1 DEF Request
    <3> HIDE DEF p
    <3>4. (\A s \in Requests : Earned(req[s]))'
      BY <1>a, <2>2, <3>1, <3>2, <3>3 DEF GInv, Earned, Set, TInv, TypeOK
    <3>5. (\A s \in Requests : IsAdmin(req[s].id) => req[s].id.user \in granted)'
      BY <3>4 DEF Earned
    <3> QED BY <3>2, <3>4, <3>5 DEF GInv, OnlyGranted, Earned
  <2> QED BY <1>6, <2>1, <2>2 DEF CreateUser
<1>7. CASE CycleSession(r)
  <2> DEFINE a == LoggedIn(q.target, q.was)
             p == Responding([q EXCEPT !.copy = a, !.dirty = TRUE])
  <2>1. q.target \in Users /\ q.was \in Roles /\ q.pc = "cycle"
    BY <1>7, <1>a DEF CycleSession, At, GoodReq, HasTarget
  <2>2. a \in Auth /\ (~IsAdmin(a) \/ a.user \in granted)
    BY <1>a, <2>1, AuthTyped, Powerless DEF Earned
  <2>3. Earned(p)
    BY <1>w, <2>2
  <2>4. /\ store' = [store EXCEPT ![q.client] = Anon] /\ Set(r, p)
        /\ UNCHANGED <<role, granted>>
    BY <1>7 DEF CycleSession
  <2>5. \A c \in Clients : IsAdmin(store'[c]) => store'[c].user \in granted
    BY <2>4, Powerless DEF GInv, OnlyGranted, TInv, TypeOK
  <2> HIDE DEF p
  <2>6. \A s \in Requests : Earned(req'[s])
    BY <2>3, <2>4 DEF GInv, Set, TInv, TypeOK
  <2> QED BY <2>4, <2>5, <2>6 DEF GInv, OnlyGranted, Earned
<1>8. CASE FindTarget(r) \/ CountAdmins(r)
  <2>1. UNCHANGED <<role, store, granted>>
    BY <1>8 DEF FindTarget, CountAdmins
  <2>2. CASE Respond(r)
    BY <1>a, <1>b, <1>r, <2>1, <2>2 DEF Respond
  <2>3. ASSUME NEW pc \in {"count", "commit"},
               Set(r, [q EXCEPT !.was = role[q.target], !.pc = pc])
        PROVE  GInv'
    <3>1. Earned([q EXCEPT !.was = role[q.target], !.pc = pc])
      BY <1>a DEF Earned, Request
    <3> QED BY <1>a, <1>b, <2>1, <2>3, <3>1
  <2>4. ASSUME NEW n, Set(r, [q EXCEPT !.count = n, !.pc = "commit"]) PROVE GInv'
    <3>1. Earned([q EXCEPT !.count = n, !.pc = "commit"])
      BY <1>a DEF Earned, Request
    <3> QED BY <1>a, <1>b, <2>1, <2>4, <3>1
  <2> QED BY <1>8, <2>2, <2>3, <2>4 DEF FindTarget, CountAdmins
<1>9. CASE CommitRole(r)
  <2>1. /\ granted \subseteq granted' /\ store' = store /\ Powers
        /\ Set(r, Responding(q))
    BY <1>9, <1>a DEF CommitRole, Respond
  <2> QED BY <1>b, <1>r, <2>1
<1>10. CASE CommitDelete(r)
  <2>1. granted' = granted /\ store' = store /\ Powers /\ Set(r, Responding(q))
    BY <1>10, <1>a DEF CommitDelete, Respond
  <2> QED BY <1>b, <1>r, <2>1
<1> QED BY <1>1, <1>2, <1>3, <1>4, <1>5, <1>6, <1>7, <1>8, <1>9, <1>10 DEF Handle

\* Every step keeps admin power granted.
LEMMA EarnedStep == TInv /\ GInv /\ [Next]_vars => GInv'
<1> SUFFICES ASSUME TInv, GInv, [Next]_vars PROVE GInv'
  OBVIOUS
<1>1. CASE UNCHANGED vars
  BY <1>1 DEF vars, GInv, OnlyGranted, Earned
<1>2. CASE Next
  <2>1. PICK r \in Requests :
      \/ \E c \in Clients, op \in AdminOps \cup OpenOps :
            \E t \in Target(op) : Arrive(r, c, op, t)
      \/ \E u \in Users, op \in AdminOps :
            \E t \in Target(op) : ArriveWithKey(r, u, op, t)
      \/ ResolveKey(r) \/ LookupFound(r) \/ LookupGone(r) \/ LookupError(r)
      \/ Handle(r) \/ Finish(r) \/ Disconnect(r)
    BY <1>2 DEF Next
  <2> QED BY <2>1, EarnedArrival, EarnedHandle
<1> QED BY <1>1, <1>2

\* Nobody holds admin power anywhere - table, stored session, request - who
\* did not found the site and was never promoted.
THEOREM PowerIsGranted == Spec => []OnlyGranted
<1>1. Init => GInv
  BY Powerless DEF Init, GInv, OnlyGranted, Earned
<1> QED BY <1>1, EarnedStep, TypeStrong, PTL DEF Spec, GInv

-----------------------------------------------------------------------------

(***************************************************************************)
(* The last-admin guard.  A request that is about to take away the role it *)
(* read as Admin has counted at least two of them.                         *)
(***************************************************************************)
Guarded(q) == q.pc = "commit" /\ q.op # "promote" /\ q.was = "Admin" => q.count >= 2

Counted == \A r \in Requests : Guarded(req[r])

\* Responses and entered handlers are not about to commit.
LEMMA NotCommitting ==
    ASSUME NEW q \in Request, NEW id \in Auth
    PROVE  /\ Guarded(Idle) /\ Guarded(Responding(q)) /\ Guarded(Enter(q, id))
<1>1. Guarded(Idle) /\ Guarded(Responding(q))
  BY DEF Guarded, Responding, Idle
<1>2. CASE q.op \in AdminOps /\ ~IsAdmin(id)
  BY <1>1, <1>2 DEF Enter
<1>3. CASE ~(q.op \in AdminOps /\ ~IsAdmin(id))
  <2>1. PICK pc \in {"run", "find", "key"} :
          Enter(q, id) = [q EXCEPT !.id = id, !.pc = pc]
    BY <1>3 DEF Enter
  <2>2. Guarded(Enter(q, id))
    BY <2>1 DEF Guarded, Request
  <2> QED BY <1>1, <2>2
<1> QED BY <1>1, <1>2, <1>3

\* Every step keeps the count behind every commit.
LEMMA CountedStep == TInv /\ Counted /\ [Next]_vars => Counted'
<1> SUFFICES ASSUME TInv, Counted, [Next]_vars PROVE Counted'
  OBVIOUS
<1>1. CASE UNCHANGED vars
  BY <1>1 DEF vars, Counted, Guarded
<1>2. CASE Next
  <2>1. PICK r \in Requests :
      \/ \E c \in Clients, op \in AdminOps \cup OpenOps :
            \E t \in Target(op) : Arrive(r, c, op, t)
      \/ \E u \in Users, op \in AdminOps :
            \E t \in Target(op) : ArriveWithKey(r, u, op, t)
      \/ ResolveKey(r) \/ LookupFound(r) \/ LookupGone(r) \/ LookupError(r)
      \/ Handle(r) \/ Finish(r) \/ Disconnect(r)
    BY <1>2 DEF Next
  <2> DEFINE q == req[r]
  <2>a. /\ q \in Request /\ req \in [Requests -> Request]
        /\ q.copy \in Auth /\ q.id \in Auth /\ Guarded(q)
    BY DEF TInv, TypeOK, Request, Counted
  <2>b. ASSUME NEW p, Guarded(p), Set(r, p) PROVE Counted'
    BY <2>a, <2>b DEF Counted, Guarded, Set
  <2>c. ASSUME NEW p \in Request, Set(r, Responding(p)) PROVE Counted'
    BY <2>b, <2>c, NotCommitting, AuthTyped
  <2>r. ASSUME NEW a \in Auth, Rewrite(r, a) PROVE Counted'
    <3>1. PICK d \in BOOLEAN : Set(r, Responding([q EXCEPT !.copy = a, !.dirty = d]))
      BY <2>r, <2>a DEF Rewrite, Request
    <3>2. [q EXCEPT !.copy = a, !.dirty = d] \in Request
      BY <2>a DEF Request
    <3> QED BY <2>c, <3>1, <3>2
  <2>e. ASSUME NEW p \in Request, NEW id \in Auth, Set(r, Enter(p, id)) PROVE Counted'
    BY <2>b, <2>e, NotCommitting
  <2>2. ASSUME NEW c \in Clients, NEW op \in AdminOps \cup OpenOps,
               NEW t \in Target(op), Arrive(r, c, op, t)
        PROVE  Counted'
    <3> DEFINE p == [Idle EXCEPT !.op = op, !.client = c, !.target = t,
                                 !.copy = store[c], !.pc = "lookup"]
    <3>1. store[c] \in Auth /\ t \in Users \cup {Nobody}
      BY DEF Target, TInv, TypeOK
    <3>2. p \in Request /\ p.pc = "lookup"
      BY <3>1, AuthTyped DEF Request, Idle, Pc, Roles
    <3> HIDE DEF p
    <3>3. Set(r, p) \/ Set(r, Enter(p, store[c]))
      BY <2>2 DEF Arrive, p
    <3> QED BY <2>b, <2>e, <3>1, <3>2, <3>3 DEF Guarded
  <2>3. ASSUME NEW u \in Users, NEW op \in AdminOps, NEW t \in Target(op),
               ArriveWithKey(r, u, op, t)
        PROVE  Counted'
    BY <2>3, <2>b DEF ArriveWithKey, Guarded, Idle
  <2>4. CASE ResolveKey(r)
    <3>1. q.id.user \in Users
      BY <2>4 DEF ResolveKey, At, TInv, GoodReq, HasTarget
    <3>2. PICK id \in Auth : Set(r, Enter(q, id))
      BY <2>4, <3>1, AuthTyped DEF ResolveKey, TInv, TypeOK
    <3> QED BY <2>a, <2>e, <3>2
  <2>5. CASE LookupFound(r)
    <3>1. q.copy.user \in Users
      BY <2>5 DEF LookupFound, At, TInv, GoodReq, HasTarget
    <3>2. PICK id \in Auth, d \in BOOLEAN :
            Set(r, Enter([q EXCEPT !.copy = id, !.dirty = d], id))
      BY <2>5, <3>1, AuthTyped DEF LookupFound, TInv, TypeOK
    <3>3. [q EXCEPT !.copy = id, !.dirty = d] \in Request
      BY <2>a DEF Request
    <3> QED BY <2>e, <3>2, <3>3
  <2>6. CASE LookupGone(r) \/ LookupError(r)
    BY <2>6, <2>a, <2>e, AuthTyped DEF LookupGone, LookupError
  <2>7. CASE Finish(r) \/ Disconnect(r)
    BY <2>7, <2>b, <2>a, NotCommitting DEF Finish, Disconnect
  <2>8. CASE Handle(r)
    <3>1. CASE Respond(r)
      BY <2>a, <2>c, <3>1 DEF Respond
    <3>2. CASE Logout(r) \/ StartLogin(r) \/ StartRegistration(r)
      BY <3>1, <3>2, <2>r, AuthTyped DEF Logout, StartLogin, StartRegistration
    <3>3. ASSUME NEW p, Set(r, p), p.pc # "commit" PROVE Counted'
      BY <3>3, <2>b DEF Guarded
    <3>4. CASE FindUser(r) \/ UpdateUser(r) \/ FinishRegistration(r)
      <4>1. CASE FindUser(r)
        <5>1. PICK u \in issued, pc \in {"update", "cycle"} :
                Respond(r) \/ Set(r, [q EXCEPT !.target = u, !.was = role[u], !.pc = pc])
          BY <4>1 DEF FindUser
        <5>2. [q EXCEPT !.target = u, !.was = role[u], !.pc = pc].pc # "commit"
          BY <2>a DEF Request
        <5> QED BY <5>1, <5>2, <3>1, <3>3
      <4>2. CASE UpdateUser(r)
        <5>1. [q EXCEPT !.pc = "cycle"].pc # "commit"
          BY <2>a DEF Request
        <5> QED BY <4>2, <5>1, <3>3 DEF UpdateUser
      <4>3. CASE FinishRegistration(r)
        <5>1. [q EXCEPT !.target = q.id.user, !.pc = "create"].pc # "commit"
          BY <2>a DEF Request
        <5> QED BY <4>3, <5>1, <3>1, <3>3 DEF FinishRegistration
      <4> QED BY <3>4, <4>1, <4>2, <4>3
    <3>5. CASE CreateUser(r)
      <4>1. PICK ro : Respond(r) \/ Set(r, [q EXCEPT !.was = ro, !.pc = "cycle"])
        BY <3>5 DEF CreateUser
      <4>2. [q EXCEPT !.was = ro, !.pc = "cycle"].pc # "commit"
        BY <2>a DEF Request
      <4> QED BY <4>1, <4>2, <3>1, <3>3
    <3>6. CASE CycleSession(r)
      <4>1. q.target \in Users /\ q.was \in Roles
        BY <3>6 DEF CycleSession, At, TInv, GoodReq, HasTarget
      <4>2. LoggedIn(q.target, q.was) \in Auth
        BY <4>1, AuthTyped
      <4>3. [q EXCEPT !.copy = LoggedIn(q.target, q.was), !.dirty = TRUE] \in Request
        BY <2>a, <4>2 DEF Request
      <4> QED BY <3>6, <2>c, <4>3 DEF CycleSession
    <3>7. CASE FindTarget(r)
      <4> DEFINE was == role[q.target]
                 pc == IF was = "Admin" /\ q.op # "promote" THEN "count" ELSE "commit"
                 p == [q EXCEPT !.was = was, !.pc = pc]
      <4>1. Respond(r) \/ Set(r, p)
        BY <3>7 DEF FindTarget
      <4>2. p.was = was /\ p.pc = pc /\ p.op = q.op
        BY <2>a DEF Request
      <4>3. Guarded(p)
        BY <4>2 DEF Guarded
      <4> HIDE DEF p
      <4> QED BY <4>1, <4>3, <2>b, <3>1
    <3>8. CASE CountAdmins(r)
      <4> DEFINE n == Cardinality(Admins)
                 p == [q EXCEPT !.count = n, !.pc = "commit"]
      <4>1. n \in Nat
        BY AccountsAssumption, FS_Subset, FS_CardinalityType DEF Admins
      <4>2. Respond(r) \/ (n > 1 /\ Set(r, p))
        BY <3>8, <4>1 DEF CountAdmins, LastAdmin
      <4>3. p.count = n
        BY <2>a DEF Request
      <4>4. n > 1 => Guarded(p)
        BY <4>1, <4>3 DEF Guarded
      <4> HIDE DEF p, n
      <4> QED BY <4>2, <4>4, <2>b, <3>1
    <3>9. CASE Get(r) \/ CommitRole(r) \/ CommitDelete(r) \/ MintKey(r) \/ RevokeKey(r)
      BY <3>1, <3>9 DEF Get, CommitRole, CommitDelete, MintKey, RevokeKey
    <3> QED BY <2>8, <3>2, <3>4, <3>5, <3>6, <3>7, <3>8, <3>9 DEF Handle
  <2> QED BY <2>1, <2>2, <2>3, <2>4, <2>5, <2>6, <2>7, <2>8
<1> QED BY <1>1, <1>2

\* The site loses its last admin only at a write whose request had read a
\* count or a role that no longer held: the guard itself is sufficient.
THEOREM LockoutNeedsStaleRead == Spec => LockoutOnlyByStaleRead
<1> DEFINE Locks == (Admins # {} /\ Admins' = {}) =>
          \E r \in Requests :
             \/ At(r, "commit") /\ ( \/ req[r].was # role[req[r].target]
                                     \/ req[r].count > Cardinality(Admins) )
             \/ At(r, "update") /\ req[r].was # role[req[r].target]
<1>1. TInv /\ Counted /\ [Next]_vars => [Locks]_role
  <2> SUFFICES ASSUME TInv, Counted, [Next]_vars, role' # role,
                      Admins # {}, Admins' = {}
               PROVE  \E r \in Requests :
             \/ At(r, "commit") /\ ( \/ req[r].was # role[req[r].target]
                                     \/ req[r].count > Cardinality(Admins) )
             \/ At(r, "update") /\ req[r].was # role[req[r].target]
    OBVIOUS
  <2>1. PICK r \in Requests :
          UpdateUser(r) \/ CreateUser(r) \/ CommitRole(r) \/ CommitDelete(r)
    BY ZenonT(40) DEF Next, vars, Handle, Arrive, ArriveWithKey, ResolveKey, LookupFound,
           LookupGone, LookupError, Finish, Disconnect, Get, Logout, StartLogin,
           StartRegistration, FindUser, FinishRegistration, CycleSession,
           FindTarget, CountAdmins, MintKey, RevokeKey
  <2> DEFINE q == req[r]
             t == q.target
             n == Cardinality(Admins)
  <2>2. /\ role \in [Users -> Roles \cup {"none"}] /\ q \in Request /\ q.count \in Nat
        /\ GoodReq(q) /\ Guarded(q)
    BY DEF TInv, TypeOK, Request, Counted
  <2>3. n \in Nat /\ IsFiniteSet(Admins)
    BY AccountsAssumption, FS_Subset, FS_CardinalityType DEF Admins
  <2>4. CASE UpdateUser(r)
    <3>1. t \in Users /\ role' = [role EXCEPT ![t] = q.was] /\ q.pc = "update"
      BY <2>2, <2>4 DEF UpdateUser, At, GoodReq, HasTarget
    <3>2. q.was # role[t]
      BY <2>2, <3>1
    <3> QED BY <3>1, <3>2 DEF At
  <2>5. CASE CreateUser(r)
    <3>1. ~Exists(t) /\ role' = [role EXCEPT ![t] = FoundingRole(\A v \in Users : ~Exists(v))]
      BY <2>5 DEF CreateUser
    <3>2. \A u \in Users : role[u] = "Admin" => role'[u] = "Admin"
      BY <2>2, <3>1 DEF Exists
    <3> QED BY <3>2 DEF Admins
  <2>6. CASE CommitRole(r) \/ CommitDelete(r)
    <3>1. /\ t \in Users /\ q.pc = "commit" /\ q.op \in RoleOps
          /\ \A u \in Users : u # t => role'[u] = role[u]
      BY <2>2, <2>6 DEF CommitRole, CommitDelete, At, GoodReq, HasTarget
    <3>2. SUFFICES ASSUME q.was = role[t], ~(q.count > n) PROVE FALSE
      BY <3>1 DEF At
    <3>3. Admins = {t}
      BY <3>1 DEF Admins
    <3>4. n = 1
      BY <3>3, FS_Singleton
    <3>5. q.was = "Admin" /\ q.op # "promote"
      <4>1. role[t] = "Admin"
        BY <3>3 DEF Admins
      <4>2. CASE q.op = "promote"
        <5>1. role'[t] = "Admin"
          BY <2>2, <2>6, <3>1, <4>1, <4>2 DEF CommitRole, CommitDelete, Exists
        <5> QED BY <3>1, <5>1 DEF Admins
      <4> QED BY <3>2, <4>1, <4>2
    <3>6. q.count >= 2
      BY <2>2, <3>1, <3>5 DEF Guarded
    <3> QED BY <2>2, <2>3, <3>2, <3>4, <3>6
  <2> QED BY <2>1, <2>4, <2>5, <2>6
<1>2. Init => Counted
  BY DEF Init, Counted, Guarded, Idle
<1> QED BY <1>1, <1>2, CountedStep, TypeStrong, PTL DEF Spec, LockoutOnlyByStaleRead

-----------------------------------------------------------------------------

(***************************************************************************)
(* The door.  The server keeps no list of who paid: a cookie or a token is *)
(* all it has to go by, so what it accepts is compared with the history of *)
(* payments through what those two can say.                                *)
(***************************************************************************)
\* Every token was issued with the key, and the cookie and the history tell of
\* the same payment.
Honest(x, until) ==
    /\ x \in [at : {x.at}, in : {x.in}, page : {x.page}, want : {x.want}, token : {x.token},
              digest : {x.digest}, cached : {x.cached}, jar : {x.jar}]
    /\ x.token # NoToken => /\ x.token.ts \in Nat /\ x.token.ts <= tick
                            /\ x.token.seed = Seed(x.token.ts, x.token.version)
    /\ IF until = 0 THEN x.jar = Blank
       ELSE until \in Nat /\ x.jar = [expiry |-> until, mac |-> secret] /\ x.jar # Blank

\* The key is one for ever.
TollInv ==
    /\ tick \in Nat \ {0} /\ secret = 1
    /\ DOMAIN visitor = Visitors /\ DOMAIN paid = Visitors
    /\ \A v \in Visitors : Honest(visitor[v], paid[v])

LEMMA TollStart == ChallengeInit => TollInv
<1> SUFFICES ASSUME ChallengeInit PROVE TollInv
  OBVIOUS
<1>1. tick = 1 /\ secret = 1 /\ visitor = [v \in Visitors |-> NewVisitor] /\ paid = [v \in Visitors |-> 0]
  BY DEF ChallengeInit, GetOrCreate, NoKey
<1>2. Honest(NewVisitor, 0)
  <2>1. PICK p : p = CHOOSE place \in Places : TRUE
    OBVIOUS
  <2>2. NewVisitor = [at |-> p, in |-> FALSE, page |-> "none", want |-> "page", token |-> NoToken,
                      digest |-> Blank, cached |-> {}, jar |-> Blank]
    BY <2>1 DEF NewVisitor
  <2> QED BY <2>2 DEF Honest
<1> QED BY <1>1, <1>2 DEF TollInv

\* What is neither token nor cookie may change.
LEMMA StillHonest ==
    ASSUME NEW x, NEW until, Honest(x, until), NEW y,
           y \in [at : {y.at}, in : {y.in}, page : {y.page}, want : {y.want}, token : {x.token},
                  digest : {y.digest}, cached : {y.cached}, jar : {x.jar}]
    PROVE  Honest(y, until)
BY DEF Honest

LEMMA OneChanges ==
    ASSUME TollInv, NEW v \in Visitors, NEW y, Becomes(v, y), UNCHANGED <<tick, secret, paid>>,
           Honest(y, paid[v])
    PROVE  TollInv'
BY DEF TollInv, Becomes, Honest, Seed

LEMMA AtTheDoor ==
    ASSUME TollInv, NEW v \in Visitors, NEW route \in Routes \cup {visitor[v].want}, Knock(v, route)
    PROVE  TollInv'
<1>0. PICK page, want :
        LET tolls == route = "challenge" \/ ~LetThrough(visitor[v], route)
        IN  /\ page = IF tolls THEN "toll" ELSE "none"
            /\ want = IF tolls /\ route # "challenge" THEN route ELSE "page"
  OBVIOUS
<1> DEFINE x == visitor[v]
           y == [x EXCEPT !.page = page, !.want = want]
<1>1. Becomes(v, y) /\ UNCHANGED <<tick, secret, paid>>
  BY <1>0 DEF Knock
<1>2. Honest(x, paid[v])
  BY DEF TollInv
<1>3. y \in [at : {y.at}, in : {y.in}, page : {y.page}, want : {y.want}, token : {x.token},
             digest : {y.digest}, cached : {y.cached}, jar : {x.jar}]
  BY <1>2 DEF Honest
<1>4. Honest(y, paid[v])
  BY <1>2, <1>3, StillHonest
<1> QED BY <1>1, <1>4, OneChanges

LEMMA TokenIssued ==
    ASSUME TollInv, NEW v \in Visitors, NewChallenge(v)
    PROVE  TollInv'
<1> DEFINE x == visitor[v]
           t == [ts |-> tick, version |-> art, seed |-> Seed(tick, art)]
           y == [x EXCEPT !.page = "token", !.token = t]
<1>1. Becomes(v, y) /\ UNCHANGED <<tick, secret, paid>>
  BY DEF NewChallenge, Payment
<1>2. Honest(x, paid[v]) /\ tick \in Nat
  BY DEF TollInv
<1>3. y \in [at : {y.at}, in : {y.in}, page : {y.page}, want : {y.want}, token : {t},
             digest : {y.digest}, cached : {y.cached}, jar : {x.jar}]
  <2> HIDE DEF t
  <2> QED BY <1>2 DEF Honest
<1>4. t.ts = tick /\ t.version = art /\ t.seed = Seed(tick, art)
  OBVIOUS
<1> HIDE DEF t, y
<1>5. Honest(y, paid[v])
  BY <1>2, <1>3, <1>4 DEF Honest
<1> QED BY <1>1, <1>5, OneChanges

LEMMA ImageDrawn ==
    ASSUME TollInv, NEW v \in Visitors, DrawImage(v)
    PROVE  TollInv'
<1> DEFINE x == visitor[v]
<1>0. PICK digest, cached :
        LET has == x.token.version \in x.cached \cup {art}
        IN  /\ digest = Digest(IF has THEN x.token.version ELSE Blank)
            /\ cached = IF has THEN x.cached \cup {x.token.version} ELSE x.cached
  OBVIOUS
<1> DEFINE y == [x EXCEPT !.page = "solved", !.digest = digest, !.cached = cached]
<1>1. Becomes(v, y) /\ UNCHANGED <<tick, secret, paid>>
  BY <1>0 DEF DrawImage, Payment
<1>2. Honest(x, paid[v])
  BY DEF TollInv
<1>3. y \in [at : {y.at}, in : {y.in}, page : {y.page}, want : {y.want}, token : {x.token},
             digest : {y.digest}, cached : {y.cached}, jar : {x.jar}]
  BY <1>2 DEF Honest
<1>4. Honest(y, paid[v])
  BY <1>2, <1>3, StillHonest
<1> QED BY <1>1, <1>4, OneChanges

\* The server accepts what the history calls a payment, and nothing else.
LEMMA AnswerJudged ==
    ASSUME TollInv, NEW v \in Visitors, VerifyChallenge(v)
    PROVE  TollInv'
<1> DEFINE x == visitor[v]
           pays == x.token.version = art /\ VerifyAnswer(x)
<1>1. x.token # NoToken /\ Honest(x, paid[v]) /\ UNCHANGED <<tick, secret>>
  BY DEF TollInv, VerifyChallenge, Payment
<1>2. pays <=> x.digest = Digest(art) /\ x.token.version = art /\ tick - x.token.ts <= Freshness
  BY <1>1 DEF Honest, VerifyAnswer
<1>3. CASE pays
  <2> DEFINE y == [x EXCEPT !.page = "back",
                            !.jar = [expiry |-> tick + Lifetime, mac |-> secret]]
  <2>1. Becomes(v, y) /\ paid' = [paid EXCEPT ![v] = tick + Lifetime]
    BY <1>2, <1>3 DEF VerifyChallenge
  <2>2. tick + Lifetime \in Nat \ {0} /\ secret \in Nat
    BY ChallengeAssumption DEF TollInv
  <2>3. [expiry |-> tick + Lifetime, mac |-> secret] # Blank
    BY <2>2, ChallengeAssumption
  <2>4. Honest(y, tick + Lifetime)
    <3>1. PICK jar : jar = [expiry |-> tick + Lifetime, mac |-> secret]
      OBVIOUS
    <3>4. PICK z : z = [x EXCEPT !.page = "back", !.jar = jar]
      OBVIOUS
    <3>2. z \in [at : {z.at}, in : {z.in}, page : {z.page}, want : {z.want}, token : {x.token},
                 digest : {z.digest}, cached : {z.cached}, jar : {jar}]
      BY <1>1, <3>4 DEF Honest
    <3>3. z = y
      BY <3>1, <3>4
    <3> HIDE DEF y
    <3> QED BY <1>1, <2>2, <2>3, <3>1, <3>2, <3>3 DEF Honest
  <2> QED BY <1>1, <2>1, <2>4 DEF TollInv, Becomes, Honest, Seed
<1>4. CASE ~pays
  <2> DEFINE y == [x EXCEPT !.page = "toll"]
  <2>1. Becomes(v, y) /\ paid' = paid
    BY <1>2, <1>4 DEF VerifyChallenge
  <2>2. y \in [at : {y.at}, in : {y.in}, page : {y.page}, want : {y.want}, token : {x.token},
               digest : {y.digest}, cached : {y.cached}, jar : {x.jar}]
    BY <1>1 DEF Honest
  <2>3. Honest(y, paid[v])
    BY <1>1, <2>2, StillHonest
  <2> QED BY <1>1, <2>1, <2>3, OneChanges
<1> QED BY <1>3, <1>4

LEMMA MovesOrSignsIn ==
    ASSUME TollInv, NEW v \in Visitors, Around(v)
    PROVE  TollInv'
<1> DEFINE x == visitor[v]
<1>1. UNCHANGED <<tick, secret, paid>> /\ Honest(x, paid[v])
  BY DEF TollInv, Around, Turn
<1>2. ASSUME NEW y, y = [x EXCEPT !.at = y.at] \/ y = [x EXCEPT !.in = y.in], Becomes(v, y)
      PROVE  TollInv'
  <2>1. y \in [at : {y.at}, in : {y.in}, page : {y.page}, want : {y.want}, token : {x.token},
               digest : {y.digest}, cached : {y.cached}, jar : {x.jar}]
    BY <1>1, <1>2 DEF Honest
  <2>2. Honest(y, paid[v])
    BY <1>1, <2>1, StillHonest
  <2> QED BY <1>1, <1>2, <2>2, OneChanges
<1>3. CASE \E p \in Places : Becomes(v, [x EXCEPT !.at = p])
  <2>1. PICK p \in Places : Becomes(v, [x EXCEPT !.at = p])
    BY <1>3
  <2>2. [x EXCEPT !.at = p].at = p
    BY <1>1 DEF Honest
  <2> QED BY <2>1, <2>2, <1>2
<1>4. CASE Becomes(v, [x EXCEPT !.in = ~@])
  <2>1. PICK b : b = ~x.in
    OBVIOUS
  <2>2. Becomes(v, [x EXCEPT !.in = b]) /\ [x EXCEPT !.in = b].in = b
    BY <1>1, <1>4, <2>1 DEF Honest
  <2> QED BY <2>2, <1>2
<1> QED BY <1>3, <1>4 DEF Around

THEOREM TollAlwaysHolds == ChallengeSpec => []TollInv
<1>1. TollInv /\ [ChallengeNext]_challengeVars => TollInv'
  <2> SUFFICES ASSUME TollInv, [ChallengeNext]_challengeVars PROVE TollInv'
    OBVIOUS
  <2>1. CASE UNCHANGED challengeVars
    BY <2>1 DEF challengeVars, TollInv, Honest, Seed
  <2>2. ASSUME NEW v \in Visitors, NEW route \in Routes, Visit(v, route) PROVE TollInv'
    BY <2>2, AtTheDoor DEF Visit
  <2>3. ASSUME NEW v \in Visitors, Return(v) PROVE TollInv'
    BY <2>3, AtTheDoor DEF Return
  <2>4. CASE Restart
    BY <2>4 DEF Restart, Turn, TollInv, Honest, Seed, GetOrCreate, NoKey
  <2>5. CASE Relist
    BY <2>5 DEF Relist, Turn, TollInv, Honest, Seed
  <2>6. CASE Tick
    <3>1. tick' = tick + 1 /\ UNCHANGED <<secret, visitor, paid>>
      BY <2>6 DEF Tick
    <3>2. \A v \in Visitors : Honest(visitor[v], paid[v])'
      <4>1. SUFFICES ASSUME NEW v \in Visitors PROVE Honest(visitor[v], paid[v])'
        OBVIOUS
      <4>2. PICK x, until : x = visitor[v] /\ until = paid[v]
        OBVIOUS
      <4>3. Honest(x, until) /\ tick \in Nat
        BY <4>2 DEF TollInv
      <4>4. x.token.ts <= tick /\ x.token.ts \in Nat => x.token.ts <= tick'
        BY <3>1, <4>3
      <4>5. Honest(x, until)'
        BY <3>1, <4>3, <4>4 DEF Honest, Seed
      <4> QED BY <3>1, <4>2, <4>5
    <3> QED BY <3>1, <3>2 DEF TollInv
  <2> QED BY <2>1, <2>2, <2>3, <2>4, <2>5, <2>6, TokenIssued, ImageDrawn, AnswerJudged,
             MovesOrSignsIn DEF ChallengeNext
<1> QED BY TollStart, <1>1, PTL DEF ChallengeSpec

\* The door is just for any visitors, addresses, builds and periods.
THEOREM DoorIsJust == ChallengeSpec => []TollIsJust
<1>1. TollInv => TollIsJust
  <2> SUFFICES ASSUME TollInv, NEW v \in Visitors, NEW route \in Routes
      PROVE  LetThrough(visitor[v], route) <=>
               \/ visitor[v].at \notin listed \/ visitor[v].in \/ paid[v] > tick
               \/ route \notin {"page", "shelf"}
    BY DEF TollIsJust
  <2>1. ExemptPath(route) <=> route \notin {"page", "shelf"}
    BY DEF ExemptPath, Routes
  <2>2. Honest(visitor[v], paid[v]) /\ tick \in Nat \ {0}
    BY DEF TollInv
  <2>3. VerifyClearance(visitor[v].jar) <=> paid[v] > tick
    BY <2>2 DEF VerifyClearance, Honest
  <2> QED BY <2>1, <2>3 DEF LetThrough
<1> QED BY <1>1, TollAlwaysHolds, PTL

=============================================================================
