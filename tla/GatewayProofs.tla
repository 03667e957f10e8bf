--------------------------- MODULE GatewayProofs ---------------------------
(***************************************************************************)
(* Proofs about Gateway, for any number of goroutines, accounts, keys,     *)
(* tokens and any times.                                                   *)
(***************************************************************************)
EXTENDS Gateway, FiniteSetTheorems, TLAPS

Checks == {NoCheck, "read", "write", "delete", AccessRoleAdmin}
Ops == {"read projects", "create project", "purge project", "manage users", "tell identity",
        Refused}

SignReq == [pc : {"sign"}, user : Users, role : Roles, since : Nat]
GuardedReq == [pc : {"authenticated", "decided"}, user : Users, role : Roles,
               check : Checks, op : Ops, since : Nat]
Token == [user : Users, role : Roles, exp : Nat, key : ServerKeys]

GatewayTypeOK ==
    /\ clock \in Nat
    /\ role \in [Users -> Roles \cup {NoRole}]
    /\ heldAt \in [Users -> [Roles -> Int]]
    /\ key \in ServerKeys
    /\ tokens \subseteq Token
    /\ req \in [Procs -> {Idle} \cup SignReq \cup GuardedReq]
    /\ IsABag(recorded) /\ IsABag(effective) /\ torn \in BOOLEAN

-----------------------------------------------------------------------------
(* Adding to a bag counts one more of the element and of no other. *)
LEMMA BagAddCounts ==
    ASSUME NEW B, IsABag(B), NEW x
    PROVE  /\ IsABag(B (+) SetToBag({x}))
           /\ \A e : Count(e, B (+) SetToBag({x})) = Count(e, B) + (IF e = x THEN 1 ELSE 0)
  BY DEF IsABag, (+), SetToBag, Count, BagIn, BagToSet

LEMMA CountType ==
    ASSUME NEW B, IsABag(B)
    PROVE  \A e : Count(e, B) \in Nat
  BY DEF IsABag, Count, BagIn, BagToSet

-----------------------------------------------------------------------------
(* Types. *)

(* What a route asks of a request, and what it does for it. *)
LEMMA RouteTypes ==
    ASSUME NEW route, NEW method
    PROVE  /\ RequiredCheck(route, method) \in Checks
           /\ Operation(route, method) \in Ops
<1>1. ProjectPermission(method) \in Checks
  BY DEF ProjectPermission, Checks
<1>2. ProjectsHandler(method) \in Ops
  BY DEF ProjectsHandler, Ops
<1> QED
  BY <1>1, <1>2 DEF RequiredCheck, Operation, Checks, Ops

(* A token carries the name and the role of some account. *)
LEMMA ClaimTypes ==
    ASSUME GatewayTypeOK, NEW j \in tokens \cup CLITokens
    PROVE  j.user \in Users /\ j.role \in Roles
  BY DEF GatewayTypeOK, Token, CLITokens

LEMMA TypeInit == Init => GatewayTypeOK
<1> SUFFICES ASSUME Init PROVE GatewayTypeOK
  OBVIOUS
<1>1. heldAt \in [Users -> [Roles -> Int]]
  BY TimesAssumption DEF Init
<1>2. IsABag(EmptyBag)
  BY DEF IsABag, EmptyBag, SetToBag
<1> QED
  BY <1>1, <1>2 DEF Init, GatewayTypeOK

LEMMA TypeNext == GatewayTypeOK /\ [Next]_vars => GatewayTypeOK'
<1> SUFFICES ASSUME GatewayTypeOK, [Next]_vars PROVE GatewayTypeOK'
  OBVIOUS
<1> USE DEF accountVars, auditVars
<1>1. ASSUME NEW p \in Procs, NEW u \in Users, LoginLookup(p, u) PROVE GatewayTypeOK'
  BY <1>1 DEF LoginLookup, GatewayTypeOK, SignReq
<1>2. ASSUME NEW p \in Procs, NEW j \in tokens \cup CLITokens, NEW route \in Routes,
             NEW method \in Methods, Authenticate(p, j, route, method)
      PROVE  GatewayTypeOK'
  BY <1>2, RouteTypes, ClaimTypes DEF Authenticate, GatewayTypeOK, GuardedReq
<1>3. ASSUME NEW p \in Procs, GenerateToken(p) PROVE GatewayTypeOK'
  <2>1. req[p] \in SignReq
    BY <1>3 DEF GenerateToken, GatewayTypeOK, Idle, GuardedReq
  <2> QED
    BY <1>3, <2>1, TimesAssumption DEF GenerateToken, GatewayTypeOK, SignReq, Token
<1>4. ASSUME NEW p \in Procs, Decide(p) PROVE GatewayTypeOK'
  <2>1. req[p] \in GuardedReq
    BY <1>4 DEF Decide, GatewayTypeOK, Idle, SignReq
  <2>2. [req[p] EXCEPT !.pc = "decided"] \in GuardedReq
    BY <2>1 DEF GuardedReq
  <2>3. IsABag(recorded') /\ torn' \in BOOLEAN
    BY <1>4, BagAddCounts DEF Decide, Log, GatewayTypeOK
  <2> QED
    BY <1>4, <2>2, <2>3 DEF Decide, GatewayTypeOK
<1>5. ASSUME NEW p \in Procs, Serve(p) PROVE GatewayTypeOK'
  BY <1>5, BagAddCounts DEF Serve, GatewayTypeOK
<1>6. ASSUME NEW u \in Users, NEW r \in Assignable, SetRole(u, r) PROVE GatewayTypeOK'
  <2>1. heldAt' \in [Users -> [Roles -> Int]]
    BY <1>6 DEF SetRole, GatewayTypeOK
  <2> QED
    BY <1>6, <2>1, RolesAssumption DEF SetRole, GatewayTypeOK
<1>7. CASE Restart
  BY <1>7 DEF Restart, OpenLog, GatewayTypeOK
<1>8. CASE TimePasses
  BY <1>8 DEF TimePasses, GatewayTypeOK
<1>9. CASE UNCHANGED vars
  BY <1>9 DEF vars, GatewayTypeOK
<1> QED
  BY <1>1, <1>2, <1>3, <1>4, <1>5, <1>6, <1>7, <1>8, <1>9 DEF Next, Proceed

-----------------------------------------------------------------------------
(* Operations.  A request carries the check its route and method ask for   *)
(* from AuthMiddleware to the handler, and the two tables fit.             *)

OpChecked(r) ==
    /\ r.op = "read projects" => r.check = "read"
    /\ r.op = "create project" => r.check = "write"
    /\ r.op = "purge project" => r.check = "delete"
    /\ r.op = "manage users" => r.check = AccessRoleAdmin

OpsInv == \A p \in Procs : req[p].pc \in {"authenticated", "decided"} => OpChecked(req[p])

(* The route table guards every operation with its own permission. *)
LEMMA RoutesAreGuarded ==
    ASSUME NEW route, NEW method
    PROVE  LET op == Operation(route, method)
               check == RequiredCheck(route, method)
           IN  /\ op = "read projects" => check = "read"
               /\ op = "create project" => check = "write"
               /\ op = "purge project" => check = "delete"
               /\ op = "manage users" => check = AccessRoleAdmin
<1>1. CASE route = "projects"
  <2>1. /\ Operation(route, method) = ProjectsHandler(method)
        /\ RequiredCheck(route, method) = ProjectPermission(method)
    BY <1>1 DEF Operation, RequiredCheck
  <2> QED
    BY <2>1 DEF ProjectsHandler, ProjectPermission, Refused
<1>2. CASE route = "admin"
  BY <1>2 DEF Operation, RequiredCheck
<1>3. CASE route \notin {"projects", "admin"}
  BY <1>3 DEF Operation, RequiredCheck
<1> QED
  BY <1>1, <1>2, <1>3

LEMMA OpsNext == GatewayTypeOK /\ OpsInv /\ [Next]_vars => OpsInv'
<1> SUFFICES ASSUME GatewayTypeOK, OpsInv, [Next]_vars,
                    NEW q \in Procs, req'[q].pc \in {"authenticated", "decided"}
             PROVE  OpChecked(req'[q])
  BY DEF OpsInv
<1>0. req \in [Procs -> {Idle} \cup SignReq \cup GuardedReq]
  BY DEF GatewayTypeOK
<1>1. CASE req'[q] = req[q]
  BY <1>1 DEF OpsInv
<1>2. ASSUME NEW p \in Procs, NEW u \in Users, LoginLookup(p, u) PROVE OpChecked(req'[q])
  BY <1>0, <1>1, <1>2 DEF LoginLookup
<1>3. ASSUME NEW p \in Procs, NEW j \in tokens \cup CLITokens, NEW route \in Routes,
             NEW method \in Methods, Authenticate(p, j, route, method)
      PROVE  OpChecked(req'[q])
  <2>1. CASE q = p /\ req'[q] # req[q]
    <3>1. /\ req'[q].op = Operation(route, method)
          /\ req'[q].check = RequiredCheck(route, method)
      BY <1>0, <1>3, <2>1 DEF Authenticate
    <3> QED
      BY <3>1, RoutesAreGuarded DEF OpChecked
  <2>2. CASE ~(q = p /\ req'[q] # req[q])
    BY <1>0, <1>1, <1>3, <2>2 DEF Authenticate
  <2> QED
    BY <2>1, <2>2
<1>4. ASSUME NEW p \in Procs, GenerateToken(p) \/ Serve(p) PROVE OpChecked(req'[q])
  BY <1>0, <1>1, <1>4 DEF GenerateToken, Serve, Idle
<1>5. ASSUME NEW p \in Procs, Decide(p) PROVE OpChecked(req'[q])
  <2>1. CASE q = p
    <3>1. req[p] \in GuardedReq
      BY <1>0, <1>5 DEF Decide, Idle, SignReq
    <3>2. req'[q].op = req[p].op /\ req'[q].check = req[p].check
      BY <1>0, <1>5, <2>1, <3>1 DEF Decide, GuardedReq
    <3> QED
      BY <1>5, <2>1, <3>2 DEF Decide, OpsInv, OpChecked
  <2>2. CASE q # p
    BY <1>0, <1>1, <1>5, <2>2 DEF Decide
  <2> QED
    BY <2>1, <2>2
<1>6. CASE Restart
  BY <1>6 DEF Restart, Idle
<1>7. CASE \/ \E u \in Users, r \in Assignable : SetRole(u, r)
           \/ TimePasses
           \/ UNCHANGED vars
  BY <1>1, <1>7 DEF SetRole, TimePasses, vars
<1> QED
  BY <1>2, <1>3, <1>4, <1>5, <1>6, <1>7 DEF Next, Proceed

(* What passes the check is permitted what the check stands for. *)
LEMMA OpsSuffice == OpsInv => OperationsArePermitted
<1> SUFFICES ASSUME OpsInv, NEW p \in Procs, req[p].pc = "decided",
                    Allowed(req[p].role, req[p].check)
             PROVE  /\ req[p].op = "read projects" => Authorize(req[p].role, "read")
                    /\ req[p].op = "create project" => Authorize(req[p].role, "write")
                    /\ req[p].op = "purge project" => Authorize(req[p].role, "delete")
                    /\ req[p].op = "manage users" => req[p].role = "admin"
  BY DEF OperationsArePermitted
<1>1. OpChecked(req[p])
  BY DEF OpsInv
<1>2. \A r : ~Authorize(r, AccessRoleAdmin)
  BY DEF Authorize, PolicyMatrix, AccessRoleAdmin
<1>3. \A r : \A c \in {"read", "write", "delete"} : Allowed(r, c) => Authorize(r, c)
  BY DEF Allowed, NoCheck, AccessRoleAdmin
<1>4. \A r : Allowed(r, AccessRoleAdmin) => r = "admin"
  BY <1>2 DEF Allowed, NoCheck, AccessRoleAdmin
<1> QED
  BY <1>1, <1>3, <1>4 DEF OpChecked

-----------------------------------------------------------------------------
(* Roles.  Held says that the account had the role at time t or later.     *)

Held(u, r, t) == t <= clock /\ (role[u] = r \/ t <= heldAt[u][r])

HeldAtBounded == \A u \in Users, r \in Roles : heldAt[u][r] <= clock

(* A token's role was held when its login read it, which is at most        *)
(* MaxLatency before the token was signed.                                 *)
TokenRecent(j) ==
    /\ j.exp - TokenTTL <= clock
    /\ Held(j.user, j.role, j.exp - TokenTTL - MaxLatency)

SignerRecent(r) == clock <= r.since + MaxLatency /\ Held(r.user, r.role, r.since)

(* The token of a request was alive when the request arrived. *)
RequestRecent(r) ==
    /\ clock <= r.since + MaxLatency
    /\ Held(r.user, r.role, r.since + 1 - TokenTTL - MaxLatency)

ClaimsInv ==
    /\ HeldAtBounded
    /\ \A j \in tokens : TokenRecent(j)
    /\ \A p \in Procs : req[p].pc = "sign" => SignerRecent(req[p])
    /\ \A p \in Procs : req[p].pc \in {"authenticated", "decided"} => RequestRecent(req[p])

(* The clock does not run backwards, and a request under way is never      *)
(* older than MaxLatency.                                                  *)
LEMMA ClockStep ==
    ASSUME GatewayTypeOK, [Next]_vars
    PROVE  /\ clock' = clock \/ (clock' = clock + 1 /\ TimePasses)
           /\ clock' \in Nat
<1> USE DEF accountVars, auditVars
<1>1. clock' = clock \/ TimePasses
  BY DEF Next, Proceed, LoginLookup, Authenticate, GenerateToken, Decide, Serve, SetRole,
         Restart, vars
<1> QED
  BY <1>1 DEF TimePasses, GatewayTypeOK

(* The only step that takes a role away notes when. *)
LEMMA RoleStep ==
    ASSUME [Next]_vars
    PROVE  \/ UNCHANGED <<role, heldAt>>
           \/ \E u \in Users, r \in Assignable : SetRole(u, r)
<1> USE DEF accountVars, auditVars
<1> QED
  BY DEF Next, Proceed, LoginLookup, Authenticate, GenerateToken, Decide, Serve, Restart,
         TimePasses, vars

(* Whoever had a role at time t or later is remembered to have had it. *)
LEMMA HeldStep ==
    ASSUME GatewayTypeOK, HeldAtBounded, [Next]_vars
    PROVE  /\ HeldAtBounded'
           /\ \A u \in Users, r \in Roles, t \in Int :
                 Held(u, r, t) => t <= clock' /\ (role'[u] = r \/ t <= heldAt'[u][r])
<1>0. /\ clock \in Nat /\ clock' \in Nat /\ clock <= clock'
      /\ role \in [Users -> Roles \cup {NoRole}]
      /\ heldAt \in [Users -> [Roles -> Int]]
  BY ClockStep DEF GatewayTypeOK
<1>1. CASE UNCHANGED <<role, heldAt>>
  BY <1>0, <1>1 DEF HeldAtBounded, Held
<1>2. ASSUME NEW v \in Users, NEW s \in Assignable, SetRole(v, s)
      PROVE  /\ HeldAtBounded'
             /\ \A u \in Users, r \in Roles, t \in Int :
                   Held(u, r, t) => t <= clock' /\ (role'[u] = r \/ t <= heldAt'[u][r])
  <2>1. ASSUME NEW u \in Users, NEW r \in Roles
        PROVE  /\ heldAt[u][r] <= heldAt'[u][r] /\ heldAt'[u][r] <= clock
               /\ role[u] = r => role'[u] = r \/ heldAt'[u][r] = clock
    <3>1. CASE u = v /\ role[v] = r
      BY <1>0, <1>2, <3>1 DEF SetRole, HeldAtBounded, NoRole, Roles, PolicyMatrix
    <3>2. CASE ~(u = v /\ role[v] = r)
      BY <1>0, <1>2, <3>2 DEF SetRole, HeldAtBounded
    <3> QED
      BY <3>1, <3>2
  <2>2. heldAt' \in [Users -> [Roles -> Int]]
    BY TypeNext DEF GatewayTypeOK
  <2> QED
    BY <1>0, <2>1, <2>2 DEF HeldAtBounded, Held
<1> QED
  BY <1>1, <1>2, RoleStep

(* What was recent stays so, for as long as the request may take. *)
LEMMA RecentStep ==
    ASSUME GatewayTypeOK, HeldAtBounded, [Next]_vars
    PROVE  /\ \A j \in Token : TokenRecent(j) => TokenRecent(j)'
           /\ \A p \in Procs : req'[p] = req[p] =>
                 /\ req[p].pc = "sign" /\ SignerRecent(req[p]) => SignerRecent(req[p])'
                 /\ req[p].pc \in {"authenticated", "decided"} /\ RequestRecent(req[p])
                       => RequestRecent(req[p])'
<1> USE TimesAssumption
<1>1. ASSUME NEW j \in Token, TokenRecent(j) PROVE TokenRecent(j)'
  <2>1. j.exp - TokenTTL - MaxLatency \in Int /\ j.exp \in Int
    BY DEF Token
  <2>2. Held(j.user, j.role, j.exp - TokenTTL - MaxLatency)'
    BY <1>1, <2>1, HeldStep DEF Token, TokenRecent, Held
  <2> QED
    BY <1>1, <2>1, <2>2, ClockStep DEF TokenRecent, GatewayTypeOK
<1>2. ASSUME NEW p \in Procs, req'[p] = req[p], req[p].pc # "idle",
             clock <= req[p].since + MaxLatency
      PROVE  clock' <= req[p].since + MaxLatency
  <2>1. req[p].since \in Nat
    BY <1>2 DEF GatewayTypeOK, Idle, SignReq, GuardedReq
  <2>2. p \in Busy
    BY <1>2 DEF Busy, Idle
  <2> QED
    BY <1>2, <2>1, <2>2, ClockStep DEF GatewayTypeOK, TimePasses
<1>3. ASSUME NEW p \in Procs, req'[p] = req[p], req[p].pc = "sign", SignerRecent(req[p])
      PROVE  SignerRecent(req[p])'
  <2>1. req[p].since \in Int /\ req[p].user \in Users /\ req[p].role \in Roles
    BY <1>3 DEF GatewayTypeOK, Idle, SignReq, GuardedReq
  <2>2. Held(req[p].user, req[p].role, req[p].since)'
    BY <1>3, <2>1, HeldStep DEF SignerRecent, Held
  <2> QED
    BY <1>2, <1>3, <2>2 DEF SignerRecent
<1>4. ASSUME NEW p \in Procs, req'[p] = req[p], req[p].pc \in {"authenticated", "decided"},
             RequestRecent(req[p])
      PROVE  RequestRecent(req[p])'
  <2>1. /\ req[p].since + 1 - TokenTTL - MaxLatency \in Int
        /\ req[p].user \in Users /\ req[p].role \in Roles
    BY <1>4 DEF GatewayTypeOK, Idle, SignReq, GuardedReq
  <2>2. Held(req[p].user, req[p].role, req[p].since + 1 - TokenTTL - MaxLatency)'
    BY <1>4, <2>1, HeldStep DEF RequestRecent, Held
  <2> QED
    BY <1>2, <1>4, <2>2 DEF RequestRecent
<1> QED
  BY <1>1, <1>3, <1>4

LEMMA ClaimsInit == Init => ClaimsInv
  BY TimesAssumption DEF Init, ClaimsInv, HeldAtBounded, Idle

LEMMA ClaimsNext ==
    ASSUME DefaultKey \notin ServerKeys
    PROVE  GatewayTypeOK /\ ClaimsInv /\ [Next]_vars => ClaimsInv'
<1> SUFFICES ASSUME GatewayTypeOK, ClaimsInv, [Next]_vars PROVE ClaimsInv'
  OBVIOUS
<1> USE TimesAssumption DEF accountVars
<1>0. /\ req \in [Procs -> {Idle} \cup SignReq \cup GuardedReq]
      /\ tokens \subseteq Token /\ clock \in Nat
      /\ role \in [Users -> Roles \cup {NoRole}] /\ heldAt \in [Users -> [Roles -> Int]]
      /\ HeldAtBounded
  BY DEF GatewayTypeOK, ClaimsInv
<1>1. HeldAtBounded'
  BY <1>0, HeldStep
<1> DEFINE ReqClaims(p) ==
             /\ req[p].pc = "sign" => SignerRecent(req[p])
             /\ req[p].pc \in {"authenticated", "decided"} => RequestRecent(req[p])
<1>2. ASSUME NEW q \in Procs, req'[q] = req[q] PROVE ReqClaims(q)'
  BY <1>0, <1>2, RecentStep DEF ClaimsInv
<1>3. ASSUME NEW q \in Procs, req'[q] = Idle PROVE ReqClaims(q)'
  BY <1>3 DEF Idle
<1>4. ASSUME UNCHANGED tokens, \A q \in Procs : ReqClaims(q)' PROVE ClaimsInv'
  <2>1. \A j \in tokens' : TokenRecent(j)'
    BY <1>0, <1>4, RecentStep DEF ClaimsInv
  <2> QED
    BY <1>1, <1>4, <2>1 DEF ClaimsInv
<1>5. ASSUME NEW p \in Procs, NEW u \in Users, LoginLookup(p, u) PROVE ClaimsInv'
  <2>1. SignerRecent(req[p])' /\ req'[p].pc = "sign"
    BY <1>0, <1>5 DEF LoginLookup, SignerRecent, Held
  <2>2. \A q \in Procs \ {p} : req'[q] = req[q]
    BY <1>0, <1>5 DEF LoginLookup
  <2> QED
    BY <1>2, <1>4, <1>5, <2>1, <2>2 DEF LoginLookup
<1>6. ASSUME NEW p \in Procs, NEW j \in tokens \cup CLITokens, NEW route \in Routes,
             NEW method \in Methods, Authenticate(p, j, route, method)
      PROVE  ClaimsInv'
  <2>1. CASE ~ValidateToken(j)
    BY <1>2, <1>4, <1>6, <2>1 DEF Authenticate
  <2>2. CASE ValidateToken(j)
    <3>1. j \in tokens /\ clock < j.exp
      BY <2>2 DEF ValidateToken, CLITokens, GatewayTypeOK
    <3>2. /\ req'[p].user = j.user /\ req'[p].role = j.role /\ req'[p].since = clock
          /\ req'[p].pc \in {"authenticated", "decided"}
      BY <1>0, <1>6, <2>2 DEF Authenticate
    <3>3. /\ j.exp \in Nat /\ j.user \in Users /\ j.role \in Roles
          /\ TokenRecent(j) /\ UNCHANGED <<clock, role, heldAt>>
      BY <1>0, <1>6, <3>1 DEF ClaimsInv, Token, Authenticate
    <3>4. RequestRecent(req[p])'
      BY <1>0, <3>1, <3>2, <3>3 DEF TokenRecent, RequestRecent, Held
    <3>5. \A q \in Procs \ {p} : req'[q] = req[q]
      BY <1>0, <1>6, <2>2 DEF Authenticate
    <3> QED
      BY <1>2, <1>4, <1>6, <3>2, <3>4, <3>5 DEF Authenticate
  <2> QED
    BY <2>1, <2>2
<1>7. ASSUME NEW p \in Procs, GenerateToken(p) PROVE ClaimsInv'
  <2>1. req[p] \in SignReq /\ SignerRecent(req[p])
    BY <1>0, <1>7 DEF GenerateToken, Idle, GuardedReq, ClaimsInv
  <2>2. ASSUME NEW j \in tokens' PROVE TokenRecent(j)'
    <3>1. CASE j \in tokens
      BY <1>0, <3>1, RecentStep DEF ClaimsInv
    <3>2. CASE j \notin tokens
      <4>1. /\ j.user = req[p].user /\ j.role = req[p].role /\ j.exp = clock + TokenTTL
            /\ UNCHANGED <<clock, role, heldAt>>
        BY <1>7, <3>2 DEF GenerateToken
      <4>2. /\ req[p].since \in Nat /\ heldAt[j.user][j.role] \in Int
            /\ j.exp - TokenTTL = clock
        BY <1>0, <2>1, <4>1 DEF SignReq
      <4> QED
        BY <1>0, <2>1, <4>1, <4>2 DEF SignerRecent, TokenRecent, Held
    <3> QED
      BY <3>1, <3>2
  <2>3. \A q \in Procs : req'[q] = IF q = p THEN Idle ELSE req[q]
    BY <1>0, <1>7 DEF GenerateToken
  <2>4. \A q \in Procs : ReqClaims(q)'
    BY <1>2, <1>3, <2>3
  <2> QED
    BY <1>1, <2>2, <2>4 DEF ClaimsInv
<1>8. ASSUME NEW p \in Procs, Decide(p) PROVE ClaimsInv'
  <2>1. req[p] \in GuardedReq /\ RequestRecent(req[p])
    BY <1>0, <1>8 DEF Decide, Idle, SignReq, ClaimsInv
  <2>2. /\ req'[p].user = req[p].user /\ req'[p].role = req[p].role
        /\ req'[p].since = req[p].since /\ req'[p].pc = "decided"
    BY <1>0, <1>8, <2>1 DEF Decide, GuardedReq
  <2>3. RequestRecent(req[p])'
    BY <1>8, <2>1, <2>2 DEF Decide, RequestRecent, Held
  <2>4. \A q \in Procs \ {p} : req'[q] = req[q]
    BY <1>0, <1>8 DEF Decide
  <2> QED
    BY <1>2, <1>4, <1>8, <2>2, <2>3, <2>4 DEF Decide
<1>9. ASSUME NEW p \in Procs, Serve(p) PROVE ClaimsInv'
  <2>1. \A q \in Procs : req'[q] = IF q = p THEN Idle ELSE req[q]
    BY <1>0, <1>9 DEF Serve
  <2> QED
    BY <1>2, <1>3, <1>4, <1>9, <2>1 DEF Serve
<1>10. CASE Restart
  BY <1>3, <1>4, <1>10 DEF Restart
<1>11. CASE \/ \E u \in Users, r \in Assignable : SetRole(u, r)
            \/ TimePasses
            \/ UNCHANGED vars
  BY <1>2, <1>4, <1>11 DEF SetRole, TimePasses, vars
<1> QED
  BY <1>5, <1>6, <1>7, <1>8, <1>9, <1>10, <1>11 DEF Next, Proceed

LEMMA ClaimsSuffice == GatewayTypeOK /\ ClaimsInv => RoleIsRecent
<1> SUFFICES ASSUME GatewayTypeOK, ClaimsInv, NEW p \in Procs,
                    req[p].pc \in {"authenticated", "decided"}
             PROVE  \/ role[req[p].user] = req[p].role
                    \/ clock - heldAt[req[p].user][req[p].role] < TokenTTL + 2 * MaxLatency
  BY DEF RoleIsRecent
<1>1. req[p] \in GuardedReq /\ RequestRecent(req[p])
  BY DEF GatewayTypeOK, Idle, SignReq, ClaimsInv
<1>2. /\ heldAt[req[p].user][req[p].role] \in Int /\ req[p].since \in Int /\ clock \in Int
  BY <1>1 DEF GatewayTypeOK, GuardedReq
<1> QED
  BY <1>1, <1>2, TimesAssumption DEF RequestRecent, Held

-----------------------------------------------------------------------------
(* Records.  On a disk that does not fail no line is torn, and the log     *)
(* stays ahead of what is acted on.                                        *)

(* The requests whose decision is e, logged and not yet acted on. *)
Pending(e) == {p \in Procs : /\ req[p].pc = "decided" /\ req[p].check # NoCheck
                             /\ EventOf(req[p]) = e}

RecordedInv == torn = FALSE /\ DecisionsAreRecorded

LEMMA PendingFinite == \A e : IsFiniteSet(Pending(e)) /\ Cardinality(Pending(e)) \in Nat
<1> SUFFICES ASSUME NEW e PROVE IsFiniteSet(Pending(e)) /\ Cardinality(Pending(e)) \in Nat
  OBVIOUS
<1>1. Pending(e) \subseteq Procs
  BY DEF Pending
<1>2. IsFiniteSet(Pending(e))
  BY <1>1, ProcsAssumption, FS_Subset
<1> QED
  BY <1>2, FS_CardinalityType

LEMMA RecordedInit == Init => RecordedInv
<1> SUFFICES ASSUME Init, NEW e \in Event
             PROVE  Count(e, effective) + Cardinality(Pending(e)) <= Count(e, recorded)
  BY DEF Init, RecordedInv, DecisionsAreRecorded, Pending
<1>1. Pending(e) = {}
  BY DEF Init, Pending, Idle
<1>2. Count(e, EmptyBag) = 0
  BY DEF Count, BagIn, BagToSet, EmptyBag, SetToBag
<1> QED
  BY <1>1, <1>2, FS_EmptySet DEF Init

LEMMA RecordedNext ==
    ASSUME ~DiskFaults
    PROVE  GatewayTypeOK /\ RecordedInv /\ [Next]_vars => RecordedInv'
<1> SUFFICES ASSUME GatewayTypeOK, RecordedInv, [Next]_vars PROVE RecordedInv'
  OBVIOUS
<1> USE DEF auditVars
<1>0. /\ req \in [Procs -> {Idle} \cup SignReq \cup GuardedReq]
      /\ IsABag(recorded) /\ IsABag(effective) /\ torn = FALSE
      /\ \A e \in Event : Count(e, effective) + Cardinality(Pending(e)) <= Count(e, recorded)
  BY DEF GatewayTypeOK, RecordedInv, DecisionsAreRecorded, Pending
<1>1. \A e : /\ Count(e, recorded) \in Nat /\ Count(e, effective) \in Nat
            /\ Cardinality(Pending(e)) \in Nat /\ IsFiniteSet(Pending(e))
  BY <1>0, CountType, PendingFinite
<1> DEFINE Kept == /\ torn' = FALSE
                   /\ \A e \in Event : Count(e, effective') + Cardinality(Pending(e)')
                                       <= Count(e, recorded')
<1>2. SUFFICES Kept
  BY DEF RecordedInv, DecisionsAreRecorded, Pending, Count
<1>3. ASSUME UNCHANGED auditVars, \A e : Pending(e)' = Pending(e) PROVE Kept
  BY <1>0, <1>3
<1>4. ASSUME NEW p \in Procs, NEW u \in Users, LoginLookup(p, u) PROVE Kept
  <2>1. \A e : Pending(e)' = Pending(e)
    BY <1>0, <1>4 DEF LoginLookup, Pending, Idle
  <2> QED
    BY <1>3, <1>4, <2>1 DEF LoginLookup
<1>5. ASSUME NEW p \in Procs, NEW j \in tokens \cup CLITokens, NEW route \in Routes,
             NEW method \in Methods, Authenticate(p, j, route, method)
      PROVE  Kept
  <2>1. \A e : Pending(e)' = Pending(e)
    <3>1. CASE ValidateToken(j)
      <4>1. /\ req[p].pc = "idle"
            /\ req'[p].pc = "decided" => req'[p].check = NoCheck
            /\ \A q \in Procs \ {p} : req'[q] = req[q]
        BY <1>0, <1>5, <3>1 DEF Authenticate, Idle
      <4> QED
        BY <4>1 DEF Pending, EventOf
    <3>2. CASE ~ValidateToken(j)
      BY <1>5, <3>2 DEF Authenticate, Pending, EventOf
    <3> QED
      BY <3>1, <3>2
  <2> QED
    BY <1>3, <1>5, <2>1 DEF Authenticate
<1>6. ASSUME NEW p \in Procs, GenerateToken(p) PROVE Kept
  <2>1. \A e : Pending(e)' = Pending(e)
    BY <1>0, <1>6 DEF GenerateToken, Pending, Idle
  <2> QED
    BY <1>3, <1>6, <2>1 DEF GenerateToken
<1>7. ASSUME NEW p \in Procs, Decide(p) PROVE Kept
  <2>1. req[p] \in GuardedReq /\ req[p].pc = "authenticated"
    BY <1>0, <1>7 DEF Decide, Idle, SignReq
  <2>2. /\ recorded' = recorded (+) SetToBag({EventOf(req[p])}) /\ torn' = FALSE
        /\ effective' = effective
    BY <1>0, <1>7 DEF Decide, Log
  <2>3. /\ EventOf(req[p])' = EventOf(req[p]) /\ req'[p].check = req[p].check
        /\ \A q \in Procs \ {p} : req'[q] = req[q]
    BY <1>0, <1>7, <2>1 DEF Decide, GuardedReq, EventOf
  <2>4. ASSUME NEW e \in Event
        PROVE  Count(e, effective) + Cardinality(Pending(e)') <= Count(e, recorded')
    <3>1. Count(e, recorded') = Count(e, recorded) + (IF e = EventOf(req[p]) THEN 1 ELSE 0)
      BY <1>0, <2>2, BagAddCounts
    <3>2. CASE e = EventOf(req[p])
      <4>1. Pending(e)' \subseteq Pending(e) \cup {p}
        BY <2>3 DEF Pending, EventOf
      <4>2. /\ IsFiniteSet(Pending(e) \cup {p})
            /\ Cardinality(Pending(e) \cup {p}) <= Cardinality(Pending(e)) + 1
        BY <1>1, FS_AddElement
      <4>3. Cardinality(Pending(e)') <= Cardinality(Pending(e) \cup {p})
        BY <4>1, <4>2, FS_Subset
      <4>4. Cardinality(Pending(e)') \in Nat /\ Cardinality(Pending(e) \cup {p}) \in Nat
        BY <4>1, <4>2, FS_Subset, FS_CardinalityType
      <4> QED
        BY <1>0, <1>1, <3>1, <3>2, <4>2, <4>3, <4>4
    <3>3. CASE e # EventOf(req[p])
      <4>1. Pending(e)' = Pending(e)
        BY <2>1, <2>3, <3>3 DEF Pending, EventOf
      <4> QED
        BY <1>0, <1>1, <3>1, <3>3, <4>1
    <3> QED
      BY <3>2, <3>3
  <2> QED
    BY <2>2, <2>4
<1>8. ASSUME NEW p \in Procs, Serve(p) PROVE Kept
  <2>1. req[p] \in GuardedReq /\ req[p].pc = "decided"
    BY <1>0, <1>8 DEF Serve, Idle, SignReq
  <2>2. \A e : Pending(e)' = Pending(e) \ {p}
    BY <1>0, <1>8 DEF Serve, Pending, Idle, EventOf
  <2>3. recorded' = recorded /\ torn' = FALSE
    BY <1>0, <1>8 DEF Serve
  <2>4. \A e : Cardinality(Pending(e) \ {p}) =
                 IF p \in Pending(e) THEN Cardinality(Pending(e)) - 1
                                     ELSE Cardinality(Pending(e))
    BY <1>1, FS_RemoveElement
  <2>5. CASE req[p].check = NoCheck
    <3>1. effective' = effective /\ \A e : p \notin Pending(e)
      BY <1>8, <2>5 DEF Serve, Pending
    <3> QED
      BY <1>0, <2>2, <2>3, <2>4, <3>1
  <2>6. CASE req[p].check # NoCheck
    <3>1. effective' = effective (+) SetToBag({EventOf(req[p])})
      BY <1>8, <2>6 DEF Serve
    <3>2. \A e : p \in Pending(e) <=> e = EventOf(req[p])
      BY <2>1, <2>6 DEF Pending
    <3>3. \A e : Count(e, effective')
                   = Count(e, effective) + (IF e = EventOf(req[p]) THEN 1 ELSE 0)
      BY <1>0, <3>1, BagAddCounts
    <3> QED
      BY <1>0, <1>1, <2>2, <2>3, <2>4, <3>2, <3>3
  <2> QED
    BY <2>5, <2>6
<1>9. CASE Restart
  <2>1. \A e : Pending(e)' = {}
    BY <1>9 DEF Restart, Pending, Idle
  <2>2. \A e : Cardinality(Pending(e)') = 0
    BY <2>1, FS_EmptySet
  <2>3. \A e \in Event : Count(e, effective) + 0 <= Count(e, recorded)
    BY <1>0, <1>1
  <2>4. UNCHANGED auditVars
    BY <1>9 DEF Restart, OpenLog
  <2> QED
    BY <1>0, <2>2, <2>3, <2>4
<1>10. CASE \/ \E u \in Users, r \in Assignable : SetRole(u, r)
            \/ TimePasses
            \/ UNCHANGED vars
  <2>1. \A e : Pending(e)' = Pending(e)
    BY <1>10 DEF SetRole, TimePasses, vars, Pending, EventOf
  <2> QED
    BY <1>3, <1>10, <2>1 DEF SetRole, TimePasses, vars
<1> QED
  BY <1>4, <1>5, <1>6, <1>7, <1>8, <1>9, <1>10 DEF Next, Proceed

-----------------------------------------------------------------------------
(* Types of the requests, the tokens and the two bags, in every behaviour. *)
THEOREM GatewayTypeTheorem == Spec => []GatewayTypeOK
  BY TypeInit, TypeNext, PTL DEF Spec

(* What a handler does is covered by the permission the request passed,    *)
(* for every route and method (main.go:69-80, handler/projects.go:18).     *)
THEOREM OperationsTheorem == Spec => []OperationsArePermitted
<1>1. Init => OpsInv
  BY DEF Init, OpsInv, Idle
<1> QED
  BY <1>1, GatewayTypeTheorem, OpsNext, OpsSuffice, PTL DEF Spec

(* If JWT_SECRET is never the key built into cmd/token, a role is honoured *)
(* no longer than a token's life and two requests' after the account lost  *)
(* it (auth.go:69-81, token.go:28, middleware/auth.go:23).                 *)
THEOREM RoleIsRecentTheorem ==
    ASSUME DefaultKey \notin ServerKeys
    PROVE  Spec => []RoleIsRecent
  BY GatewayTypeTheorem, ClaimsInit, ClaimsNext, ClaimsSuffice, PTL DEF Spec

(* If writes to audit.log do not fail, every decision is in the log by the *)
(* time it is acted on, across restarts and however requests interleave    *)
(* (middleware/role.go:40-57, authorize.go:41-58, audit.go:25, :33).       *)
THEOREM DecisionsTheorem ==
    ASSUME ~DiskFaults
    PROVE  Spec => []DecisionsAreRecorded
<1>1. RecordedInv => DecisionsAreRecorded
  BY DEF RecordedInv
<1> QED
  BY <1>1, GatewayTypeTheorem, RecordedInit, RecordedNext, PTL DEF Spec
=============================================================================
