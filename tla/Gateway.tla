------------------------------ MODULE Gateway ------------------------------
(***************************************************************************)
(* The way of a request through the auth-service's middleware: the routes  *)
(* of cmd/server/main.go, AuthMiddleware, RequireRole and                  *)
(* RequirePermission with the RBAC matrix, the audit log, and the handlers *)
(* that answer from the claims alone.                                      *)
(*                                                                         *)
(* A request runs in its own goroutine.  Its token is validated once, its  *)
(* decision is logged, and only then is it served or refused; between      *)
(* these steps other requests run, roles change and time passes.  Logger   *)
(* holds its mutex for the whole of Log, so a decision and its record are  *)
(* one step.                                                               *)
(*                                                                         *)
(* A login matters here for what its token says: it copies the role of the *)
(* account, which the handler read before bcrypt ran.                      *)
(***************************************************************************)
EXTENDS Integers, FiniteSets, Bags

CONSTANTS
    Procs,          \* goroutines that serve requests
    Users,
    ServerKeys,     \* the values JWT_SECRET is given
    DefaultKey,     \* the key cmd/token signs with
    Routes, Methods,    \* what requests ask for in the explored behaviours
    Assignable,     \* the roles an admin gives accounts in the explored behaviours
    TokenTTL,       \* lifetime of a login's token
    CLIDuration,    \* lifetime of a token of cmd/token
    DiskFaults,     \* TRUE iff writes to audit.log may fail
    MaxLatency,     \* no request takes longer than this
    MaxClock, MaxRecords, MaxTokens      \* bounds of the explored behaviours

ASSUME TimesAssumption == TokenTTL \in Nat /\ CLIDuration \in Nat /\ MaxLatency \in Nat
ASSUME DiskAssumption == DiskFaults \in BOOLEAN
ASSUME ProcsAssumption == IsFiniteSet(Procs)

VARIABLES
    clock,
    role,       \* the role of each account in the store, NoRole if there is none
    heldAt,     \* history: when each account last lost each role
    key,        \* the server's signing key
    tokens,     \* the JWTs logins handed out
    req,        \* per goroutine: where its request is, and what it carries
    recorded,   \* the events that can be read back from audit.log
    torn,       \* TRUE iff the last line of audit.log has no newline
    effective,  \* history: the decisions that were acted on
    status      \* the status the last step answered with, 0 if it answered nothing

auditVars == <<recorded, torn, effective>>
accountVars == <<role, heldAt>>
vars == <<clock, role, heldAt, key, tokens, req, recorded, torn, effective, status>>

-----------------------------------------------------------------------------
(* Roles, permissions, routes. *)

NoRole == "none"

PolicyMatrix == [admin     |-> {"read", "write", "delete"},
                 developer |-> {"read", "write"},
                 viewer    |-> {"read"}]

Roles == DOMAIN PolicyMatrix

Authorize(r, action) == r \in DOMAIN PolicyMatrix /\ action \in PolicyMatrix[r]

AllRoutes == {"whoami", "me", "projects", "admin"}
AllMethods == {"GET", "POST", "PUT", "DELETE"}

ASSUME RolesAssumption == Assignable \subseteq Roles \cup {NoRole}
ASSUME RequestsAssumption == Routes \subseteq AllRoutes /\ Methods \subseteq AllMethods

NoCheck == "none"
AccessRoleAdmin == "ACCESS_ROLE_admin"

(* mutant: DELETE is guarded as POST is. *)
ProjectPermissionMixed(method) ==
    IF method \in {"POST", "DELETE"} THEN "write" ELSE IF method = "GET" THEN "read" ELSE NoCheck

(* The check a request must pass, by the name the audit log gives it. *)
ProjectPermission(method) ==
    CASE method = "GET" -> "read"
      [] method = "POST" -> "write"
      [] method = "DELETE" -> "delete"
      [] OTHER -> NoCheck

RequiredCheck(route, method) ==
    CASE route = "projects" -> ProjectPermission(method)
      [] route = "admin" -> AccessRoleAdmin
      [] OTHER -> NoCheck

Allowed(r, check) ==
    \/ check = NoCheck
    \/ check = AccessRoleAdmin /\ r = "admin"
    \/ Authorize(r, check)

(* What the handler behind the checks does for the method it sees. *)
Refused == "method not allowed"
ProjectsHandler(method) ==
    CASE method = "GET" -> "read projects"
      [] method = "POST" -> "create project"
      [] method = "DELETE" -> "purge project"
      [] OTHER -> Refused

Operation(route, method) ==
    CASE route = "projects" -> ProjectsHandler(method)
      [] route = "admin" -> "manage users"
      [] OTHER -> "tell identity"

Event == [user : Users, role : Roles, action : {"read", "write", "delete", AccessRoleAdmin},
          result : {"allow", "deny"}]

EventOf(r) == [user |-> r.user, role |-> r.role, action |-> r.check,
               result |-> IF Allowed(r.role, r.check) THEN "allow" ELSE "deny"]

-----------------------------------------------------------------------------
Idle == [pc |-> "idle"]
Busy == {p \in Procs : req[p] # Idle}

(* Bounds the decisions, those of requests under way and lost ones too. *)
RequestBound ==
    BagCardinality(recorded) + BagCardinality(effective) + 2 * Cardinality(Busy) < MaxRecords

(* Tokens anyone may make with cmd/token, for any subject and role. *)
CLITokens == [user : Users, role : Roles, exp : {clock + CLIDuration}, key : {DefaultKey}]

ValidateTokenLate(j) == j.key = key /\ clock <= j.exp        \* mutant: exp is inclusive
ValidateToken(j) == j.key = key /\ clock < j.exp

-----------------------------------------------------------------------------
(* POST /auth/login: the account is read, bcrypt runs, the token is signed. *)

LoginLookup(p, u) ==
    /\ req[p] = Idle /\ role[u] # NoRole
    /\ req' = [req EXCEPT ![p] = [pc |-> "sign", user |-> u, role |-> role[u], since |-> clock]]
    /\ status' = 0
    /\ UNCHANGED <<clock, accountVars, key, tokens, auditVars>>

GenerateToken(p) ==
    /\ req[p].pc = "sign" /\ Cardinality(tokens) < MaxTokens
    /\ tokens' = tokens \cup {[user |-> req[p].user, role |-> req[p].role,
                               exp |-> clock + TokenTTL, key |-> key]}
    /\ req' = [req EXCEPT ![p] = Idle]
    /\ status' = 200
    /\ UNCHANGED <<clock, accountVars, key, auditVars>>

(* AuthMiddleware. *)
Authenticate(p, j, route, method) ==
    /\ req[p] = Idle /\ RequestBound
    /\ IF ValidateToken(j)
       THEN /\ req' = [req EXCEPT ![p] =
                         LET check == RequiredCheck(route, method)
                         IN  [pc |-> IF check = NoCheck THEN "decided" ELSE "authenticated",
                              user |-> j.user, role |-> j.role, check |-> check,
                              op |-> Operation(route, method), since |-> clock]]
            /\ status' = 0
       ELSE status' = 401 /\ UNCHANGED req
    /\ UNCHANGED <<clock, accountVars, key, tokens, auditVars>>

(***************************************************************************)
(* Logger.Log.  A write that fails leaves nothing, or a part of the line;  *)
(* the next line is then glued to that part and cannot be read back.       *)
(***************************************************************************)
Log(e) ==
    \/ /\ recorded' = IF torn THEN recorded ELSE recorded (+) SetToBag({e})
       /\ torn' = FALSE
    \/ /\ DiskFaults
       /\ torn' \in {torn, TRUE}
       /\ UNCHANGED recorded

(***************************************************************************)
(* RequireRole and RequirePermission; what Log returns is not looked at.   *)
(* Behind AuthMiddleware the claims are always there, so their 401 is no   *)
(* step.                                                                   *)
(***************************************************************************)
Decide(p) ==
    /\ req[p].pc = "authenticated"
    /\ Log(EventOf(req[p]))
    /\ req' = [req EXCEPT ![p].pc = "decided"]
    /\ status' = 0
    /\ UNCHANGED <<clock, accountVars, key, tokens, effective>>

(* The 403, or the handler; what becomes of an admin's request is left to  *)
(* AuthService.                                                            *)
Serve(p) ==
    /\ req[p].pc = "decided"
    /\ effective' = IF req[p].check = NoCheck
                    THEN effective ELSE effective (+) SetToBag({EventOf(req[p])})
    /\ status' = CASE ~Allowed(req[p].role, req[p].check) -> 403
                  [] req[p].op = Refused -> 405
                  [] OTHER -> 200
    /\ req' = [req EXCEPT ![p] = Idle]
    /\ UNCHANGED <<clock, accountVars, key, tokens, recorded, torn>>

-----------------------------------------------------------------------------
(* An admin changes a role, or creates or deletes the account. *)
SetRole(u, r) ==
    /\ r # role[u]
    /\ role' = [role EXCEPT ![u] = r]
    /\ heldAt' = IF role[u] = NoRole THEN heldAt ELSE [heldAt EXCEPT ![u][role[u]] = clock]
    /\ status' = 0
    /\ UNCHANGED <<clock, key, tokens, req, auditVars>>

OpenLogTruncates == recorded' = EmptyBag /\ torn' = FALSE       \* mutant: no O_APPEND
OpenLog == UNCHANGED <<recorded, torn>>

(* The process dies and starts again, maybe with another JWT_SECRET. *)
Restart ==
    /\ req' = [p \in Procs |-> Idle]
    /\ key' \in ServerKeys
    /\ OpenLog
    /\ status' = 0
    /\ UNCHANGED <<clock, accountVars, tokens, effective>>

TimePasses ==
    /\ clock < MaxClock
    /\ \A p \in Busy : clock < req[p].since + MaxLatency
    /\ clock' = clock + 1
    /\ status' = 0
    /\ UNCHANGED <<accountVars, key, tokens, req, auditVars>>

Init ==
    /\ clock = 0
    /\ role \in [Users -> Roles]
    /\ heldAt = [u \in Users |-> [r \in Roles |-> 0 - TokenTTL - 2 * MaxLatency]]
    /\ key \in ServerKeys
    /\ tokens = {}
    /\ req = [p \in Procs |-> Idle]
    /\ recorded = EmptyBag /\ torn = FALSE /\ effective = EmptyBag
    /\ status = 0

Proceed(p) == GenerateToken(p) \/ Decide(p) \/ Serve(p)

Next ==
    \/ \E p \in Procs :
         \/ \E u \in Users : LoginLookup(p, u)
         \/ \E j \in tokens \cup CLITokens, route \in Routes, method \in Methods :
               Authenticate(p, j, route, method)
         \/ Proceed(p)
    \/ \E u \in Users, r \in Assignable : SetRole(u, r)
    \/ Restart
    \/ TimePasses

Spec == Init /\ [][Next]_vars

-----------------------------------------------------------------------------
Count(e, bag) == IF BagIn(e, bag) THEN bag[e] ELSE 0

(* Every authorization decision can be found in the audit log by the time  *)
(* it is acted on, whoever else is logging and whenever the process dies:  *)
(* Log is called before next.ServeHTTP and before the 403                  *)
(* (middleware/role.go:40-57, authorize.go:41-58, audit.go:25, :33).       *)
DecisionsAreRecorded ==
    \A e \in Event :
        Count(e, effective)
            + Cardinality({p \in Procs : /\ req[p].pc = "decided" /\ req[p].check # NoCheck
                                         /\ EventOf(req[p]) = e})
        <= Count(e, recorded)

(* A role that an account has lost, by demotion or deletion, is honoured   *)
(* for no longer than the token lives, the login that read it took to sign *)
(* and the request takes to be served (auth.go:69-81, token.go:28,         *)
(* middleware/auth.go:23), and no token of the command line tool counts.   *)
RoleIsRecent ==
    \A p \in Procs : req[p].pc \in {"authenticated", "decided"} =>
        \/ role[req[p].user] = req[p].role
        \/ clock - heldAt[req[p].user][req[p].role] < TokenTTL + 2 * MaxLatency

(* What the project handler does for a method is covered by the permission *)
(* the router checks for it (main.go:69-80, handler/projects.go:18): read  *)
(* for reading, write for creating, delete for purging.                    *)
OperationsArePermitted ==
    \A p \in Procs :
        req[p].pc = "decided" /\ Allowed(req[p].role, req[p].check) =>
            /\ req[p].op = "read projects" => Authorize(req[p].role, "read")
            /\ req[p].op = "create project" => Authorize(req[p].role, "write")
            /\ req[p].op = "purge project" => Authorize(req[p].role, "delete")
            /\ req[p].op = "manage users" => req[p].role = "admin"
=============================================================================
