--------------------------- MODULE InMemoryStore ---------------------------
(***************************************************************************)
(* The in-memory implementation of the Store interface, the one all tests  *)
(* of the auth-service run on (auth-service/internal/store/store.go).  A   *)
(* write method holds the mutex throughout and is one action.  What        *)
(* readers may do with the pointers GetUser hands out is not modelled      *)
(* here.                                                                   *)
(***************************************************************************)
EXTENDS Integers, Functions

CONSTANTS Usernames, Hashes, Roles,
          Tokens,           \* 32 random bytes; a value is never drawn twice
          TTLs,             \* the lifetimes callers ask for, in clock ticks
          MaxUserID, MaxSessionID   \* bounds on the ids given out

VARIABLES clock, users, nextID, sessions, nextSessionID

userVars == <<users, nextID>>
sessionVars == <<sessions, nextSessionID>>
vars == <<clock, users, nextID, sessions, nextSessionID>>

Put(map, id, row) == [k \in DOMAIN map \cup {id} |-> IF k = id THEN row ELSE map[k]]
Delete(map, ids) == Restrict(map, DOMAIN map \ ids)

(* CanX is the condition under which method X succeeds. *)

CanCreateUser(n) == \A id \in DOMAIN users : users[id].username # n

CreateUser(n, h, r) ==
    /\ CanCreateUser(n)
    /\ users' = Put(users, nextID, [username |-> n, passwordHash |-> h, role |-> r,
                                    createdAt |-> clock])
    /\ nextID' = nextID + 1
    /\ UNCHANGED <<clock, sessionVars>>

TakenByNobody(id, n) == FALSE       \* mutant: a new name is not looked up
TakenByAnother(id, n) == \E u \in DOMAIN users : users[u].username = n /\ u # id

CanUpdateUser(id, n) == id \in DOMAIN users /\ ~TakenByAnother(id, n)

UpdateUser(id, n, h, r) ==
    /\ CanUpdateUser(id, n)
    /\ users' = [users EXCEPT ![id] = [username |-> n, passwordHash |-> h, role |-> r,
                                       createdAt |-> users[id].createdAt]]
    /\ UNCHANGED <<clock, nextID, sessionVars>>

DeleteUser(id) ==
    /\ id \in DOMAIN users
    /\ users' = Delete(users, {id})
    /\ UNCHANGED <<clock, nextID, sessionVars>>

(* rand.Read is trusted not to repeat 32 bytes: no collision check. *)
CanCreateSession(ttl) == ttl > 0

CreateSession(uid, n, r, tok, ttl) ==
    /\ CanCreateSession(ttl)
    /\ sessions' = Put(sessions, nextSessionID,
                       [userID |-> uid, username |-> n, role |-> r, token |-> tok,
                        createdAt |-> clock, expiresAt |-> clock + ttl])
    /\ nextSessionID' = nextSessionID + 1
    /\ UNCHANGED <<clock, userVars>>

DeleteSession(id) ==
    /\ id \in DOMAIN sessions
    /\ sessions' = Delete(sessions, {id})
    /\ UNCHANGED <<clock, userVars, nextSessionID>>

DeleteSessionsByUserID(uid, excludeToken) ==
    /\ sessions' = Delete(sessions, {id \in DOMAIN sessions :
                                        /\ sessions[id].userID = uid
                                        /\ sessions[id].token # excludeToken})
    /\ UNCHANGED <<clock, userVars, nextSessionID>>

ListSessionsByUserID(uid) ==
    {id \in DOMAIN sessions : sessions[id].userID = uid /\ sessions[id].expiresAt > clock}

ExpiredAtOnce == {id \in DOMAIN sessions : clock >= sessions[id].expiresAt}     \* mutant
Expired == {id \in DOMAIN sessions : clock > sessions[id].expiresAt}

DeleteExpiredSessions ==
    /\ sessions' = Delete(sessions, Expired)
    /\ UNCHANGED <<clock, userVars, nextSessionID>>

Tick == clock' = clock + 1 /\ UNCHANGED <<userVars, sessionVars>>

Init ==
    /\ clock = 0
    /\ users = [id \in {} |-> {}] /\ nextID = 1
    /\ sessions = [id \in {} |-> {}] /\ nextSessionID = 1

API == INSTANCE StoreAPI WITH
    IDs             <- (1..MaxUserID) \cup (1..MaxSessionID),
    Precision       <- 1,
    spentUserIDs    <- 1..(nextID - 1),
    spentSessionIDs <- 1..(nextSessionID - 1)

(* The interface, with times kept exactly. *)
ImplementsStoreAPI == API!Spec
=============================================================================
