------------------------------ MODULE StoreAPI ------------------------------
(***************************************************************************)
(* What the Store interface (auth-service/internal/store/store.go) promises *)
(* its callers, whichever implementation is behind it:                     *)
(*                                                                         *)
(*  - a new row gets an id that no row, present or deleted, ever had;      *)
(*  - usernames are unique, and so are session tokens;                     *)
(*  - a method that fails changes nothing, and one that succeeds changes   *)
(*    the rows it names and no other;                                      *)
(*  - a session asked for with lifetime ttl is gone from the listings at   *)
(*    clock + ttl at the latest and less than Precision before that, and   *)
(*    the sweep removes it only after it expired, but for sure once it is  *)
(*    a Precision past its expiry.                                         *)
(*                                                                         *)
(* Times are kept in clock ticks; Precision is the granularity with which  *)
(* the implementation can store them.                                      *)
(***************************************************************************)
EXTENDS Integers, Functions

CONSTANTS Usernames, Hashes, Roles, Tokens, TTLs,
          IDs,          \* the ids an implementation can give out
          Precision     \* granularity of stored times, in ticks

VARIABLES clock, users, sessions,
          spentUserIDs,     \* the ids users had so far, deleted ones too
          spentSessionIDs

vars == <<clock, users, sessions, spentUserIDs, spentSessionIDs>>

(* The times at most a Precision before t that can be stored for t. *)
Rounded(t) == (t - Precision + 1)..t

Without(f, S) == Restrict(f, DOMAIN f \ S)

CreateUser(n, h, r) ==
    /\ \A i \in DOMAIN users : users[i].username # n
    /\ \E id \in IDs \ spentUserIDs, at \in Rounded(clock) :
          /\ users' = [i \in DOMAIN users \cup {id} |->
                         IF i = id THEN [username |-> n, passwordHash |-> h,
                                         role |-> r, createdAt |-> at]
                                   ELSE users[i]]
          /\ spentUserIDs' = spentUserIDs \cup {id}
    /\ UNCHANGED <<clock, sessions, spentSessionIDs>>

UpdateUser(id, n, h, r) ==
    /\ id \in DOMAIN users
    /\ \A i \in DOMAIN users \ {id} : users[i].username # n
    /\ users' = [users EXCEPT ![id] = [username |-> n, passwordHash |-> h, role |-> r,
                                       createdAt |-> users[id].createdAt]]
    /\ UNCHANGED <<clock, sessions, spentUserIDs, spentSessionIDs>>

DeleteUser(id) ==
    /\ id \in DOMAIN users
    /\ users' = Without(users, {id})
    /\ UNCHANGED <<clock, sessions, spentUserIDs, spentSessionIDs>>

CreateSession(uid, n, r, tok, ttl) ==
    /\ ttl > 0
    /\ \A i \in DOMAIN sessions : sessions[i].token # tok
    /\ \E id \in IDs \ spentSessionIDs, at \in Rounded(clock), exp \in Rounded(clock + ttl) :
          /\ sessions' = [i \in DOMAIN sessions \cup {id} |->
                            IF i = id THEN [userID |-> uid, username |-> n, role |-> r,
                                            token |-> tok, createdAt |-> at, expiresAt |-> exp]
                                      ELSE sessions[i]]
          /\ spentSessionIDs' = spentSessionIDs \cup {id}
    /\ UNCHANGED <<clock, users, spentUserIDs>>

RemoveSessions(S) ==
    /\ sessions' = Without(sessions, S)
    /\ UNCHANGED <<clock, users, spentUserIDs, spentSessionIDs>>

DeleteSession(id) == id \in DOMAIN sessions /\ RemoveSessions({id})

DeleteSessionsByUserID(uid, excludeToken) ==
    RemoveSessions({i \in DOMAIN sessions :
                      sessions[i].userID = uid /\ sessions[i].token # excludeToken})

ListSessionsByUserID(uid) ==
    {i \in DOMAIN sessions : sessions[i].userID = uid /\ sessions[i].expiresAt > clock}

DeleteExpiredSessions ==
    LET Expired == {i \in DOMAIN sessions : sessions[i].expiresAt < clock}
        Overdue == {i \in DOMAIN sessions : sessions[i].expiresAt <= clock - Precision}
    IN  \E S \in SUBSET (Expired \ Overdue) : RemoveSessions(S \cup Overdue)

Tick ==
    /\ clock' = clock + 1
    /\ UNCHANGED <<users, sessions, spentUserIDs, spentSessionIDs>>

Init ==
    /\ clock = 0
    /\ DOMAIN users = {} /\ DOMAIN sessions = {}
    /\ spentUserIDs = {} /\ spentSessionIDs = {}

Next ==
    \/ \E n \in Usernames, h \in Hashes, r \in Roles :
          CreateUser(n, h, r) \/ \E id \in IDs : UpdateUser(id, n, h, r)
    \/ \E id \in IDs : DeleteUser(id) \/ DeleteSession(id)
    \/ \E uid \in IDs, tok \in Tokens : DeleteSessionsByUserID(uid, tok)
    \/ \E uid \in IDs, n \in Usernames, r \in Roles, tok \in Tokens, ttl \in TTLs :
          CreateSession(uid, n, r, tok, ttl)
    \/ DeleteExpiredSessions
    \/ Tick

Spec == Init /\ [][Next]_vars
=============================================================================
