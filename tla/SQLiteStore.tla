---------------------------- MODULE SQLiteStore ----------------------------
(***************************************************************************)
(* The SQLite implementation of the auth-service's Store interface         *)
(* (auth-service/internal/store/sqlite.go).  Every method runs under the   *)
(* store's RWMutex and issues one SQL statement that changes the database, *)
(* so a method is one action.  An error of the driver leaves the tables as *)
(* they are: it is a stuttering step here, and the handlers' business in   *)
(* AuthService.                                                            *)
(*                                                                         *)
(* A table is a function from its primary keys to its rows.  updated_at    *)
(* is left out: only the cleanup worker reads it (module CleanupWorker).   *)
(***************************************************************************)
EXTENDS Integers, Functions

CONSTANTS
    Usernames,      \* the usernames requests may carry
    Hashes,         \* bcrypt hashes, opaque to the store
    Roles,          \* the roles the handlers accept
    Tokens,         \* the values 32 random bytes can take
    SecondTicks,    \* clock ticks in one second of wall time
    TTLs,           \* the session lifetimes callers ask for, in ticks
    MaxUserID, MaxSessionID, MaxClock   \* bounds of the explored behaviours

ASSUME TTLsAssumption == TTLs \subseteq Int
ASSUME SecondTicksAssumption == SecondTicks \in Nat \ {0}
ASSUME BoundsAssumption == MaxUserID \in Nat /\ MaxSessionID \in Nat

VARIABLES
    clock,          \* time.Now(), in ticks
    users,          \* the users table
    userSeq,        \* sqlite_sequence of users: the largest id ever given out
    sessions,       \* the sessions table
    sessionSeq      \* sqlite_sequence of sessions

userVars == <<users, userSeq>>
sessionVars == <<sessions, sessionSeq>>
dbVars == <<clock, users, userSeq, sessions, sessionSeq>>

(***************************************************************************)
(* Timestamps are stored as RFC 3339 text, which has no fraction of a      *)
(* second.  Texts of UTC times compare as the whole seconds they denote.   *)
(***************************************************************************)
FormatRoundsUp(t) == (t + SecondTicks - 1) \div SecondTicks      \* mutant
Format(t) == t \div SecondTicks
Parse(s) == s * SecondTicks

UserRow == [username : Usernames, passwordHash : Hashes, role : Roles, createdAt : Nat]
SessionRow == [userID : Nat, username : Usernames, role : Roles, token : Tokens,
               createdAt : Nat, expiresAt : Int]

Insert(table, id, row) ==
    [k \in DOMAIN table \cup {id} |-> IF k = id THEN row ELSE table[k]]

DeleteWhere(table, ids) == Restrict(table, DOMAIN table \ ids)

-----------------------------------------------------------------------------
(***************************************************************************)
(* Reads.  Those that return one row are the set of its id here: empty     *)
(* stands for the "not found" error.                                       *)
(***************************************************************************)
GetUser(id) == {id} \cap DOMAIN users

GetUserByUsername(n) == {id \in DOMAIN users : users[id].username = n}

GetSessionByID(id) == {id} \cap DOMAIN sessions

GetSessionByToken(tok) == {id \in DOMAIN sessions : sessions[id].token = tok}

ListSessionsInclusive(uid) ==      \* mutant: >= for >
    {id \in DOMAIN sessions : /\ sessions[id].userID = uid
                              /\ sessions[id].expiresAt >= Format(clock)}

ListSessionsByUserID(uid) ==
    {id \in DOMAIN sessions : /\ sessions[id].userID = uid
                              /\ sessions[id].expiresAt > Format(clock)}

ExpiredSessions == {id \in DOMAIN sessions : sessions[id].expiresAt < Format(clock)}

(* Mutant: a plain INTEGER PRIMARY KEY, one more than the largest present. *)
ReusedID(table) ==
    1 + CHOOSE m \in {0} \cup DOMAIN table : \A k \in DOMAIN table : k <= m
NextUserIDReused == ReusedID(users)
NextSessionIDReused == ReusedID(sessions)

(***************************************************************************)
(* AUTOINCREMENT: the key of a new row exceeds every key the table ever    *)
(* held, also those of deleted rows.  A failed INSERT consumes none.       *)
(***************************************************************************)
NextUserID == userSeq + 1
NextSessionID == sessionSeq + 1

-----------------------------------------------------------------------------
(* Writes.  CanX is the condition under which method X succeeds. *)

CanCreateUser(n) == GetUserByUsername(n) = {}

(* Mutant: the sequence is not written. *)
CreateUserForgetsSeq(n, h, r) ==
    /\ CanCreateUser(n)
    /\ users' = Insert(users, NextUserID,
                       [username |-> n, passwordHash |-> h, role |-> r,
                        createdAt |-> Format(clock)])
    /\ UNCHANGED <<clock, userSeq, sessionVars>>

CreateUser(n, h, r) ==
    /\ CanCreateUser(n)
    /\ users' = Insert(users, NextUserID,
                       [username |-> n, passwordHash |-> h, role |-> r,
                        createdAt |-> Format(clock)])
    /\ userSeq' = NextUserID
    /\ UNCHANGED <<clock, sessionVars>>

(* The UPDATE touches no row when id is gone, so it fails with "not found" *)
(* before the UNIQUE constraint on username can be violated.               *)
NameFreeUnchecked(id, n) == TRUE      \* mutant
NameFree(id, n) == GetUserByUsername(n) \subseteq {id}

CanUpdateUser(id, n) == id \in DOMAIN users /\ NameFree(id, n)

(* Mutant: INSERT OR REPLACE instead of UPDATE ... WHERE id. *)
UpdateUserUpserts(id, n, h, r) ==
    /\ NameFree(id, n)
    /\ users' = Insert(users, id, [username |-> n, passwordHash |-> h, role |-> r,
                                   createdAt |-> Format(clock)])
    /\ UNCHANGED <<clock, userSeq, sessionVars>>

UpdateUser(id, n, h, r) ==
    /\ CanUpdateUser(id, n)
    /\ users' = [users EXCEPT ![id] = [username |-> n, passwordHash |-> h, role |-> r,
                                       createdAt |-> users[id].createdAt]]
    /\ UNCHANGED <<clock, userSeq, sessionVars>>

(* No ON DELETE clause, and foreign keys are not switched on: the user's   *)
(* sessions stay.                                                          *)
DeleteUser(id) ==
    /\ id \in DOMAIN users
    /\ users' = DeleteWhere(users, {id})
    /\ UNCHANGED <<clock, userSeq, sessionVars>>

(* token is UNIQUE: a collision makes the INSERT fail.  user_id is not     *)
(* checked against users, and ttl may be anything.                         *)
CanCreateSession(tok) == GetSessionByToken(tok) = {}

CreateSession(uid, n, r, tok, ttl) ==
    /\ CanCreateSession(tok)
    /\ sessions' = Insert(sessions, NextSessionID,
                          [userID |-> uid, username |-> n, role |-> r, token |-> tok,
                           createdAt |-> Format(clock), expiresAt |-> Format(clock + ttl)])
    /\ sessionSeq' = NextSessionID
    /\ UNCHANGED <<clock, userVars>>

DeleteSession(id) ==
    /\ id \in DOMAIN sessions
    /\ sessions' = DeleteWhere(sessions, {id})
    /\ UNCHANGED <<clock, userVars, sessionSeq>>

SessionsOfUserExcept(uid, tok) ==
    {id \in DOMAIN sessions : sessions[id].userID = uid /\ sessions[id].token # tok}

DeleteSessionsByUserID(uid, excludeToken) ==
    /\ sessions' = DeleteWhere(sessions, SessionsOfUserExcept(uid, excludeToken))
    /\ UNCHANGED <<clock, userVars, sessionSeq>>

DeleteExpiredSessions ==
    /\ sessions' = DeleteWhere(sessions, ExpiredSessions)
    /\ UNCHANGED <<clock, userVars, sessionSeq>>

Tick ==
    /\ clock' = clock + 1
    /\ UNCHANGED <<userVars, sessionVars>>

EmptyTable == [id \in {} |-> {}]

(* NewSQLiteStore on a path where there is no database yet. *)
DBInit ==
    /\ clock = 0
    /\ users = EmptyTable /\ userSeq = 0
    /\ sessions = EmptyTable /\ sessionSeq = 0

-----------------------------------------------------------------------------
(***************************************************************************)
(* The integrity the rest of the service relies on.  (Safety properties    *)
(* of every specification built on this store.)                            *)
(***************************************************************************)

(* Type invariant of the two tables and their sequences. *)
DBTypeOK ==
    /\ clock \in Nat /\ userSeq \in Nat /\ sessionSeq \in Nat
    /\ DOMAIN users \subseteq 1..userSeq
    /\ DOMAIN sessions \subseteq 1..sessionSeq
    /\ users \in [DOMAIN users -> UserRow]
    /\ sessions \in [DOMAIN sessions -> SessionRow]

(* No two accounts share a username, although a name is checked when a row *)
(* is created and again when another row is renamed (sqlite.go:104, :278): *)
(* GetUserByUsername is how every handler finds "the" user.                *)
UniqueUsernames ==
    \A i, j \in DOMAIN users : users[i].username = users[j].username => i = j

(* No two sessions share a token (sqlite.go:376): GetSessionByToken and    *)
(* the exclusion in DeleteSessionsByUserID identify a session by it.       *)
UniqueTokens ==
    \A i, j \in DOMAIN sessions : sessions[i].token = sessions[j].token => i = j

(* An id that was given out and whose row is gone never comes back: a     *)
(* handler that read a row, and writes by its id later, can hit a deleted  *)
(* row but never somebody else's (sqlite.go:276, :333, :486).              *)
NoResurrection ==
    [][/\ \A id \in 1..userSeq : id \notin DOMAIN users => id \notin DOMAIN users'
       /\ \A id \in 1..sessionSeq : id \notin DOMAIN sessions => id \notin DOMAIN sessions'
      ]_dbVars
=============================================================================
