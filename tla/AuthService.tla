---------------------------- MODULE AuthService ----------------------------
(***************************************************************************)
(* The auth-service's account and session endpoints                        *)
(* (auth-service/internal/handler/auth.go, admin.go) on the SQLite store.  *)
(*                                                                         *)
(* net/http runs every request in a goroutine of its own.  A store method  *)
(* is atomic, a handler is not: between two of its store calls, and while  *)
(* bcrypt runs, other handlers go on, users are renamed, demoted, deleted, *)
(* and the values the handler read grow stale.  So a handler is one action *)
(* per store call, and req[p] holds what goroutine p still needs of what   *)
(* it read.  Computation on local values belongs to the preceding call's   *)
(* action.                                                                 *)
(*                                                                         *)
(* Requests that are refused before they reach the store (rate limit,      *)
(* method, content type, missing or expired token, insufficient role; JSON *)
(* and fields in all handlers but PUT, which reads its body after its      *)
(* first store call) leave no trace and are not steps.                     *)
(***************************************************************************)
EXTENDS SQLiteStore, FiniteSets

CONSTANTS
    Procs,              \* goroutines that serve requests
    Passwords,
    PasswordOf,         \* bcrypt: the password each hash was made from
    BlankNames, BlankPasswords,   \* those TrimSpace leaves empty
    Omitted,            \* an optional field that is absent (nil *string)
    AdminName, AdminHash,         \* the account main() seeds
    TokenTTL,           \* lifetime of a JWT, in ticks
    Endpoints,          \* the endpoints clients use
    Faults              \* TRUE iff SQLite may fail (busy, disk error)

ASSUME SeedAssumption == AdminName \in Usernames /\ AdminHash \in Hashes /\ "admin" \in Roles
ASSUME PasswordAssumption == PasswordOf \in [Hashes -> Passwords]
ASSUME BlankAssumption == BlankNames \subseteq Usernames /\ BlankPasswords \subseteq Passwords
ASSUME OmittedAssumption == /\ Omitted \notin Usernames
                            /\ Omitted \notin Passwords
                            /\ Omitted \notin Roles
ASSUME TokenTTLAssumption == TokenTTL \in Nat
ASSUME FaultsAssumption == Faults \in BOOLEAN

VARIABLES
    req,        \* per goroutine: where its handler is, and its locals
    jwts,       \* signed tokens, handed to clients and not yet expired
    reply       \* the status of the response the last step wrote, if it wrote one

vars == <<clock, users, userSeq, sessions, sessionSeq, req, jwts, reply>>

-----------------------------------------------------------------------------
(* The locals of a handler between two of its store calls. *)

Idle == [pc |-> "idle"]
SignLocals == [pc : {"loginSign"}, uid : Nat, username : Usernames, role : Roles]
OpenLocals == [pc : {"loginOpen"}, uid : Nat, username : Usernames, role : Roles,
               expiresAt : Nat]

(* read is history, kept for the properties: what the row that was read    *)
(* had in the fields that the client did not give.                         *)
Fields == {"username", "passwordHash", "role"}
Partial == UNION {[S -> Usernames \cup Hashes \cup Roles] : S \in SUBSET Fields}
WriteLocals == [pc : {"passwdWrite", "putWrite"}, uid : Nat, username : Usernames,
                passwordHash : Hashes, role : Roles, read : Partial]

(* bearer is history: the account the caller's token was issued to, if it  *)
(* still bore the name in the token when the request arrived.              *)
SessionLocals == [pc : {"delSessCheck", "delSessDelete"}, uid : Nat, sid : Nat,
                  bearer : SUBSET Nat]
RevokeLocals == [pc : {"delAllDelete"}, uid : Nat, token : Tokens, bearer : SUBSET Nat]

Locals == {Idle} \cup SignLocals \cup OpenLocals \cup WriteLocals
                 \cup SessionLocals \cup RevokeLocals

(* A token names its user by username only; account, the id of the row it  *)
(* was issued for, is history.                                             *)
Claims == [username : Usernames, role : Roles, expiresAt : Nat, account : Nat]
Bearer(j) == {j.account} \cap GetUserByUsername(j.username)

NoReply == 0
Statuses == {200, 201, 204, 400, 401, 404, 409, 500}
Replies == Statuses \cup {NoReply}

(* Goroutine p goes on to its next store call with locals r ... *)
Await(p, r) == req' = [req EXCEPT ![p] = r] /\ reply' = NoReply

(* ... or writes its response and is done. *)
Respond(p, status) == req' = [req EXCEPT ![p] = Idle] /\ reply' = status

Serves(p, op) == req[p] = Idle /\ op \in Endpoints

(* AuthMiddleware lets a request with token j pass; adminMux wants a role. *)
Authenticated(j) == j \in jwts
IsAdmin(j) == j.role = "admin"

(* bcrypt.GenerateFromPassword fails on passwords it cannot take. *)
GenerateFromPassword(pw) == {h \in Hashes : PasswordOf[h] = pw}
CompareHashAndPassword(h, pw) == PasswordOf[h] = pw

(* jwt.NumericDate has whole seconds; a token is valid before its expiry. *)
NewNumericDate(t) == Parse(Format(t))
Unexpired(js, now) == {j \in js : now < j.expiresAt}

(* Room for the sessions the logins under way will open, below MaxSessionID. *)
PendingLogins == {p \in Procs : req[p].pc \in {"loginSign", "loginOpen"}}
SessionBound == sessionSeq + Cardinality(PendingLogins) < MaxSessionID

-----------------------------------------------------------------------------
(* POST /auth/login: look up and compare, sign, open a session. *)

LoginLookup(p, n, pw) ==
    /\ Serves(p, "login")
    /\ n \notin BlankNames /\ pw \notin BlankPasswords
    /\ LET found == {id \in GetUserByUsername(n) :
                        CompareHashAndPassword(users[id].passwordHash, pw)}
       IN  \/ /\ found = {} \/ Faults
              /\ Respond(p, 401)
           \/ /\ SessionBound
              /\ \E id \in found : Await(p, [pc |-> "loginSign", uid |-> id,
                                             username |-> users[id].username,
                                             role |-> users[id].role])
    /\ UNCHANGED <<dbVars, jwts>>

LoginSign(p) ==
    /\ req[p].pc = "loginSign"
    /\ Await(p, [pc |-> "loginOpen", uid |-> req[p].uid, username |-> req[p].username,
                 role |-> req[p].role, expiresAt |-> NewNumericDate(clock + TokenTTL)])
    /\ UNCHANGED <<dbVars, jwts>>

(* The client gets the JWT only together with the session. *)
LoginOpen(p) ==
    /\ req[p].pc = "loginOpen"
    /\ \E tok \in Tokens, ttl \in TTLs :
          \/ /\ CreateSession(req[p].uid, req[p].username, req[p].role, tok, ttl)
             /\ jwts' = Unexpired(jwts \cup {[username |-> req[p].username,
                                              role |-> req[p].role,
                                              expiresAt |-> req[p].expiresAt,
                                              account |-> req[p].uid]}, clock)
             /\ Respond(p, 200)
          \/ /\ ~CanCreateSession(tok)
             /\ Respond(p, 500)
             /\ UNCHANGED <<dbVars, jwts>>

-----------------------------------------------------------------------------
(* POST /auth/password: look up, compare and hash, write the whole row. *)

(* What will be written back: all of the row that was read but the hash. *)
PasswordRow(id, h) ==
    [pc |-> "passwdWrite", uid |-> id, username |-> users[id].username, passwordHash |-> h,
     role |-> users[id].role, read |-> Restrict(users[id], {"username", "role"})]

PasswordLookup(p, j, current, new) ==
    /\ Serves(p, "passwd") /\ Authenticated(j)
    /\ current \notin BlankPasswords /\ new \notin BlankPasswords
    /\ \/ /\ GetUserByUsername(j.username) = {} \/ Faults
          /\ Respond(p, 404)
       \/ \E id \in GetUserByUsername(j.username) :
            IF ~CompareHashAndPassword(users[id].passwordHash, current)
            THEN Respond(p, 401)
            ELSE IF GenerateFromPassword(new) = {}
            THEN Respond(p, 500)
            ELSE \E h \in GenerateFromPassword(new) :
                    Await(p, PasswordRow(id, h))
    /\ UNCHANGED <<dbVars, jwts>>

(* UpdateUser, called with what the goroutine read and merged. *)
WriteBack(r) == UpdateUser(r.uid, r.username, r.passwordHash, r.role)

(* The UPDATE may be done and the SELECT that reads it back still fail. *)
PasswordWrite(p) ==
    /\ req[p].pc = "passwdWrite"
    /\ \/ /\ WriteBack(req[p])
          /\ \/ Respond(p, 200)
             \/ Faults /\ Respond(p, 500)
       \/ /\ ~CanUpdateUser(req[p].uid, req[p].username)
          /\ Respond(p, 500)
          /\ UNCHANGED dbVars
    /\ UNCHANGED jwts

-----------------------------------------------------------------------------
(* DELETE /auth/sessions/{id}: look up the caller, check the owner, delete. *)

DeleteSessionLookup(p, j, sid) ==
    /\ Serves(p, "delSess") /\ Authenticated(j)
    /\ \/ /\ GetUserByUsername(j.username) = {} \/ Faults
          /\ Respond(p, 404)
       \/ \E id \in GetUserByUsername(j.username) :
            Await(p, [pc |-> "delSessCheck", uid |-> id, sid |-> sid, bearer |-> Bearer(j)])
    /\ UNCHANGED <<dbVars, jwts>>

MayDeleteAnyones(uid, sid) == GetSessionByID(sid) # {}      \* mutant: no owner check
MayDelete(uid, sid) == \E s \in GetSessionByID(sid) : sessions[s].userID = uid

DeleteSessionCheck(p) ==
    /\ req[p].pc = "delSessCheck"
    /\ IF MayDelete(req[p].uid, req[p].sid)
       THEN Await(p, [req[p] EXCEPT !.pc = "delSessDelete"])
       ELSE Respond(p, 404)
    /\ UNCHANGED <<dbVars, jwts>>

(* Mutant: no way out when another request deleted the session first. *)
DeleteSessionDeleteStuck(p) ==
    /\ req[p].pc = "delSessDelete"
    /\ DeleteSession(req[p].sid)
    /\ Respond(p, 204)
    /\ UNCHANGED jwts

DeleteSessionDelete(p) ==
    /\ req[p].pc = "delSessDelete"
    /\ \/ /\ DeleteSession(req[p].sid)
          /\ Respond(p, 204)
       \/ /\ req[p].sid \notin DOMAIN sessions
          /\ Respond(p, 500)
          /\ UNCHANGED dbVars
    /\ UNCHANGED jwts

(* DELETE /auth/sessions: all the caller's sessions but the current one. *)

DeleteAllLookup(p, j, tok) ==
    /\ Serves(p, "delAll") /\ Authenticated(j)
    /\ \/ /\ GetUserByUsername(j.username) = {} \/ Faults
          /\ Respond(p, 404)
       \/ \E id \in GetUserByUsername(j.username) :
            Await(p, [pc |-> "delAllDelete", uid |-> id, token |-> tok, bearer |-> Bearer(j)])
    /\ UNCHANGED <<dbVars, jwts>>

DeleteAllDelete(p) ==
    /\ req[p].pc = "delAllDelete"
    /\ DeleteSessionsByUserID(req[p].uid, req[p].token)
    /\ Respond(p, 204)
    /\ UNCHANGED jwts

-----------------------------------------------------------------------------
(* POST /admin/users and DELETE /admin/users/{id}: one store call each. *)

AdminCreate(p, j, n, pw, r) ==
    /\ Serves(p, "create") /\ Authenticated(j) /\ IsAdmin(j)
    /\ n \notin BlankNames /\ pw \notin BlankPasswords
    /\ \/ \E h \in GenerateFromPassword(pw) :
            /\ userSeq < MaxUserID
            /\ CreateUser(n, h, r)
            /\ Respond(p, 201)
       \/ /\ GenerateFromPassword(pw) # {} /\ ~CanCreateUser(n)
          /\ Respond(p, 409)
          /\ UNCHANGED dbVars
       \/ /\ GenerateFromPassword(pw) = {} \/ Faults
          /\ Respond(p, 500)
          /\ UNCHANGED dbVars
    /\ UNCHANGED jwts

AdminDelete(p, j, id) ==
    /\ Serves(p, "delete") /\ Authenticated(j) /\ IsAdmin(j)
    /\ \/ DeleteUser(id) /\ Respond(p, 204)
       \/ id \notin DOMAIN users /\ Respond(p, 404) /\ UNCHANGED dbVars
       \/ Faults /\ Respond(p, 500) /\ UNCHANGED dbVars
    /\ UNCHANGED jwts

(* PUT /admin/users/{id}: read the row, merge the given fields, write it.  *)
(* An absent field keeps the value that was read; given blanks are taken.  *)

MergeZero(field, old) == field      \* mutant: an absent field is taken for an empty one
Merge(field, old) == IF field = Omitted THEN old ELSE field

NotGiven(n, pw, r) == {f \in Fields : \/ f = "username" /\ n = Omitted
                                      \/ f = "passwordHash" /\ pw = Omitted
                                      \/ f = "role" /\ r = Omitted}

PutHashes(id, pw) ==
    IF pw = Omitted THEN {users[id].passwordHash} ELSE GenerateFromPassword(pw)

PutRow(id, n, pw, r, h) ==
    [pc |-> "putWrite", uid |-> id, username |-> Merge(n, users[id].username),
     passwordHash |-> h, role |-> Merge(r, users[id].role),
     read |-> Restrict(users[id], NotGiven(n, pw, r))]

(* GetUser's errors, told apart by their text. *)
GetUserErrors(id) == {status \in {404, 500} : \/ status = 404 /\ GetUser(id) = {}
                                              \/ status = 500 /\ Faults}

(* The body is read after the user: JSON that does not parse and a role    *)
(* that is none are found out only then.                                   *)
PutLookup(p, j, id, n, pw, r) ==
    /\ Serves(p, "put") /\ Authenticated(j) /\ IsAdmin(j)
    /\ \/ \E status \in GetUserErrors(id) : Respond(p, status)
       \/ GetUser(id) # {} /\ Respond(p, 400)
       \/ GetUser(id) # {} /\ PutHashes(id, pw) = {} /\ Respond(p, 500)
       \/ /\ GetUser(id) # {}
          /\ \E h \in PutHashes(id, pw) : Await(p, PutRow(id, n, pw, r, h))
    /\ UNCHANGED <<dbVars, jwts>>

(* "already taken" is a 409; every other error, "not found" too, a 500. *)
PutWrite(p) ==
    /\ req[p].pc = "putWrite"
    /\ LET id == req[p].uid IN
       \/ /\ WriteBack(req[p])
          /\ \/ Respond(p, 200)
             \/ Faults /\ Respond(p, 500)
       \/ /\ id \in DOMAIN users /\ ~NameFree(id, req[p].username)
          /\ Respond(p, 409)
          /\ UNCHANGED dbVars
       \/ /\ id \notin DOMAIN users
          /\ Respond(p, 500)
          /\ UNCHANGED dbVars
    /\ UNCHANGED jwts

-----------------------------------------------------------------------------
(* The next call of a request under way fails and has no effect. *)
FaultStatus(pc) == IF pc = "delSessCheck" THEN 404 ELSE 500

StoreFault(p) ==
    /\ Faults /\ req[p] # Idle
    /\ Respond(p, FaultStatus(req[p].pc))
    /\ UNCHANGED <<dbVars, jwts>>

(* The process stops, requests under way are lost, and main() runs again:  *)
(* the database and the clients' JWTs survive, and the admin account is    *)
(* seeded unless the name is in use.                                       *)
Restart ==
    /\ req' = [p \in Procs |-> Idle]
    /\ reply' = NoReply
    /\ \/ userSeq < MaxUserID /\ CreateUser(AdminName, AdminHash, "admin")
       \/ ~CanCreateUser(AdminName) /\ UNCHANGED dbVars
    /\ UNCHANGED jwts

TimePasses ==
    /\ clock < MaxClock
    /\ Tick
    /\ jwts' = Unexpired(jwts, clock')
    /\ reply' = NoReply
    /\ UNCHANGED req

Init ==
    /\ clock = 0
    /\ users = [id \in {1} |-> [username |-> AdminName, passwordHash |-> AdminHash,
                                role |-> "admin", createdAt |-> 0]]
    /\ userSeq = 1
    /\ sessions = EmptyTable /\ sessionSeq = 0
    /\ req = [p \in Procs |-> Idle]
    /\ jwts = {}
    /\ reply = NoReply

(* A client's request arrives and its handler makes its first store call. *)
Arrive(p) ==
    \/ \E n \in Usernames, pw \in Passwords : LoginLookup(p, n, pw)
    \/ \E j \in jwts :
         \/ \E current, new \in Passwords : PasswordLookup(p, j, current, new)
         \/ \E sid \in 1..MaxSessionID : DeleteSessionLookup(p, j, sid)
         \/ \E tok \in Tokens : DeleteAllLookup(p, j, tok)
         \/ \E n \in Usernames, pw \in Passwords, r \in Roles : AdminCreate(p, j, n, pw, r)
         \/ \E id \in 1..MaxUserID : AdminDelete(p, j, id)
         \/ \E id \in 1..MaxUserID, n \in Usernames \cup {Omitted},
               pw \in Passwords \cup {Omitted}, r \in Roles \cup {Omitted} :
               PutLookup(p, j, id, n, pw, r)

(* A handler under way makes its next store call. *)
Proceed(p) ==
    \/ LoginSign(p) \/ LoginOpen(p)
    \/ PasswordWrite(p)
    \/ DeleteSessionCheck(p) \/ DeleteSessionDelete(p)
    \/ DeleteAllDelete(p)
    \/ PutWrite(p)

Next ==
    \/ \E p \in Procs : Arrive(p) \/ Proceed(p) \/ StoreFault(p)
    \/ Restart
    \/ TimePasses

Spec == Init /\ [][Next]_vars

(* Goroutines are scheduled fairly and Go's RWMutex starves no one. *)
FairSpec == Spec /\ \A p \in Procs : WF_vars(Proceed(p))

-----------------------------------------------------------------------------
(* Type invariant of the tables, the handlers' locals and the clients' tokens. *)
TypeOK ==
    /\ DBTypeOK
    /\ req \in [Procs -> Locals]
    /\ jwts \in SUBSET Claims
    /\ reply \in Replies

(* A session belongs to the account it was opened for: the account its     *)
(* user_id names, if there is one, is not younger than the session.  Login *)
(* reads the id long before it uses it (auth.go:69, :94), deleting a user  *)
(* leaves the sessions behind, and ids are all that links the two.         *)
NoAdoption ==
    \A sid \in DOMAIN sessions :
        LET uid == sessions[sid].userID
        IN  uid \in DOMAIN users => users[uid].createdAt <= sessions[sid].createdAt

(***************************************************************************)
(* Why those hold: what each handler has read stays true of the ids it     *)
(* holds, however long it sleeps before it uses them.                      *)
(***************************************************************************)

(* No account is dated in the future, so none can be younger than a        *)
(* session created now.                                                    *)
RowsPredateNow == \A id \in DOMAIN users : users[id].createdAt <= Format(clock)

(* Sessions and requests under way name ids that were given out already:   *)
(* no account created from now on can be mistaken for theirs.              *)
OwnersWereIssued ==
    /\ \A sid \in DOMAIN sessions : sessions[sid].userID \in 1..userSeq
    /\ \A p \in Procs : req[p] # Idle => req[p].uid \in 1..userSeq

(* Once the owner check of a delete has passed, it stays passed: as long   *)
(* as the session exists it is the caller's.                               *)
CheckStaysValid ==
    \A p \in Procs : req[p].pc = "delSessDelete" =>
        /\ req[p].sid \in 1..sessionSeq
        /\ req[p].sid \in DOMAIN sessions => sessions[req[p].sid].userID = req[p].uid

(* The inductive invariant of the specification: types, the uniqueness the *)
(* lookups rely on, and the three facts above (sqlite.go:51, :59;          *)
(* auth.go:69-94, :201-218).                                               *)
IndInv ==
    /\ TypeOK
    /\ UniqueUsernames
    /\ UniqueTokens
    /\ RowsPredateNow
    /\ OwnersWereIssued
    /\ NoAdoption
    /\ CheckStaysValid

(* A session disappears only through a request whose token bears the name  *)
(* of the session's user, and never the session the client asked to keep.  *)
(* A name may have passed to another account since the token was issued,   *)
(* and then the new bearer's sessions go; but as long as the account of    *)
(* the token still bears its name, they are that account's own.  The owner *)
(* check (auth.go:213) and the DELETE (auth.go:218) are separate store     *)
(* calls with other requests in between.                                   *)
RemovedInTheName ==
    [][\A sid \in DOMAIN sessions \ DOMAIN sessions' :
          \E p \in Procs :
             /\ req'[p] = Idle
             /\ \/ req[p].pc = "delSessDelete" /\ req[p].sid = sid
                \/ req[p].pc = "delAllDelete" /\ req[p].token # sessions[sid].token
             /\ req[p].uid = sessions[sid].userID
             /\ req[p].bearer \subseteq {sessions[sid].userID}
      ]_vars

(* The step in which goroutine p writes back the row it read and merged. *)
Writes(p) ==
    /\ req[p].pc \in {"putWrite", "passwdWrite"} /\ req'[p] = Idle
    /\ users' # users /\ req[p].uid \in DOMAIN users \cap DOMAIN users'

Kept(id, f) == users'[id][f] = users[id][f]

(* A PUT and a password change alter no field their client did not give,  *)
(* so that what others wrote to the same account meanwhile survives        *)
(* (admin.go:217-251, auth.go:293-311).                                    *)
WritesOnlyGiven ==
    [][\A p \in Procs : Writes(p) => \A f \in DOMAIN req[p].read : Kept(req[p].uid, f)]_vars

(* A field the client did not give is altered only if another request      *)
(* changed that very field after this one had read it: stale reads are the *)
(* only way in which a PUT or a password change touches what it was not    *)
(* asked to (admin.go:217-251, auth.go:293-311).                           *)
OnlyRacesLoseFields ==
    [][\A p \in Procs : Writes(p) =>
          \A f \in DOMAIN req[p].read :
             users[req[p].uid][f] = req[p].read[f] => Kept(req[p].uid, f)]_vars

(* A PUT whose user is gone when it comes to write is answered 404, as the *)
(* one whose user was gone when it arrived is (admin.go:201-209, :251-259).*)
PutGoneIsNotFound ==
    [][\A p \in Procs :
          ( /\ req[p].pc = "putWrite" /\ req[p].uid \notin DOMAIN users
            /\ req'[p] = Idle /\ reply' # NoReply ) => reply' = 404]_vars

(* Every session's user exists: the FOREIGN KEY sqlite.go:66 declares. *)
ReferentialIntegrity ==
    \A sid \in DOMAIN sessions : sessions[sid].userID \in DOMAIN users

(* Every request is answered (or dropped by a restart), whatever others    *)
(* did to the rows it read: each store call's error has an exit.           *)
RequestsComplete == \A p \in Procs : req[p] # Idle ~> req[p] = Idle
=============================================================================
