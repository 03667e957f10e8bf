------------------------------- MODULE Stores -------------------------------
(***************************************************************************)
(* The two implementations of the Store interface side by side.  The       *)
(* service runs on SQLiteStore, its tests on InMemoryStore; here both get  *)
(* the same calls at the same times, in any order and with any arguments,  *)
(* the ids of rows that never were or no longer are included; a call that  *)
(* one of them refuses leaves that one as it is.                           *)
(***************************************************************************)
EXTENDS SQLiteStoreImpl

VARIABLES memUsers, nextID, memSessions, nextSessionID

memVars == <<memUsers, nextID, memSessions, nextSessionID>>
storesVars == <<dbVars, memVars>>

Memory == INSTANCE InMemoryStore WITH users <- memUsers, sessions <- memSessions

(* A call of a method; one that fails leaves its store as it is. *)
Call(method, can, storeVars) == method \/ (~can /\ UNCHANGED storeVars)

(* rand.Read draws 32 bytes that neither store holds.  (On a collision     *)
(* SQLite's UNIQUE refuses the row, in AuthService; the map has no check.) *)
Drawable(tok) ==
    GetSessionByToken(tok) = {} /\ \A id \in DOMAIN memSessions : memSessions[id].token # tok

RoomForUser == userSeq < MaxUserID /\ nextID <= MaxUserID
RoomForSession == sessionSeq < MaxSessionID /\ nextSessionID <= MaxSessionID

StoresInit == DBInit /\ Memory!Init

OnCreateUser(n, h, r) ==
    /\ RoomForUser
    /\ Call(CreateUser(n, h, r), CanCreateUser(n), dbVars)
    /\ Call(Memory!CreateUser(n, h, r), Memory!CanCreateUser(n), memVars)

OnUpdateUser(id, n, h, r) ==
    /\ Call(UpdateUser(id, n, h, r), CanUpdateUser(id, n), dbVars)
    /\ Call(Memory!UpdateUser(id, n, h, r), Memory!CanUpdateUser(id, n), memVars)

OnDeleteUser(id) ==
    /\ Call(DeleteUser(id), id \in DOMAIN users, dbVars)
    /\ Call(Memory!DeleteUser(id), id \in DOMAIN memUsers, memVars)

OnCreateSession(uid, n, r, tok, ttl) ==
    /\ RoomForSession /\ Drawable(tok)
    /\ Call(CreateSession(uid, n, r, tok, ttl), CanCreateSession(tok), dbVars)
    /\ Call(Memory!CreateSession(uid, n, r, tok, ttl),
            Memory!CanCreateSession(ttl), memVars)

OnDeleteSession(id) ==
    /\ Call(DeleteSession(id), id \in DOMAIN sessions, dbVars)
    /\ Call(Memory!DeleteSession(id), id \in DOMAIN memSessions, memVars)

OnDeleteSessionsByUserID(uid, tok) ==
    DeleteSessionsByUserID(uid, tok) /\ Memory!DeleteSessionsByUserID(uid, tok)

OnDeleteExpiredSessions == DeleteExpiredSessions /\ Memory!DeleteExpiredSessions

OnTick == clock < MaxClock /\ Tick /\ Memory!Tick

StoresNext ==
    \/ \E n \in Usernames, h \in Hashes, r \in Roles :
          OnCreateUser(n, h, r) \/ \E id \in 1..MaxUserID : OnUpdateUser(id, n, h, r)
    \/ \E id \in 1..MaxUserID : OnDeleteUser(id)
    \/ \E uid \in 1..MaxUserID, n \in Usernames, r \in Roles, tok \in Tokens, ttl \in TTLs :
          OnCreateSession(uid, n, r, tok, ttl)
    \/ \E id \in 1..MaxSessionID : OnDeleteSession(id)
    \/ \E uid \in 1..MaxUserID, tok \in Tokens : OnDeleteSessionsByUserID(uid, tok)
    \/ OnDeleteExpiredSessions
    \/ OnTick

StoresSpec == StoresInit /\ [][StoresNext]_storesVars

-----------------------------------------------------------------------------
(* The in-memory store keeps every promise of the interface, and keeps     *)
(* times exactly (store.go:48-262).                                        *)
MemoryImplementsStoreAPI == Memory!ImplementsStoreAPI

Account(row) == [row EXCEPT !.createdAt = 0]

(* What a test sees on the in-memory store is what the service does on     *)
(* SQLite: after any calls the two hold the same accounts under the same   *)
(* ids, every session one of them lists is known to the other with the     *)
(* same owner and token, and SQLite lists none longer than the other nor   *)
(* drops one a second or more earlier (store.go:48-262, sqlite.go:85-591). *)
StoresAgree ==
    /\ DOMAIN users = DOMAIN memUsers
    /\ \A id \in DOMAIN users : Account(users[id]) = Account(memUsers[id])
    /\ \A id \in DOMAIN sessions \cap DOMAIN memSessions :
          /\ sessions[id].userID = memSessions[id].userID
          /\ sessions[id].token = memSessions[id].token
    /\ \A uid \in 1..MaxUserID :
          /\ ListSessionsByUserID(uid) \subseteq Memory!ListSessionsByUserID(uid)
          /\ \A id \in Memory!ListSessionsByUserID(uid) :
                \/ id \in ListSessionsByUserID(uid)
                \/ memSessions[id].expiresAt - clock < SecondTicks
=============================================================================
