---------------------------- MODULE StoresProofs ----------------------------
(***************************************************************************)
(* Proofs about the two stores, for any tables, any clock and any length   *)
(* of a second: each implements StoreAPI, and the two agree.               *)
(*                                                                         *)
(* What a step of Stores does is first split into what it does to one      *)
(* store and to the other (SQLiteStep, MemoryStep), so that neither        *)
(* refinement depends on the other store.  The agreement then needs one    *)
(* fact more than StoresAgree says: a row that only SQLite still holds has *)
(* expired to the second (SweptAlike).                                     *)
(***************************************************************************)
EXTENDS Stores, TLAPS

USE SecondTicksAssumption, BoundsAssumption, TTLsAssumption

-----------------------------------------------------------------------------
(* Whole seconds. *)

(* Division by the ticks of a second. *)
LEMMA Division ==
    ASSUME NEW t \in Int
    PROVE  /\ Format(t) \in Int
           /\ Parse(Format(t)) <= t /\ t < Parse(Format(t)) + SecondTicks
           /\ t >= 0 => Format(t) >= 0
  BY Z3 DEF Format, Parse

(* One second more is SecondTicks ticks more. *)
LEMMA ParseStep ==
    ASSUME NEW a \in Int, NEW b \in Int, a < b
    PROVE  Parse(a) \in Int /\ Parse(b) \in Int /\ Parse(a) + SecondTicks <= Parse(b)
<1>1. \A d, k \in Nat : d >= 1 => k <= d * k
  OBVIOUS
<1>2. SecondTicks <= (b - a) * SecondTicks
  BY <1>1
<1>3. (b - a) * SecondTicks = b * SecondTicks - a * SecondTicks
  OBVIOUS
<1> QED
  BY <1>2, <1>3 DEF Parse

(* Comparing texts is comparing the times they stand for, but for the part *)
(* of a second that a text leaves out.                                     *)
LEMMA Comparing ==
    ASSUME NEW e \in Int, NEW t \in Int
    PROVE  /\ Parse(e) \in Int
           /\ e > Format(t) <=> Parse(e) > t
           /\ e < Format(t) => Parse(e) < t
           /\ Parse(e) <= t - SecondTicks => e < Format(t)
<1>0. Format(t) \in Int /\ Parse(e) \in Int /\ Parse(Format(t)) \in Int
  BY Division DEF Parse
<1>1. Parse(Format(t)) <= t /\ t < Parse(Format(t)) + SecondTicks
  BY Division
<1>2. e > Format(t) => Parse(Format(t)) + SecondTicks <= Parse(e)
  BY <1>0, ParseStep
<1>3. e < Format(t) => Parse(e) + SecondTicks <= Parse(Format(t))
  BY <1>0, ParseStep
<1> QED
  BY <1>0, <1>1, <1>2, <1>3

(* Formatting keeps the order of times. *)
LEMMA FormatOrder ==
    ASSUME NEW s \in Int, NEW t \in Int
    PROVE  /\ s <= t => Format(s) <= Format(t)
           /\ Format(s) < Format(t) => s < t
           /\ Format(s) = Format(t) => s - t < SecondTicks
<1>0. /\ Format(s) \in Int /\ Format(t) \in Int
      /\ Parse(Format(s)) \in Int /\ Parse(Format(t)) \in Int
  BY Division DEF Parse
<1>1. /\ Parse(Format(s)) <= s /\ s < Parse(Format(s)) + SecondTicks
      /\ Parse(Format(t)) <= t /\ t < Parse(Format(t)) + SecondTicks
  BY Division
<1>2. Format(s) < Format(t) => Parse(Format(s)) + SecondTicks <= Parse(Format(t))
  BY <1>0, ParseStep
<1>3. Format(t) < Format(s) => Parse(Format(t)) + SecondTicks <= Parse(Format(s))
  BY <1>0, ParseStep
<1> QED
  BY <1>0, <1>1, <1>2, <1>3

-----------------------------------------------------------------------------
(* The SQLite store. *)

SQLiteStep ==
    \/ UNCHANGED dbVars
    \/ \E n \in Usernames, h \in Hashes, r \in Roles :
          userSeq < MaxUserID /\ CreateUser(n, h, r)
    \/ \E id \in 1..MaxUserID, n \in Usernames, h \in Hashes, r \in Roles :
          UpdateUser(id, n, h, r)
    \/ \E id \in 1..MaxUserID : DeleteUser(id)
    \/ \E uid \in 1..MaxUserID, n \in Usernames, r \in Roles, tok \in Tokens, ttl \in TTLs :
          sessionSeq < MaxSessionID /\ CreateSession(uid, n, r, tok, ttl)
    \/ \E id \in 1..MaxSessionID : DeleteSession(id)
    \/ \E uid \in 1..MaxUserID, tok \in Tokens : DeleteSessionsByUserID(uid, tok)
    \/ DeleteExpiredSessions
    \/ Tick

LEMMA SQLiteSteps == [StoresNext]_storesVars => SQLiteStep
  BY DEF StoresNext, storesVars, SQLiteStep, OnCreateUser, OnUpdateUser, OnDeleteUser,
         OnCreateSession, OnDeleteSession, OnDeleteSessionsByUserID, OnDeleteExpiredSessions,
         OnTick, Call, RoomForUser, RoomForSession

DBInv == DBTypeOK /\ UniqueUsernames /\ UniqueTokens

LEMMA DBInvInit == StoresInit => DBInv
  BY DEF StoresInit, DBInit, EmptyTable, DBInv, DBTypeOK, UniqueUsernames, UniqueTokens

(* What each statement did, row by row. *)
UserAdded(n, h, r) ==
    /\ UNCHANGED <<clock, sessions, sessionSeq>>
    /\ userSeq' = userSeq + 1
    /\ DOMAIN users' = DOMAIN users \cup {userSeq + 1}
    /\ userSeq + 1 \notin DOMAIN users
    /\ \A id \in DOMAIN users : users'[id] = users[id] /\ users[id].username # n
    /\ users'[userSeq + 1] = [username |-> n, passwordHash |-> h, role |-> r,
                              createdAt |-> Format(clock)]

UserChanged(id, n, h, r) ==
    /\ UNCHANGED <<clock, userSeq, sessions, sessionSeq>>
    /\ id \in DOMAIN users /\ DOMAIN users' = DOMAIN users
    /\ \A i \in DOMAIN users \ {id} : users'[i] = users[i] /\ users[i].username # n
    /\ users'[id] = [username |-> n, passwordHash |-> h, role |-> r,
                     createdAt |-> users[id].createdAt]

SessionAdded(uid, n, r, tok, ttl) ==
    /\ UNCHANGED <<clock, users, userSeq>>
    /\ sessionSeq' = sessionSeq + 1
    /\ DOMAIN sessions' = DOMAIN sessions \cup {sessionSeq + 1}
    /\ sessionSeq + 1 \notin DOMAIN sessions
    /\ \A id \in DOMAIN sessions : sessions'[id] = sessions[id] /\ sessions[id].token # tok
    /\ sessions'[sessionSeq + 1] =
          [userID |-> uid, username |-> n, role |-> r, token |-> tok,
           createdAt |-> Format(clock), expiresAt |-> Format(clock + ttl)]

UserRemoved(id) ==
    /\ UNCHANGED <<clock, userSeq, sessions, sessionSeq>>
    /\ DOMAIN users' = DOMAIN users \ {id}
    /\ \A i \in DOMAIN users' : users'[i] = users[i]

SessionsRemoved(S) ==
    /\ UNCHANGED <<clock, users, userSeq, sessionSeq>>
    /\ DOMAIN sessions' = DOMAIN sessions \ S
    /\ \A i \in DOMAIN sessions' : sessions'[i] = sessions[i]

LEMMA CreateUserEffect ==
    ASSUME DBTypeOK, NEW n, NEW h, NEW r, CreateUser(n, h, r)
    PROVE  UserAdded(n, h, r)
  BY DEF CreateUser, CanCreateUser, GetUserByUsername, Insert, NextUserID, sessionVars, DBTypeOK,
         UserAdded

LEMMA UpdateUserEffect ==
    ASSUME DBTypeOK, NEW id, NEW n, NEW h, NEW r, UpdateUser(id, n, h, r)
    PROVE  UserChanged(id, n, h, r)
  BY DEF UpdateUser, CanUpdateUser, NameFree, GetUserByUsername, sessionVars, DBTypeOK,
         UserChanged

LEMMA CreateSessionEffect ==
    ASSUME DBTypeOK, NEW uid, NEW n, NEW r, NEW tok, NEW ttl,
           CreateSession(uid, n, r, tok, ttl)
    PROVE  SessionAdded(uid, n, r, tok, ttl)
  BY DEF CreateSession, CanCreateSession, GetSessionByToken, Insert, NextSessionID, userVars,
         DBTypeOK, SessionAdded

LEMMA DeleteUserEffect ==
    ASSUME NEW id, DeleteUser(id)
    PROVE  UserRemoved(id)
  BY DEF DeleteUser, DeleteWhere, Restrict, sessionVars, UserRemoved

(* The three ways sessions are removed. *)
LEMMA RemovalEffect ==
    ASSUME NEW S, sessions' = DeleteWhere(sessions, S), UNCHANGED <<clock, userVars, sessionSeq>>
    PROVE  SessionsRemoved(S)
  BY DEF DeleteWhere, Restrict, userVars, SessionsRemoved

LEMMA DBInvStep == DBInv /\ SQLiteStep => DBInv'
<1> SUFFICES ASSUME DBInv, SQLiteStep PROVE DBInv'
  OBVIOUS
<1> USE DEF DBInv, UniqueUsernames, UniqueTokens
<1>0. DBTypeOK
  OBVIOUS
<1>1. CASE UNCHANGED dbVars
  BY <1>1 DEF dbVars, DBTypeOK
<1>2. ASSUME NEW n \in Usernames, NEW h \in Hashes, NEW r \in Roles, CreateUser(n, h, r)
      PROVE  DBInv'
  <2>1. Format(clock) \in Nat
    BY Division DEF DBTypeOK
  <2>2. users' \in [DOMAIN users' -> UserRow]
    BY <1>2, <2>1 DEF CreateUser, Insert, NextUserID, DBTypeOK, UserRow
  <2>3. UserAdded(n, h, r)
    BY <1>2, CreateUserEffect
  <2> QED
    BY <2>2, <2>3 DEF DBTypeOK, UserAdded
<1>3. ASSUME NEW id \in 1..MaxUserID, NEW n \in Usernames, NEW h \in Hashes, NEW r \in Roles,
             UpdateUser(id, n, h, r)
      PROVE  DBInv'
  <2>1. users' \in [DOMAIN users' -> UserRow]
    BY <1>3 DEF UpdateUser, CanUpdateUser, DBTypeOK, UserRow
  <2>2. UserChanged(id, n, h, r)
    BY <1>3, UpdateUserEffect
  <2> QED
    BY <2>1, <2>2 DEF DBTypeOK, UserChanged
<1>4. ASSUME NEW id \in 1..MaxUserID, DeleteUser(id) PROVE DBInv'
  <2>1. users' \in [DOMAIN users' -> UserRow]
    BY <1>4 DEF DeleteUser, DeleteWhere, Restrict, DBTypeOK
  <2>2. UserRemoved(id)
    BY <1>4, DeleteUserEffect
  <2> QED
    BY <2>1, <2>2 DEF DBTypeOK, UserRemoved
<1>5. ASSUME NEW uid \in 1..MaxUserID, NEW n \in Usernames, NEW r \in Roles,
             NEW tok \in Tokens, NEW ttl \in TTLs, CreateSession(uid, n, r, tok, ttl)
      PROVE  DBInv'
  <2>1. Format(clock) \in Nat /\ Format(clock + ttl) \in Int
    BY Division DEF DBTypeOK
  <2>2. sessions' \in [DOMAIN sessions' -> SessionRow]
    BY <1>5, <2>1 DEF CreateSession, Insert, NextSessionID, DBTypeOK, SessionRow
  <2>3. SessionAdded(uid, n, r, tok, ttl)
    BY <1>5, CreateSessionEffect
  <2> QED
    BY <2>2, <2>3 DEF DBTypeOK, SessionAdded
<1>6. ASSUME NEW S, sessions' = DeleteWhere(sessions, S), UNCHANGED <<clock, userVars, sessionSeq>>
      PROVE  DBInv'
  <2>1. sessions' \in [DOMAIN sessions' -> SessionRow]
    BY <1>6 DEF DeleteWhere, Restrict, DBTypeOK
  <2>2. SessionsRemoved(S)
    BY <1>6, RemovalEffect
  <2> QED
    BY <2>1, <2>2 DEF DBTypeOK, SessionsRemoved
<1>7. CASE Tick
  BY <1>7 DEF Tick, userVars, sessionVars, DBTypeOK
<1> QED
  BY <1>1, <1>2, <1>3, <1>4, <1>5, <1>6, <1>7
  DEF SQLiteStep, DeleteSession, DeleteSessionsByUserID, DeleteExpiredSessions

(* No id comes back. *)
LEMMA NoResurrectionStep ==
    ASSUME DBInv, SQLiteStep
    PROVE  /\ \A id \in 1..userSeq : id \notin DOMAIN users => id \notin DOMAIN users'
           /\ \A id \in 1..sessionSeq : id \notin DOMAIN sessions => id \notin DOMAIN sessions'
<1>1. /\ DOMAIN users' \subseteq DOMAIN users \cup {userSeq + 1}
      /\ DOMAIN sessions' \subseteq DOMAIN sessions \cup {sessionSeq + 1}
  BY CreateUserEffect, UpdateUserEffect, DeleteUserEffect, CreateSessionEffect, RemovalEffect
  DEF DBInv, SQLiteStep, UserAdded, UserChanged, UserRemoved, SessionAdded,
      SessionsRemoved, DeleteSession, DeleteSessionsByUserID, DeleteExpiredSessions, Tick,
      dbVars, userVars, sessionVars
<1> QED
  BY <1>1 DEF DBInv, DBTypeOK

-----------------------------------------------------------------------------
(* The SQLite store implements the interface. *)

LEMMA ReadRows ==
    /\ \A row \in UserRow :
          ReadUser(row) = [username |-> row.username, passwordHash |-> row.passwordHash,
                           role |-> row.role, createdAt |-> Parse(row.createdAt)]
    /\ \A row \in SessionRow :
          ReadSession(row) = [userID |-> row.userID, username |-> row.username,
                              role |-> row.role, token |-> row.token,
                              createdAt |-> Parse(row.createdAt),
                              expiresAt |-> Parse(row.expiresAt)]
<1>1. ASSUME NEW row \in UserRow
      PROVE  ReadUser(row) = [username |-> row.username, passwordHash |-> row.passwordHash,
                              role |-> row.role, createdAt |-> Parse(row.createdAt)]
  BY DEF ReadUser, UserRow
<1>2. ASSUME NEW row \in SessionRow
      PROVE  ReadSession(row) = [userID |-> row.userID, username |-> row.username,
                                 role |-> row.role, token |-> row.token,
                                 createdAt |-> Parse(row.createdAt),
                                 expiresAt |-> Parse(row.expiresAt)]
  <2> DEFINE half == [row EXCEPT !.createdAt = Parse(row.createdAt)]
  <2>1. half = [userID |-> row.userID, username |-> row.username, role |-> row.role,
                token |-> row.token, createdAt |-> Parse(row.createdAt),
                expiresAt |-> row.expiresAt]
    BY DEF SessionRow
  <2>2. ReadSession(row) = [half EXCEPT !.expiresAt = Parse(row.expiresAt)]
    BY DEF ReadSession
  <2> HIDE DEF half
  <2> QED
    BY <2>1, <2>2
<1> QED
  BY <1>1, <1>2

(* A stored time loses less than a second. *)
LEMMA RoundedTimes ==
    ASSUME NEW t \in Int
    PROVE  Parse(Format(t)) \in API!Rounded(t)
<1>1. Parse(Format(t)) \in Int
  BY Division DEF Parse
<1> QED
  BY <1>1, Division DEF API!Rounded

LEMMA APIInit == StoresInit => API!Init
  BY DEF StoresInit, DBInit, EmptyTable, API!Init

LEMMA APICreateUser ==
    ASSUME DBTypeOK, DBTypeOK', userSeq < MaxUserID,
           NEW n \in Usernames, NEW h \in Hashes, NEW r \in Roles, UserAdded(n, h, r)
    PROVE  API!CreateUser(n, h, r)
<1> DEFINE id == userSeq + 1
           at == Parse(Format(clock))
           U == [i \in DOMAIN users |-> ReadUser(users[i])]
<1>1. id \in ((1..MaxUserID) \cup (1..MaxSessionID)) \ (1..userSeq)
  BY DEF DBTypeOK
<1>2. at \in API!Rounded(clock)
  BY RoundedTimes DEF DBTypeOK
<1>3. \A i \in DOMAIN U : U[i].username # n
  BY ReadRows DEF DBTypeOK, UserAdded
<1>4. 1..userSeq' = (1..userSeq) \cup {id}
  BY DEF DBTypeOK, UserAdded
<1>5. U' = [i \in DOMAIN U \cup {id} |->
              IF i = id THEN [username |-> n, passwordHash |-> h, role |-> r, createdAt |-> at]
                        ELSE U[i]]
  <2>1. DOMAIN users' = DOMAIN users \cup {id} /\ id \notin DOMAIN users
    BY DEF UserAdded
  <2>2. ReadUser(users'[id]) = [username |-> n, passwordHash |-> h, role |-> r, createdAt |-> at]
    BY <2>1, ReadRows DEF UserAdded, DBTypeOK
  <2>3. \A i \in DOMAIN users : ReadUser(users'[i]) = ReadUser(users[i])
    BY DEF UserAdded
  <2> QED
    BY <2>1, <2>2, <2>3
<1>6. /\ clock' = clock /\ 1..sessionSeq' = 1..sessionSeq
      /\ [i \in DOMAIN sessions |-> ReadSession(sessions[i])]'
           = [i \in DOMAIN sessions |-> ReadSession(sessions[i])]
  BY DEF UserAdded
<1> QED
  BY <1>1, <1>2, <1>3, <1>4, <1>5, <1>6 DEF API!CreateUser

LEMMA APIUpdateUser ==
    ASSUME DBTypeOK, DBTypeOK', NEW id, NEW n, NEW h, NEW r, UserChanged(id, n, h, r)
    PROVE  API!UpdateUser(id, n, h, r)
<1> DEFINE U == [i \in DOMAIN users |-> ReadUser(users[i])]
<1>1. id \in DOMAIN U /\ \A i \in DOMAIN U \ {id} : U[i].username # n
  BY ReadRows DEF DBTypeOK, UserChanged
<1>2. U' = [U EXCEPT ![id] = [username |-> n, passwordHash |-> h, role |-> r,
                              createdAt |-> U[id].createdAt]]
  <2>1. ReadUser(users'[id]) = [username |-> n, passwordHash |-> h, role |-> r,
                                createdAt |-> U[id].createdAt]
    BY ReadRows DEF UserChanged, DBTypeOK
  <2> QED
    BY <2>1 DEF UserChanged
<1>3. /\ clock' = clock /\ 1..sessionSeq' = 1..sessionSeq /\ 1..userSeq' = 1..userSeq
      /\ [i \in DOMAIN sessions |-> ReadSession(sessions[i])]'
           = [i \in DOMAIN sessions |-> ReadSession(sessions[i])]
  BY DEF UserChanged
<1> QED
  BY <1>1, <1>2, <1>3 DEF API!UpdateUser

LEMMA APIDeleteUser ==
    ASSUME NEW id, id \in DOMAIN users, UserRemoved(id)
    PROVE  API!DeleteUser(id)
<1> DEFINE U == [i \in DOMAIN users |-> ReadUser(users[i])]
<1>1. U' = API!Without(U, {id})
  BY DEF UserRemoved, API!Without, API!Restrict
<1>2. /\ clock' = clock /\ 1..sessionSeq' = 1..sessionSeq /\ 1..userSeq' = 1..userSeq
      /\ [i \in DOMAIN sessions |-> ReadSession(sessions[i])]'
           = [i \in DOMAIN sessions |-> ReadSession(sessions[i])]
  BY DEF UserRemoved
<1> QED
  BY <1>1, <1>2 DEF API!DeleteUser

LEMMA APICreateSession ==
    ASSUME DBTypeOK, DBTypeOK', sessionSeq < MaxSessionID, NEW uid, NEW n, NEW r, NEW tok,
           NEW ttl \in TTLs, ttl > 0, SessionAdded(uid, n, r, tok, ttl)
    PROVE  API!CreateSession(uid, n, r, tok, ttl)
<1> DEFINE id == sessionSeq + 1
           at == Parse(Format(clock))
           exp == Parse(Format(clock + ttl))
           T == [i \in DOMAIN sessions |-> ReadSession(sessions[i])]
<1>1. id \in ((1..MaxUserID) \cup (1..MaxSessionID)) \ (1..sessionSeq)
  BY DEF DBTypeOK
<1>2. at \in API!Rounded(clock) /\ exp \in API!Rounded(clock + ttl)
  BY RoundedTimes DEF DBTypeOK
<1>3. \A i \in DOMAIN T : T[i].token # tok
  BY ReadRows DEF DBTypeOK, SessionAdded
<1>4. 1..sessionSeq' = (1..sessionSeq) \cup {id}
  BY DEF DBTypeOK, SessionAdded
<1>5. T' = [i \in DOMAIN T \cup {id} |->
              IF i = id THEN [userID |-> uid, username |-> n, role |-> r, token |-> tok,
                              createdAt |-> at, expiresAt |-> exp]
                        ELSE T[i]]
  <2>1. DOMAIN sessions' = DOMAIN sessions \cup {id} /\ id \notin DOMAIN sessions
    BY DEF SessionAdded
  <2>2. ReadSession(sessions'[id]) = [userID |-> uid, username |-> n, role |-> r, token |-> tok,
                                      createdAt |-> at, expiresAt |-> exp]
    BY <2>1, ReadRows DEF SessionAdded, DBTypeOK
  <2>3. \A i \in DOMAIN sessions : ReadSession(sessions'[i]) = ReadSession(sessions[i])
    BY DEF SessionAdded
  <2> QED
    BY <2>1, <2>2, <2>3
<1>6. /\ clock' = clock /\ 1..userSeq' = 1..userSeq
      /\ [i \in DOMAIN users |-> ReadUser(users[i])]'
           = [i \in DOMAIN users |-> ReadUser(users[i])]
  BY DEF SessionAdded
<1> QED
  BY <1>1, <1>2, <1>3, <1>4, <1>5, <1>6 DEF API!CreateSession

LEMMA APIRemoveSessions ==
    ASSUME NEW S, SessionsRemoved(S)
    PROVE  API!RemoveSessions(S)
<1> DEFINE T == [i \in DOMAIN sessions |-> ReadSession(sessions[i])]
<1>1. T' = API!Without(T, S)
  BY DEF SessionsRemoved, API!Without, API!Restrict
<1>2. /\ clock' = clock /\ 1..sessionSeq' = 1..sessionSeq /\ 1..userSeq' = 1..userSeq
      /\ [i \in DOMAIN users |-> ReadUser(users[i])]'
           = [i \in DOMAIN users |-> ReadUser(users[i])]
  BY DEF SessionsRemoved
<1> QED
  BY <1>1, <1>2 DEF API!RemoveSessions

(* The sweep, comparing texts, removes sessions after their expiry only,   *)
(* and all that are a second past it.                                      *)
LEMMA APIDeleteExpired ==
    ASSUME DBTypeOK, SessionsRemoved(ExpiredSessions)
    PROVE  API!DeleteExpiredSessions
<1> DEFINE T == [i \in DOMAIN sessions |-> ReadSession(sessions[i])]
           Due == {i \in DOMAIN T : T[i].expiresAt < clock}
           Overdue == {i \in DOMAIN T : T[i].expiresAt <= clock - SecondTicks}
<1>1. ASSUME NEW i \in DOMAIN sessions
      PROVE  /\ i \in ExpiredSessions => i \in Due
             /\ i \in Overdue => i \in ExpiredSessions
  <2>1. T[i].expiresAt = Parse(sessions[i].expiresAt) /\ sessions[i].expiresAt \in Int
    BY ReadRows DEF DBTypeOK, SessionRow
  <2>2. clock \in Int
    BY DEF DBTypeOK
  <2> QED
    BY <2>1, <2>2, Comparing DEF ExpiredSessions
<1>2. Overdue \subseteq ExpiredSessions /\ ExpiredSessions \subseteq Due
  BY <1>1 DEF ExpiredSessions
<1>3. (ExpiredSessions \ Overdue) \cup Overdue = ExpiredSessions
  BY <1>2
<1>4. ExpiredSessions \ Overdue \in SUBSET (Due \ Overdue)
  BY <1>2
<1>5. API!RemoveSessions((ExpiredSessions \ Overdue) \cup Overdue)
  BY <1>3, APIRemoveSessions
<1> HIDE DEF Due, Overdue
<1>6. \E S \in SUBSET (Due \ Overdue) : API!RemoveSessions(S \cup Overdue)
  BY <1>4, <1>5
<1> QED
  BY <1>6 DEF API!DeleteExpiredSessions, Due, Overdue

LEMMA APIStep ==
    ASSUME \A ttl \in TTLs : ttl > 0
    PROVE  DBInv /\ SQLiteStep => [API!Next]_(API!vars)
<1> SUFFICES ASSUME DBInv, SQLiteStep PROVE [API!Next]_(API!vars)
  OBVIOUS
<1>0. DBTypeOK /\ DBTypeOK'
  BY DBInvStep DEF DBInv
<1>1. CASE UNCHANGED dbVars
  BY <1>1 DEF dbVars, API!vars
<1>2. ASSUME NEW n \in Usernames, NEW h \in Hashes, NEW r \in Roles, userSeq < MaxUserID,
             CreateUser(n, h, r)
      PROVE  API!Next
  BY <1>0, <1>2, CreateUserEffect, APICreateUser DEF API!Next
<1>3. ASSUME NEW id \in 1..MaxUserID, NEW n \in Usernames, NEW h \in Hashes, NEW r \in Roles,
             UpdateUser(id, n, h, r)
      PROVE  API!Next
  BY <1>0, <1>3, UpdateUserEffect, APIUpdateUser DEF API!Next
<1>4. ASSUME NEW id \in 1..MaxUserID, DeleteUser(id) PROVE API!Next
  BY <1>4, DeleteUserEffect, APIDeleteUser DEF API!Next, DeleteUser
<1>5. ASSUME NEW uid \in 1..MaxUserID, NEW n \in Usernames, NEW r \in Roles,
             NEW tok \in Tokens, NEW ttl \in TTLs,
             sessionSeq < MaxSessionID, CreateSession(uid, n, r, tok, ttl)
      PROVE  API!Next
  BY <1>0, <1>5, CreateSessionEffect, APICreateSession DEF API!Next
<1>6. ASSUME NEW id \in 1..MaxSessionID, DeleteSession(id) PROVE API!Next
  <2>1. API!DeleteSession(id)
    BY <1>6, RemovalEffect, APIRemoveSessions DEF DeleteSession, API!DeleteSession
  <2> QED
    BY <2>1 DEF API!Next
<1>7. ASSUME NEW uid \in 1..MaxUserID, NEW tok \in Tokens, DeleteSessionsByUserID(uid, tok)
      PROVE  API!Next
  <2>1. API!RemoveSessions(SessionsOfUserExcept(uid, tok))
    BY <1>7, RemovalEffect, APIRemoveSessions DEF DeleteSessionsByUserID
  <2> DEFINE T == [i \in DOMAIN sessions |-> ReadSession(sessions[i])]
  <2>2. SessionsOfUserExcept(uid, tok)
          = {i \in DOMAIN T : T[i].userID = uid /\ T[i].token # tok}
    BY <1>0, ReadRows DEF SessionsOfUserExcept, DBTypeOK
  <2>3. API!DeleteSessionsByUserID(uid, tok)
    BY <2>1, <2>2 DEF API!DeleteSessionsByUserID
  <2> QED
    BY <2>3 DEF API!Next
<1>8. CASE DeleteExpiredSessions
  <2>1. SessionsRemoved(ExpiredSessions)
    BY <1>8, RemovalEffect DEF DeleteExpiredSessions
  <2> QED
    BY <1>0, <2>1, APIDeleteExpired DEF API!Next
<1>9. CASE Tick
  <2>1. API!Tick
    BY <1>9 DEF Tick, userVars, sessionVars, API!Tick
  <2> QED
    BY <2>1 DEF API!Next
<1> QED
  BY <1>1, <1>2, <1>3, <1>4, <1>5, <1>6, <1>7, <1>8, <1>9 DEF SQLiteStep

-----------------------------------------------------------------------------
LEMMA DBInvAlways == StoresSpec => []DBInv
<1>1. DBInv /\ [StoresNext]_storesVars => DBInv'
  BY SQLiteSteps, DBInvStep
<1> QED
  BY <1>1, DBInvInit, PTL DEF StoresSpec

(* The tables keep their types, and their keys stay below the sequences,   *)
(* whatever calls are made (sqlite.go:85-591).                             *)
THEOREM TablesTheorem == StoresSpec => []DBTypeOK
<1>1. DBInv => DBTypeOK
  BY DEF DBInv
<1> QED
  BY <1>1, DBInvAlways, PTL

(* No two accounts share a username (sqlite.go:104, :278) and no two       *)
(* sessions a token (sqlite.go:376), whatever calls are made.              *)
THEOREM UniquenessTheorem == StoresSpec => [](UniqueUsernames /\ UniqueTokens)
<1>1. DBInv => UniqueUsernames /\ UniqueTokens
  BY DEF DBInv
<1> QED
  BY <1>1, DBInvAlways, PTL

(* No id of either table comes back after its row is gone (sqlite.go:276,  *)
(* :333, :486).                                                            *)
THEOREM StoreNoResurrectionTheorem == StoresSpec => NoResurrection
<1>1. DBInv /\ [StoresNext]_storesVars =>
        [/\ \A id \in 1..userSeq : id \notin DOMAIN users => id \notin DOMAIN users'
         /\ \A id \in 1..sessionSeq : id \notin DOMAIN sessions => id \notin DOMAIN sessions'
        ]_dbVars
  BY SQLiteSteps, NoResurrectionStep
<1> QED
  BY <1>1, DBInvAlways, PTL DEF StoresSpec, NoResurrection

(* The listing, by comparison of texts, shows what the interface promises  *)
(* (sqlite.go:525, :528).                                                  *)
THEOREM ListingTheorem == StoresSpec => []ListingAgrees
<1>1. ASSUME DBInv PROVE ListingAgrees
  <2>1. ASSUME NEW i \in DOMAIN sessions
        PROVE  /\ ReadSession(sessions[i]).userID = sessions[i].userID
               /\ sessions[i].expiresAt > Format(clock)
                    <=> ReadSession(sessions[i]).expiresAt > clock
    <3>1. sessions[i].expiresAt \in Int /\ clock \in Int /\ sessions[i] \in SessionRow
      BY <1>1 DEF DBInv, DBTypeOK, SessionRow
    <3> QED
      BY <3>1, ReadRows, Comparing
  <2> QED
    BY <2>1 DEF ListingAgrees, ListSessionsByUserID, API!ListSessionsByUserID
<1> QED
  BY <1>1, DBInvAlways, PTL

(* If callers ask for lifetimes that are positive, the SQLite store does   *)
(* what the interface promises: every step of it is a step of StoreAPI or  *)
(* changes nothing there (sqlite.go:85-591).                               *)
THEOREM SQLiteImplementsTheorem ==
    ASSUME \A ttl \in TTLs : ttl > 0
    PROVE  StoresSpec => ImplementsStoreAPI
<1>1. DBInv /\ [StoresNext]_storesVars => [API!Next]_(API!vars)
  BY SQLiteSteps, APIStep
<1> QED
  BY <1>1, DBInvAlways, APIInit, PTL DEF StoresSpec, ImplementsStoreAPI, API!Spec

-----------------------------------------------------------------------------
(* The in-memory store. *)

MemoryStep ==
    \/ UNCHANGED <<clock, memUsers, nextID, memSessions, nextSessionID>>
    \/ \E n \in Usernames, h \in Hashes, r \in Roles :
          nextID <= MaxUserID /\ Memory!CreateUser(n, h, r)
    \/ \E id \in 1..MaxUserID, n \in Usernames, h \in Hashes, r \in Roles :
          Memory!UpdateUser(id, n, h, r)
    \/ \E id \in 1..MaxUserID : Memory!DeleteUser(id)
    \/ \E uid \in 1..MaxUserID, n \in Usernames, r \in Roles, tok \in Tokens, ttl \in TTLs :
          /\ nextSessionID <= MaxSessionID
          /\ \A id \in DOMAIN memSessions : memSessions[id].token # tok
          /\ Memory!CreateSession(uid, n, r, tok, ttl)
    \/ \E id \in 1..MaxSessionID : Memory!DeleteSession(id)
    \/ \E uid \in 1..MaxUserID, tok \in Tokens : Memory!DeleteSessionsByUserID(uid, tok)
    \/ Memory!DeleteExpiredSessions
    \/ Memory!Tick

(* A call that the map refuses changes nothing, the clock included. *)
LEMMA MemorySteps == [StoresNext]_storesVars => MemoryStep
<1> SUFFICES ASSUME [StoresNext]_storesVars PROVE MemoryStep
  OBVIOUS
<1> USE DEF Call, dbVars, memVars, MemoryStep
<1>1. ASSUME NEW n \in Usernames, NEW h \in Hashes, NEW r \in Roles, OnCreateUser(n, h, r)
      PROVE  MemoryStep
  BY <1>1 DEF OnCreateUser, RoomForUser, CreateUser
<1>2. ASSUME NEW id \in 1..MaxUserID, NEW n \in Usernames, NEW h \in Hashes, NEW r \in Roles,
             OnUpdateUser(id, n, h, r)
      PROVE  MemoryStep
  BY <1>2 DEF OnUpdateUser, UpdateUser
<1>3. ASSUME NEW id \in 1..MaxUserID, OnDeleteUser(id) PROVE MemoryStep
  BY <1>3 DEF OnDeleteUser, DeleteUser
<1>4. ASSUME NEW uid \in 1..MaxUserID, NEW n \in Usernames, NEW r \in Roles,
             NEW tok \in Tokens, NEW ttl \in TTLs, OnCreateSession(uid, n, r, tok, ttl)
      PROVE  MemoryStep
  BY <1>4 DEF OnCreateSession, RoomForSession, Drawable, CreateSession
<1>5. ASSUME NEW id \in 1..MaxSessionID, OnDeleteSession(id) PROVE MemoryStep
  BY <1>5 DEF OnDeleteSession, DeleteSession
<1>6. ASSUME NEW uid \in 1..MaxUserID, NEW tok \in Tokens, OnDeleteSessionsByUserID(uid, tok)
      PROVE  MemoryStep
  BY <1>6 DEF OnDeleteSessionsByUserID
<1>7. CASE OnDeleteExpiredSessions \/ OnTick
  BY <1>7 DEF OnDeleteExpiredSessions, OnTick
<1>8. CASE UNCHANGED storesVars
  BY <1>8 DEF storesVars
<1> QED
  BY <1>1, <1>2, <1>3, <1>4, <1>5, <1>6, <1>7, <1>8 DEF StoresNext

MemoryInv ==
    /\ clock \in Nat /\ nextID \in Nat \ {0} /\ nextSessionID \in Nat \ {0}
    /\ \A id \in DOMAIN memSessions : memSessions[id].expiresAt \in Int

LEMMA MemoryInvInit == StoresInit => MemoryInv
  BY DEF StoresInit, Memory!Init, MemoryInv

LEMMA MemoryInvStep == MemoryInv /\ MemoryStep => MemoryInv'
<1> SUFFICES ASSUME MemoryInv, MemoryStep PROVE MemoryInv'
  OBVIOUS
<1>1. ASSUME NEW n \in Usernames, NEW h \in Hashes, NEW r \in Roles, Memory!CreateUser(n, h, r)
      PROVE  MemoryInv'
  BY <1>1 DEF Memory!CreateUser, Memory!sessionVars, MemoryInv
<1>2. ASSUME NEW id \in 1..MaxUserID, NEW n \in Usernames, NEW h \in Hashes, NEW r \in Roles,
             Memory!UpdateUser(id, n, h, r)
      PROVE  MemoryInv'
  BY <1>2 DEF Memory!UpdateUser, Memory!sessionVars, MemoryInv
<1>3. ASSUME NEW id \in 1..MaxUserID, Memory!DeleteUser(id) PROVE MemoryInv'
  BY <1>3 DEF Memory!DeleteUser, Memory!sessionVars, MemoryInv
<1>4. ASSUME NEW uid \in 1..MaxUserID, NEW n \in Usernames, NEW r \in Roles,
             NEW tok \in Tokens, NEW ttl \in TTLs, Memory!CreateSession(uid, n, r, tok, ttl)
      PROVE  MemoryInv'
  BY <1>4 DEF Memory!CreateSession, Memory!Put, Memory!userVars, MemoryInv
<1>5. ASSUME NEW S, memSessions' = Memory!Delete(memSessions, S),
             UNCHANGED <<clock, nextID, nextSessionID>>
      PROVE  MemoryInv'
  BY <1>5 DEF Memory!Delete, Memory!Restrict, MemoryInv
<1>6. ASSUME NEW id \in 1..MaxSessionID, Memory!DeleteSession(id) PROVE MemoryInv'
  BY <1>5, <1>6 DEF Memory!DeleteSession, Memory!userVars
<1>7. ASSUME NEW uid \in 1..MaxUserID, NEW tok \in Tokens, Memory!DeleteSessionsByUserID(uid, tok)
      PROVE  MemoryInv'
  BY <1>5, <1>7 DEF Memory!DeleteSessionsByUserID, Memory!userVars
<1>8. CASE Memory!DeleteExpiredSessions
  BY <1>5, <1>8 DEF Memory!DeleteExpiredSessions, Memory!userVars
<1>9. CASE Memory!Tick
  BY <1>9 DEF Memory!Tick, Memory!userVars, Memory!sessionVars, MemoryInv
<1>10. CASE UNCHANGED <<clock, memUsers, nextID, memSessions, nextSessionID>>
  BY <1>10 DEF MemoryInv
<1> QED
  BY <1>1, <1>2, <1>3, <1>4, <1>6, <1>7, <1>8, <1>9, <1>10 DEF MemoryStep

LEMMA MemoryAPIInit == StoresInit => Memory!API!Init
  BY DEF StoresInit, Memory!Init, Memory!API!Init

LEMMA MemoryAPIStep == MemoryInv /\ MemoryStep => [Memory!API!Next]_(Memory!API!vars)
<1> SUFFICES ASSUME MemoryInv, MemoryStep PROVE [Memory!API!Next]_(Memory!API!vars)
  OBVIOUS
<1>0. clock \in Nat /\ nextID \in Nat \ {0} /\ nextSessionID \in Nat \ {0}
  BY DEF MemoryInv
<1>1. ASSUME NEW n \in Usernames, NEW h \in Hashes, NEW r \in Roles, nextID <= MaxUserID,
             Memory!CreateUser(n, h, r)
      PROVE  Memory!API!Next
  <2>1. /\ nextID \in ((1..MaxUserID) \cup (1..MaxSessionID)) \ (1..(nextID - 1))
        /\ clock \in Memory!API!Rounded(clock)
    BY <1>0, <1>1 DEF Memory!API!Rounded
  <2>2. /\ nextID' = nextID + 1
        /\ UNCHANGED <<clock, memSessions, nextSessionID>>
    BY <1>1 DEF Memory!CreateUser, Memory!sessionVars
  <2>3. 1..(nextID' - 1) = (1..(nextID - 1)) \cup {nextID}
    BY <1>0, <2>2
  <2>4. Memory!API!CreateUser(n, h, r)
    BY <1>1, <2>1, <2>2, <2>3
    DEF Memory!CreateUser, Memory!CanCreateUser, Memory!Put, Memory!API!CreateUser
  <2> QED
    BY <2>4 DEF Memory!API!Next
<1>2. ASSUME NEW id \in 1..MaxUserID, NEW n \in Usernames, NEW h \in Hashes, NEW r \in Roles,
             Memory!UpdateUser(id, n, h, r)
      PROVE  Memory!API!Next
  <2>1. Memory!API!UpdateUser(id, n, h, r)
    BY <1>2 DEF Memory!UpdateUser, Memory!CanUpdateUser, Memory!TakenByAnother,
                Memory!sessionVars, Memory!API!UpdateUser
  <2> QED
    BY <2>1 DEF Memory!API!Next
<1>3. ASSUME NEW id \in 1..MaxUserID, Memory!DeleteUser(id) PROVE Memory!API!Next
  <2>1. Memory!API!DeleteUser(id)
    BY <1>3 DEF Memory!DeleteUser, Memory!Delete, Memory!sessionVars, Memory!API!DeleteUser,
                Memory!API!Without, Memory!Restrict, Memory!API!Restrict
  <2> QED
    BY <2>1 DEF Memory!API!Next
<1>4. ASSUME NEW uid \in 1..MaxUserID, NEW n \in Usernames, NEW r \in Roles,
             NEW tok \in Tokens, NEW ttl \in TTLs, nextSessionID <= MaxSessionID,
             \A id \in DOMAIN memSessions : memSessions[id].token # tok,
             Memory!CreateSession(uid, n, r, tok, ttl)
      PROVE  Memory!API!Next
  <2>1. /\ nextSessionID \in ((1..MaxUserID) \cup (1..MaxSessionID)) \ (1..(nextSessionID - 1))
        /\ clock \in Memory!API!Rounded(clock)
        /\ clock + ttl \in Memory!API!Rounded(clock + ttl)
    BY <1>0, <1>4 DEF Memory!API!Rounded
  <2>2. /\ nextSessionID' = nextSessionID + 1
        /\ UNCHANGED <<clock, memUsers, nextID>>
    BY <1>4 DEF Memory!CreateSession, Memory!userVars
  <2>3. 1..(nextSessionID' - 1) = (1..(nextSessionID - 1)) \cup {nextSessionID}
    BY <1>0, <2>2
  <2>4. Memory!API!CreateSession(uid, n, r, tok, ttl)
    BY <1>4, <2>1, <2>2, <2>3
    DEF Memory!CreateSession, Memory!CanCreateSession, Memory!Put, Memory!API!CreateSession
  <2> QED
    BY <2>4 DEF Memory!API!Next
<1>5. ASSUME NEW S, memSessions' = Memory!Delete(memSessions, S),
             UNCHANGED <<clock, memUsers, nextID, nextSessionID>>
      PROVE  Memory!API!RemoveSessions(S)
  BY <1>5 DEF Memory!Delete, Memory!API!RemoveSessions, Memory!API!Without, Memory!Restrict,
              Memory!API!Restrict
<1>6. ASSUME NEW id \in 1..MaxSessionID, Memory!DeleteSession(id) PROVE Memory!API!Next
  <2>1. Memory!API!DeleteSession(id)
    BY <1>5, <1>6 DEF Memory!DeleteSession, Memory!userVars, Memory!API!DeleteSession
  <2> QED
    BY <2>1 DEF Memory!API!Next
<1>7. ASSUME NEW uid \in 1..MaxUserID, NEW tok \in Tokens, Memory!DeleteSessionsByUserID(uid, tok)
      PROVE  Memory!API!Next
  <2>1. Memory!API!DeleteSessionsByUserID(uid, tok)
    BY <1>5, <1>7 DEF Memory!DeleteSessionsByUserID, Memory!userVars,
                      Memory!API!DeleteSessionsByUserID
  <2> QED
    BY <2>1 DEF Memory!API!Next
<1>8. CASE Memory!DeleteExpiredSessions
  <2> DEFINE Due == {i \in DOMAIN memSessions : memSessions[i].expiresAt < clock}
             Overdue == {i \in DOMAIN memSessions : memSessions[i].expiresAt <= clock - 1}
  <2>1. Memory!Expired = {} \cup Overdue /\ {} \in SUBSET (Due \ Overdue)
    BY <1>0 DEF Memory!Expired, MemoryInv
  <2>2. Memory!API!RemoveSessions(Memory!Expired)
    BY <1>5, <1>8 DEF Memory!DeleteExpiredSessions, Memory!userVars
  <2>3. \E S \in SUBSET (Due \ Overdue) : Memory!API!RemoveSessions(S \cup Overdue)
    BY <2>1, <2>2
  <2>4. Memory!API!DeleteExpiredSessions
    BY <2>3 DEF Memory!API!DeleteExpiredSessions
  <2> QED
    BY <2>4 DEF Memory!API!Next
<1>9. CASE Memory!Tick
  <2>1. Memory!API!Tick
    BY <1>9 DEF Memory!Tick, Memory!userVars, Memory!sessionVars, Memory!API!Tick
  <2> QED
    BY <2>1 DEF Memory!API!Next
<1>10. CASE UNCHANGED <<clock, memUsers, nextID, memSessions, nextSessionID>>
  BY <1>10 DEF Memory!API!vars
<1> QED
  BY <1>1, <1>2, <1>3, <1>4, <1>6, <1>7, <1>8, <1>9, <1>10 DEF MemoryStep

(* The in-memory store does what the interface promises, and keeps times   *)
(* to the tick (store.go:48-262).                                          *)
THEOREM MemoryImplementsTheorem == StoresSpec => MemoryImplementsStoreAPI
<1>1. MemoryInv /\ [StoresNext]_storesVars => MemoryInv'
  BY MemorySteps, MemoryInvStep
<1>2. MemoryInv /\ [StoresNext]_storesVars => [Memory!API!Next]_(Memory!API!vars)
  BY MemorySteps, MemoryAPIStep
<1> QED
  BY <1>1, <1>2, MemoryInvInit, MemoryAPIInit, PTL
  DEF StoresSpec, MemoryImplementsStoreAPI, Memory!ImplementsStoreAPI, Memory!API!Spec

-----------------------------------------------------------------------------
(* The two stores agree. *)

(* The same accounts under the same ids, and the same id next. *)
SameAccounts ==
    /\ nextID = userSeq + 1
    /\ DOMAIN memUsers = DOMAIN users
    /\ \A id \in DOMAIN users : /\ memUsers[id] \in UserRow
                                /\ memUsers[id].username = users[id].username
                                /\ memUsers[id].passwordHash = users[id].passwordHash
                                /\ memUsers[id].role = users[id].role

(* SQLite's sweep is the more lenient one: it still holds what the map     *)
(* holds, with the expiry cut to the second, and what it holds alone has   *)
(* expired.                                                                *)
SweptAlike ==
    /\ nextSessionID = sessionSeq + 1
    /\ DOMAIN memSessions \subseteq DOMAIN sessions
    /\ \A id \in DOMAIN memSessions :
          /\ memSessions[id].expiresAt \in Int
          /\ memSessions[id].userID = sessions[id].userID
          /\ memSessions[id].token = sessions[id].token
          /\ sessions[id].expiresAt = Format(memSessions[id].expiresAt)
    /\ \A id \in DOMAIN sessions \ DOMAIN memSessions : sessions[id].expiresAt <= Format(clock)

AgreeInv == SameAccounts /\ SweptAlike

LEMMA AgreeInit == StoresInit => AgreeInv
  BY DEF StoresInit, DBInit, EmptyTable, Memory!Init, AgreeInv, SameAccounts, SweptAlike

(* Steps that leave one half alone. *)
LEMMA AgreeFrames ==
    /\ SameAccounts /\ UNCHANGED <<users, userSeq, memUsers, nextID>> => SameAccounts'
    /\ SweptAlike /\ UNCHANGED <<clock, sessions, sessionSeq, memSessions, nextSessionID>>
          => SweptAlike'
  BY DEF SameAccounts, SweptAlike, Format

LEMMA AgreeOnCreateUser ==
    ASSUME DBInv, AgreeInv, NEW n \in Usernames, NEW h \in Hashes, NEW r \in Roles,
           OnCreateUser(n, h, r)
    PROVE  AgreeInv'
<1>1. CanCreateUser(n) <=> Memory!CanCreateUser(n)
  BY DEF AgreeInv, SameAccounts, CanCreateUser, GetUserByUsername, Memory!CanCreateUser
<1>2. CASE CanCreateUser(n)
  <2>1. UserAdded(n, h, r)
    BY <1>2, CreateUserEffect DEF OnCreateUser, Call, DBInv
  <2>2. Memory!CreateUser(n, h, r)
    BY <1>1, <1>2 DEF OnCreateUser, Call
  <2>3. /\ UNCHANGED <<memSessions, nextSessionID>>
        /\ nextID' = nextID + 1
        /\ DOMAIN memUsers' = DOMAIN memUsers \cup {nextID}
        /\ \A id \in DOMAIN memUsers : id # nextID => memUsers'[id] = memUsers[id]
        /\ memUsers'[nextID] = [username |-> n, passwordHash |-> h, role |-> r,
                                createdAt |-> clock]
    BY <2>2 DEF Memory!CreateUser, Memory!Put, Memory!sessionVars
  <2>4. SweptAlike'
    BY <2>1, <2>3, AgreeFrames DEF AgreeInv, UserAdded
  <2>5. memUsers'[nextID] \in UserRow
    BY <2>3 DEF DBInv, DBTypeOK, UserRow
  <2>6. SameAccounts'
    BY <2>1, <2>3, <2>5 DEF AgreeInv, SameAccounts, UserAdded, DBInv, DBTypeOK
  <2> QED
    BY <2>4, <2>6 DEF AgreeInv
<1>3. CASE ~CanCreateUser(n)
  BY <1>1, <1>3, AgreeFrames
  DEF OnCreateUser, Call, CreateUser, Memory!CreateUser, AgreeInv, dbVars, memVars
<1> QED
  BY <1>2, <1>3

LEMMA AgreeOnUpdateUser ==
    ASSUME DBInv, AgreeInv, NEW id \in 1..MaxUserID, NEW n \in Usernames, NEW h \in Hashes,
           NEW r \in Roles, OnUpdateUser(id, n, h, r)
    PROVE  AgreeInv'
<1>1. CanUpdateUser(id, n) <=> Memory!CanUpdateUser(id, n)
  BY DEF AgreeInv, SameAccounts, CanUpdateUser, NameFree, GetUserByUsername,
         Memory!CanUpdateUser, Memory!TakenByAnother
<1>2. CASE CanUpdateUser(id, n)
  <2>1. UserChanged(id, n, h, r)
    BY <1>2, UpdateUserEffect DEF OnUpdateUser, Call, DBInv
  <2>2. Memory!UpdateUser(id, n, h, r)
    BY <1>1, <1>2 DEF OnUpdateUser, Call
  <2>3. /\ UNCHANGED <<memSessions, nextSessionID, nextID>>
        /\ DOMAIN memUsers' = DOMAIN memUsers
        /\ \A i \in DOMAIN memUsers \ {id} : memUsers'[i] = memUsers[i]
        /\ id \in DOMAIN memUsers =>
              memUsers'[id] = [username |-> n, passwordHash |-> h, role |-> r,
                               createdAt |-> memUsers[id].createdAt]
    BY <2>2 DEF Memory!UpdateUser, Memory!sessionVars
  <2>4. SweptAlike'
    BY <2>1, <2>3, AgreeFrames DEF AgreeInv, UserChanged
  <2>5. id \in DOMAIN memUsers /\ memUsers'[id] \in UserRow
    BY <2>1, <2>3 DEF UserChanged, AgreeInv, SameAccounts, UserRow
  <2>6. SameAccounts'
    BY <2>1, <2>3, <2>5 DEF AgreeInv, SameAccounts, UserChanged
  <2> QED
    BY <2>4, <2>6 DEF AgreeInv
<1>3. CASE ~CanUpdateUser(id, n)
  BY <1>1, <1>3, AgreeFrames
  DEF OnUpdateUser, Call, UpdateUser, Memory!UpdateUser, AgreeInv, dbVars, memVars
<1> QED
  BY <1>2, <1>3

LEMMA AgreeOnDeleteUser ==
    ASSUME DBInv, AgreeInv, NEW id \in 1..MaxUserID, OnDeleteUser(id)
    PROVE  AgreeInv'
<1>1. id \in DOMAIN users <=> id \in DOMAIN memUsers
  BY DEF AgreeInv, SameAccounts
<1>2. CASE id \in DOMAIN users
  <2>1. UserRemoved(id)
    BY <1>2, DeleteUserEffect DEF OnDeleteUser, Call
  <2>2. /\ UNCHANGED <<memSessions, nextSessionID, nextID>>
        /\ DOMAIN memUsers' = DOMAIN memUsers \ {id}
        /\ \A i \in DOMAIN memUsers' : memUsers'[i] = memUsers[i]
    BY <1>1, <1>2 DEF OnDeleteUser, Call, Memory!DeleteUser, Memory!Delete, Memory!Restrict,
                      Memory!sessionVars
  <2> QED
    BY <2>1, <2>2, AgreeFrames DEF AgreeInv, SameAccounts, UserRemoved
<1>3. CASE id \notin DOMAIN users
  BY <1>1, <1>3, AgreeFrames
  DEF OnDeleteUser, Call, DeleteUser, Memory!DeleteUser, AgreeInv, dbVars, memVars
<1> QED
  BY <1>2, <1>3

LEMMA AgreeOnCreateSession ==
    ASSUME DBInv, AgreeInv, NEW uid \in 1..MaxUserID, NEW n \in Usernames, NEW r \in Roles,
           NEW tok \in Tokens, NEW ttl \in TTLs, ttl > 0,
           OnCreateSession(uid, n, r, tok, ttl)
    PROVE  AgreeInv'
<1>1. CanCreateSession(tok) /\ Memory!CanCreateSession(ttl)
  BY DEF OnCreateSession, Drawable, CanCreateSession, Memory!CanCreateSession
<1>2. SessionAdded(uid, n, r, tok, ttl)
  BY <1>1, CreateSessionEffect DEF OnCreateSession, Call, DBInv
<1>3. Memory!CreateSession(uid, n, r, tok, ttl)
  BY <1>1 DEF OnCreateSession, Call
<1>4. /\ UNCHANGED <<clock, memUsers, nextID>>
      /\ nextSessionID' = nextSessionID + 1
      /\ DOMAIN memSessions' = DOMAIN memSessions \cup {nextSessionID}
      /\ \A id \in DOMAIN memSessions :
            id # nextSessionID => memSessions'[id] = memSessions[id]
      /\ memSessions'[nextSessionID] =
            [userID |-> uid, username |-> n, role |-> r, token |-> tok,
             createdAt |-> clock, expiresAt |-> clock + ttl]
  BY <1>3 DEF Memory!CreateSession, Memory!Put, Memory!userVars
<1>5. SameAccounts'
  BY <1>2, <1>4, AgreeFrames DEF AgreeInv, SessionAdded
<1>6. clock + ttl \in Int
  BY DEF DBInv, DBTypeOK
<1>7. SweptAlike'
  BY <1>2, <1>4, <1>6 DEF AgreeInv, SweptAlike, SessionAdded, DBInv, DBTypeOK, Format
<1> QED
  BY <1>5, <1>7 DEF AgreeInv

(* What the map loses when ids are taken from it. *)
MemoryLoses(ids) ==
    /\ UNCHANGED <<clock, memUsers, nextID, nextSessionID>>
    /\ DOMAIN memSessions' = DOMAIN memSessions \ ids
    /\ \A id \in DOMAIN memSessions' : memSessions'[id] = memSessions[id]

LEMMA MemoryRemoval ==
    ASSUME NEW ids, memSessions' = Memory!Delete(memSessions, ids),
           UNCHANGED <<clock, memUsers, nextID, nextSessionID>>
    PROVE  MemoryLoses(ids)
  BY DEF MemoryLoses, Memory!Delete, Memory!Restrict

(* The map may lose more than the table, as long as the rows left alone in *)
(* the table have expired; it may not lose less.                           *)
LEMMA AgreeRemoval ==
    ASSUME AgreeInv, NEW S, NEW M, SessionsRemoved(S), MemoryLoses(M),
           S \cap DOMAIN memSessions \subseteq M,
           \A id \in M \cap DOMAIN memSessions : id \in S \/ sessions[id].expiresAt <= Format(clock)
    PROVE  AgreeInv'
<1>1. SameAccounts'
  BY AgreeFrames DEF AgreeInv, SessionsRemoved, MemoryLoses
<1>2. SweptAlike'
  BY DEF AgreeInv, SweptAlike, SessionsRemoved, MemoryLoses, Format
<1> QED
  BY <1>1, <1>2 DEF AgreeInv

LEMMA AgreeOnDeleteSession ==
    ASSUME DBInv, AgreeInv, NEW id \in 1..MaxSessionID, OnDeleteSession(id)
    PROVE  AgreeInv'
<1>1. CASE id \in DOMAIN memSessions
  <2>1. id \in DOMAIN sessions
    BY <1>1 DEF AgreeInv, SweptAlike
  <2>2. SessionsRemoved({id})
    BY <2>1, RemovalEffect DEF OnDeleteSession, Call, DeleteSession
  <2>3. MemoryLoses({id})
    BY <1>1, MemoryRemoval DEF OnDeleteSession, Call, Memory!DeleteSession, Memory!userVars
  <2> QED
    BY <2>2, <2>3, AgreeRemoval
<1>2. CASE id \notin DOMAIN memSessions /\ id \in DOMAIN sessions
  <2>1. SessionsRemoved({id})
    BY <1>2, RemovalEffect DEF OnDeleteSession, Call, DeleteSession
  <2>2. MemoryLoses({})
    BY <1>2, <2>1 DEF OnDeleteSession, Call, Memory!DeleteSession, memVars, MemoryLoses,
                      SessionsRemoved
  <2> QED
    BY <1>2, <2>1, <2>2, AgreeRemoval
<1>3. CASE id \notin DOMAIN memSessions /\ id \notin DOMAIN sessions
  BY <1>3, AgreeFrames
  DEF OnDeleteSession, Call, DeleteSession, Memory!DeleteSession, AgreeInv, dbVars, memVars
<1> QED
  BY <1>1, <1>2, <1>3

LEMMA AgreeOnDeleteSessionsByUserID ==
    ASSUME DBInv, AgreeInv, NEW uid \in 1..MaxUserID, NEW tok \in Tokens,
           OnDeleteSessionsByUserID(uid, tok)
    PROVE  AgreeInv'
<1> DEFINE Mine == {id \in DOMAIN memSessions : /\ memSessions[id].userID = uid
                                               /\ memSessions[id].token # tok}
<1>1. SessionsRemoved(SessionsOfUserExcept(uid, tok))
  BY RemovalEffect DEF OnDeleteSessionsByUserID, DeleteSessionsByUserID
<1>2. MemoryLoses(Mine)
  BY MemoryRemoval
  DEF OnDeleteSessionsByUserID, Memory!DeleteSessionsByUserID, Memory!userVars
<1>3. /\ SessionsOfUserExcept(uid, tok) \cap DOMAIN memSessions \subseteq Mine
      /\ \A id \in Mine : id \in SessionsOfUserExcept(uid, tok)
  BY DEF AgreeInv, SweptAlike, SessionsOfUserExcept
<1> HIDE DEF Mine
<1> QED
  BY <1>1, <1>2, <1>3, AgreeRemoval

LEMMA AgreeOnDeleteExpiredSessions ==
    ASSUME DBInv, AgreeInv, OnDeleteExpiredSessions
    PROVE  AgreeInv'
<1>1. SessionsRemoved(ExpiredSessions)
  BY RemovalEffect DEF OnDeleteExpiredSessions, DeleteExpiredSessions
<1>2. MemoryLoses(Memory!Expired)
  BY MemoryRemoval
  DEF OnDeleteExpiredSessions, Memory!DeleteExpiredSessions, Memory!userVars
<1>3. ASSUME NEW id \in DOMAIN memSessions
      PROVE  /\ id \in ExpiredSessions => id \in Memory!Expired
             /\ id \in Memory!Expired => sessions[id].expiresAt <= Format(clock)
  <2>1. /\ clock \in Int /\ memSessions[id].expiresAt \in Int
        /\ sessions[id].expiresAt = Format(memSessions[id].expiresAt)
    BY DEF DBInv, DBTypeOK, AgreeInv, SweptAlike
  <2> QED
    BY <2>1, FormatOrder DEF ExpiredSessions, Memory!Expired
<1> QED
  BY <1>1, <1>2, <1>3, AgreeRemoval

LEMMA AgreeOnTick ==
    ASSUME DBInv, AgreeInv, OnTick
    PROVE  AgreeInv'
<1>1. /\ clock \in Int /\ clock' = clock + 1
      /\ UNCHANGED <<users, userSeq, sessions, sessionSeq>>
      /\ UNCHANGED <<memUsers, nextID, memSessions, nextSessionID>>
  BY DEF OnTick, Tick, userVars, sessionVars, Memory!Tick, Memory!userVars,
         Memory!sessionVars, DBInv, DBTypeOK
<1>2. /\ Format(clock) \in Int /\ Format(clock + 1) \in Int
      /\ Format(clock) <= Format(clock + 1)
  BY <1>1, Division, FormatOrder
<1>3. \A id \in DOMAIN sessions : sessions[id].expiresAt \in Int
  BY DEF DBInv, DBTypeOK, SessionRow
<1>4. SameAccounts'
  BY <1>1, AgreeFrames DEF AgreeInv
<1>5. \A id \in DOMAIN sessions \ DOMAIN memSessions : sessions[id].expiresAt <= Format(clock + 1)
  BY <1>2, <1>3 DEF AgreeInv, SweptAlike
<1>6. SweptAlike'
  BY <1>1, <1>5 DEF AgreeInv, SweptAlike, Format
<1> QED
  BY <1>4, <1>6 DEF AgreeInv

LEMMA AgreeStep ==
    ASSUME \A ttl \in TTLs : ttl > 0
    PROVE  DBInv /\ AgreeInv /\ [StoresNext]_storesVars => AgreeInv'
<1> SUFFICES ASSUME DBInv, AgreeInv, [StoresNext]_storesVars PROVE AgreeInv'
  OBVIOUS
<1>1. CASE UNCHANGED storesVars
  BY <1>1, AgreeFrames DEF storesVars, dbVars, memVars, AgreeInv
<1>2. ASSUME NEW n \in Usernames, NEW h \in Hashes, NEW r \in Roles,
             OnCreateUser(n, h, r) \/ \E id \in 1..MaxUserID : OnUpdateUser(id, n, h, r)
      PROVE  AgreeInv'
  BY <1>2, AgreeOnCreateUser, AgreeOnUpdateUser
<1>3. ASSUME NEW uid \in 1..MaxUserID, NEW n \in Usernames, NEW r \in Roles,
             NEW tok \in Tokens, NEW ttl \in TTLs, OnCreateSession(uid, n, r, tok, ttl)
      PROVE  AgreeInv'
  BY <1>3, AgreeOnCreateSession
<1>4. ASSUME NEW id \in 1..MaxUserID, OnDeleteUser(id) PROVE AgreeInv'
  BY <1>4, AgreeOnDeleteUser
<1>5. ASSUME NEW id \in 1..MaxSessionID, OnDeleteSession(id) PROVE AgreeInv'
  BY <1>5, AgreeOnDeleteSession
<1>6. ASSUME NEW uid \in 1..MaxUserID, NEW tok \in Tokens, OnDeleteSessionsByUserID(uid, tok)
      PROVE  AgreeInv'
  BY <1>6, AgreeOnDeleteSessionsByUserID
<1>7. CASE OnDeleteExpiredSessions \/ OnTick
  BY <1>7, AgreeOnDeleteExpiredSessions, AgreeOnTick
<1> QED
  BY <1>1, <1>2, <1>3, <1>4, <1>5, <1>6, <1>7 DEF StoresNext

LEMMA AgreeMeans ==
    ASSUME DBInv, AgreeInv
    PROVE  StoresAgree
<1>1. ASSUME NEW id \in DOMAIN users
      PROVE  Account(users[id]) = Account(memUsers[id])
  <2>1. users[id] \in UserRow /\ memUsers[id] \in UserRow
    BY DEF DBInv, DBTypeOK, AgreeInv, SameAccounts
  <2>2. \A row \in UserRow : Account(row) = [username |-> row.username,
            passwordHash |-> row.passwordHash, role |-> row.role, createdAt |-> 0]
    BY DEF Account, UserRow
  <2> QED
    BY <2>1, <2>2 DEF AgreeInv, SameAccounts
<1>2. ASSUME NEW id \in DOMAIN memSessions
      PROVE  /\ sessions[id].expiresAt > Format(clock) => memSessions[id].expiresAt > clock
             /\ sessions[id].expiresAt <= Format(clock)
                   => memSessions[id].expiresAt - clock < SecondTicks
             /\ sessions[id].expiresAt \in Int /\ Format(clock) \in Int
  <2>1. /\ clock \in Int /\ memSessions[id].expiresAt \in Int
        /\ sessions[id].expiresAt = Format(memSessions[id].expiresAt)
    BY DEF DBInv, DBTypeOK, AgreeInv, SweptAlike
  <2>2. Format(memSessions[id].expiresAt) \in Int /\ Format(clock) \in Int
    BY <2>1, Division
  <2> QED
    BY <2>1, <2>2, FormatOrder
<1>3. \A id \in DOMAIN sessions : sessions[id].expiresAt \in Int /\ Format(clock) \in Int
  BY Division DEF DBInv, DBTypeOK, SessionRow
<1>4. ASSUME NEW uid \in 1..MaxUserID, NEW id \in ListSessionsByUserID(uid)
      PROVE  id \in Memory!ListSessionsByUserID(uid)
  <2>1. id \in DOMAIN memSessions
    BY <1>3 DEF ListSessionsByUserID, AgreeInv, SweptAlike
  <2> QED
    BY <1>2, <2>1 DEF ListSessionsByUserID, Memory!ListSessionsByUserID, AgreeInv, SweptAlike
<1>5. ASSUME NEW uid \in 1..MaxUserID, NEW id \in Memory!ListSessionsByUserID(uid)
      PROVE  id \in ListSessionsByUserID(uid) \/ memSessions[id].expiresAt - clock < SecondTicks
  BY <1>2 DEF ListSessionsByUserID, Memory!ListSessionsByUserID, AgreeInv, SweptAlike
<1> QED
  BY <1>1, <1>4, <1>5 DEF StoresAgree, AgreeInv, SameAccounts, SweptAlike

(* If callers ask for lifetimes that are positive, what a test sees on the *)
(* in-memory store is what the service does on SQLite, but for the second  *)
(* in which a session expires (store.go:48-262, sqlite.go:85-591).         *)
THEOREM StoresAgreeTheorem ==
    ASSUME \A ttl \in TTLs : ttl > 0
    PROVE  StoresSpec => []StoresAgree
<1>1. DBInv /\ AgreeInv /\ [StoresNext]_storesVars => AgreeInv'
  BY AgreeStep
<1> QED
  BY <1>1, DBInvAlways, AgreeInit, AgreeMeans, PTL DEF StoresSpec
=============================================================================
