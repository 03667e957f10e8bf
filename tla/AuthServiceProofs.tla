------------------------- MODULE AuthServiceProofs -------------------------
(***************************************************************************)
(* Proofs about AuthService, for any number of goroutines, users, sessions *)
(* and any clock.                                                          *)
(*                                                                         *)
(* The argument has two halves.  StoreStep says what any step may do to    *)
(* the tables; it preserves the store's half of IndInv and never revives   *)
(* an id.  The handlers' half then follows from how ids are read: a value  *)
(* in req[p] came from a row that existed, and ids only grow.              *)
(***************************************************************************)
EXTENDS AuthService, TLAPS

-----------------------------------------------------------------------------
(* Formatting a time yields a whole number of seconds ... *)
LEMMA FormatType ==
    /\ \A t \in Nat : Format(t) \in Nat
    /\ \A t \in Int : Format(t) \in Int
    /\ \A t \in Nat : NewNumericDate(t) \in Nat
  BY SecondTicksAssumption DEF Format, Parse, NewNumericDate

(* ... and does not run backwards. *)
LEMMA FormatMonotone ==
    \A t \in Nat : Format(t) <= Format(t + 1)
  BY SecondTicksAssumption, Z3 DEF Format

-----------------------------------------------------------------------------
(* What a step may do to the tables. *)

(* The store's half of the inductive invariant. *)
StoreInv ==
    /\ DBTypeOK
    /\ UniqueUsernames
    /\ UniqueTokens
    /\ RowsPredateNow
    /\ \A sid \in DOMAIN sessions : sessions[sid].userID \in 1..userSeq
    /\ NoAdoption

StoreStep ==
    \/ UNCHANGED dbVars
    \/ \E n \in Usernames, h \in Hashes, r \in Roles : CreateUser(n, h, r)
    \/ \E id \in Nat, n \in Usernames, h \in Hashes, r \in Roles : UpdateUser(id, n, h, r)
    \/ \E id \in Nat : DeleteUser(id)
    \/ \E uid \in 1..userSeq, n \in Usernames, r \in Roles, tok \in Tokens, ttl \in TTLs :
          CreateSession(uid, n, r, tok, ttl)
    \/ \E id \in Nat : DeleteSession(id)
    \/ \E uid \in Nat, tok \in Tokens : DeleteSessionsByUserID(uid, tok)
    \/ Tick

(* Every step keeps the store's half of the invariant. *)
LEMMA StoreStepInv == StoreInv /\ StoreStep => StoreInv'
<1> SUFFICES ASSUME StoreInv, StoreStep PROVE StoreInv'
  OBVIOUS
<1> USE DEF StoreInv, DBTypeOK, UserRow, SessionRow, UniqueUsernames, UniqueTokens,
            RowsPredateNow, NoAdoption
<1>1. CASE UNCHANGED dbVars
  BY <1>1 DEF dbVars, Format
<1>2. ASSUME NEW n \in Usernames, NEW h \in Hashes, NEW r \in Roles, CreateUser(n, h, r)
      PROVE  StoreInv'
  <2>1. /\ UNCHANGED <<clock, sessions, sessionSeq>>
        /\ userSeq' = userSeq + 1
        /\ DOMAIN users' = DOMAIN users \cup {userSeq + 1}
        /\ \A id \in DOMAIN users : users'[id] = users[id] /\ users[id].username # n
        /\ users'[userSeq + 1] = [username |-> n, passwordHash |-> h, role |-> r,
                                  createdAt |-> Format(clock)]
        /\ users' \in [DOMAIN users' -> UserRow]
    BY <1>2, FormatType DEF CreateUser, CanCreateUser, GetUserByUsername, Insert, NextUserID,
                            sessionVars
  <2>2. DBTypeOK'
    BY <2>1
  <2>3. UniqueUsernames' /\ UniqueTokens'
    BY <2>1
  <2>4. RowsPredateNow'
    BY <2>1, FormatType
  <2>5. (\A sid \in DOMAIN sessions : sessions[sid].userID \in 1..userSeq)'
    BY <2>1
  <2>6. NoAdoption'
    BY <2>1
  <2> QED
    BY <2>2, <2>3, <2>4, <2>5, <2>6
<1>3. ASSUME NEW id \in Nat, NEW n \in Usernames, NEW h \in Hashes, NEW r \in Roles,
             UpdateUser(id, n, h, r)
      PROVE  StoreInv'
  <2>1. /\ UNCHANGED <<clock, userSeq, sessions, sessionSeq>>
        /\ DOMAIN users' = DOMAIN users
        /\ id \in DOMAIN users
        /\ \A i \in DOMAIN users \ {id} : users'[i] = users[i] /\ users[i].username # n
        /\ users'[id] = [username |-> n, passwordHash |-> h, role |-> r,
                         createdAt |-> users[id].createdAt]
        /\ users' \in [DOMAIN users' -> UserRow]
    BY <1>3 DEF UpdateUser, CanUpdateUser, NameFree, GetUserByUsername, sessionVars
  <2>2. UniqueUsernames' /\ UniqueTokens'
    BY <2>1
  <2>3. RowsPredateNow' /\ NoAdoption'
    BY <2>1 DEF Format
  <2> QED
    BY <2>1, <2>2, <2>3
<1>4. ASSUME NEW id \in Nat, DeleteUser(id) PROVE StoreInv'
  <2>1. /\ UNCHANGED <<clock, userSeq, sessions, sessionSeq>>
        /\ DOMAIN users' = DOMAIN users \ {id}
        /\ \A i \in DOMAIN users' : users'[i] = users[i]
        /\ users' \in [DOMAIN users' -> UserRow]
    BY <1>4 DEF DeleteUser, DeleteWhere, Restrict, sessionVars
  <2> QED
    BY <2>1 DEF Format
<1>5. ASSUME NEW uid \in 1..userSeq, NEW n \in Usernames, NEW r \in Roles, NEW tok \in Tokens,
             NEW ttl \in TTLs, CreateSession(uid, n, r, tok, ttl)
      PROVE  StoreInv'
  <2>1. /\ UNCHANGED <<clock, users, userSeq>>
        /\ sessionSeq' = sessionSeq + 1
        /\ DOMAIN sessions' = DOMAIN sessions \cup {sessionSeq + 1}
        /\ \A id \in DOMAIN sessions : sessions'[id] = sessions[id] /\ sessions[id].token # tok
        /\ sessions'[sessionSeq + 1] = [userID |-> uid, username |-> n, role |-> r,
                                        token |-> tok, createdAt |-> Format(clock),
                                        expiresAt |-> Format(clock + ttl)]
    BY <1>5 DEF CreateSession, CanCreateSession, GetSessionByToken, Insert, NextSessionID,
                userVars
  <2>2. Format(clock) \in Nat /\ Format(clock + ttl) \in Int
    BY FormatType, TTLsAssumption
  <2>3. sessions' \in [DOMAIN sessions' -> SessionRow]
    BY <1>5, <2>2 DEF CreateSession, Insert, NextSessionID
  <2>4. DBTypeOK'
    BY <2>1, <2>3
  <2>5. UniqueUsernames' /\ UniqueTokens'
    BY <2>1
  <2>6. RowsPredateNow'
    BY <2>1 DEF Format
  <2>7. (\A sid \in DOMAIN sessions : sessions[sid].userID \in 1..userSeq)'
    BY <2>1
  <2>8. NoAdoption'
    BY <2>1, <2>2
  <2> QED
    BY <2>4, <2>5, <2>6, <2>7, <2>8
<1>6. ASSUME NEW S \in SUBSET DOMAIN sessions,
             sessions' = DeleteWhere(sessions, S), UNCHANGED <<clock, userVars, sessionSeq>>
      PROVE  StoreInv'
  <2>1. /\ UNCHANGED <<clock, users, userSeq, sessionSeq>>
        /\ DOMAIN sessions' = DOMAIN sessions \ S
        /\ \A i \in DOMAIN sessions' : sessions'[i] = sessions[i]
        /\ sessions' \in [DOMAIN sessions' -> SessionRow]
    BY <1>6 DEF DeleteWhere, Restrict, userVars
  <2> QED
    BY <2>1 DEF Format
<1>7. CASE Tick
  <2>1. UNCHANGED <<users, userSeq, sessions, sessionSeq>> /\ clock' = clock + 1
    BY <1>7 DEF Tick, userVars, sessionVars
  <2>2. Format(clock) <= Format(clock')  /\ Format(clock) \in Nat /\ Format(clock') \in Nat
    BY <2>1, FormatMonotone, FormatType
  <2>3. RowsPredateNow'
    BY <2>1, <2>2 DEF Format
  <2> QED
    BY <2>1, <2>3
<1>8. ASSUME NEW id \in Nat, DeleteSession(id) PROVE StoreInv'
  BY <1>6, <1>8 DEF DeleteSession
<1>9. ASSUME NEW uid \in Nat, NEW tok \in Tokens, DeleteSessionsByUserID(uid, tok)
      PROVE  StoreInv'
  BY <1>6, <1>9 DEF DeleteSessionsByUserID, SessionsOfUserExcept
<1> QED
  BY <1>1, <1>2, <1>3, <1>4, <1>5, <1>7, <1>8, <1>9 DEF StoreStep
(* Sequences only grow, new rows get ids beyond them, and a session's row  *)
(* never changes.                                                          *)
LEMMA StoreStepMonotone ==
    DBTypeOK /\ StoreStep =>
        /\ userSeq' \in Nat /\ sessionSeq' \in Nat
        /\ userSeq <= userSeq' /\ sessionSeq <= sessionSeq'
        /\ DOMAIN users' \subseteq DOMAIN users \cup {userSeq + 1}
        /\ \A sid \in DOMAIN sessions' :
              \/ sid \in DOMAIN sessions /\ sessions'[sid] = sessions[sid]
              \/ sid = sessionSeq + 1
<1> SUFFICES ASSUME DBTypeOK, StoreStep
             PROVE  /\ userSeq' \in Nat /\ sessionSeq' \in Nat
                    /\ userSeq <= userSeq' /\ sessionSeq <= sessionSeq'
                    /\ DOMAIN users' \subseteq DOMAIN users \cup {userSeq + 1}
                    /\ \A sid \in DOMAIN sessions' :
                          \/ sid \in DOMAIN sessions /\ sessions'[sid] = sessions[sid]
                          \/ sid = sessionSeq + 1
  OBVIOUS
<1> USE DEF DBTypeOK, userVars, sessionVars, dbVars, Insert, DeleteWhere, Restrict,
            NextUserID, NextSessionID
<1>1. CASE UNCHANGED dbVars
  BY <1>1
<1>2. CASE \E n \in Usernames, h \in Hashes, r \in Roles : CreateUser(n, h, r)
  BY <1>2 DEF CreateUser
<1>3. CASE \E id \in Nat, n \in Usernames, h \in Hashes, r \in Roles : UpdateUser(id, n, h, r)
  BY <1>3 DEF UpdateUser
<1>4. CASE \E id \in Nat : DeleteUser(id)
  BY <1>4 DEF DeleteUser
<1>5. CASE \E uid \in 1..userSeq, n \in Usernames, r \in Roles, tok \in Tokens, ttl \in TTLs :
              CreateSession(uid, n, r, tok, ttl)
  BY <1>5 DEF CreateSession
<1>6. CASE \E id \in Nat : DeleteSession(id)
  BY <1>6 DEF DeleteSession
<1>7. CASE \E uid \in Nat, tok \in Tokens : DeleteSessionsByUserID(uid, tok)
  BY <1>7 DEF DeleteSessionsByUserID
<1>8. CASE Tick
  BY <1>8 DEF Tick
<1> QED
  BY <1>1, <1>2, <1>3, <1>4, <1>5, <1>6, <1>7, <1>8 DEF StoreStep

-----------------------------------------------------------------------------
(* What the handlers do to the store. *)

(* Which locals a goroutine has is told by where it is. *)
LEMMA LocalsByPc ==
    ASSUME NEW r \in Locals
    PROVE  /\ r.pc = "idle" => r = Idle
           /\ r.pc = "loginSign" => r \in SignLocals
           /\ r.pc = "loginOpen" => r \in OpenLocals
           /\ r.pc \in {"passwdWrite", "putWrite"} => r \in WriteLocals
           /\ r.pc \in {"delSessCheck", "delSessDelete"} => r \in SessionLocals
           /\ r.pc = "delAllDelete" => r \in RevokeLocals
           /\ r # Idle => r.pc # "idle" /\ r.uid \in Nat
  BY DEF Locals, Idle, SignLocals, OpenLocals, WriteLocals, SessionLocals, RevokeLocals

(* Every step of the service does to the tables what StoreStep allows. *)
LEMMA NextStoreStep == TypeOK /\ OwnersWereIssued /\ [Next]_vars => StoreStep
<1> SUFFICES ASSUME TypeOK, OwnersWereIssued, [Next]_vars PROVE StoreStep
  OBVIOUS
<1>1. CASE UNCHANGED vars
  BY <1>1 DEF vars, dbVars, StoreStep
<1>2. ASSUME NEW p \in Procs, Arrive(p) PROVE StoreStep
  <2>1. CASE UNCHANGED dbVars
    BY <2>1 DEF StoreStep
  <2>2. ASSUME NEW j \in jwts, NEW n \in Usernames, NEW pw \in Passwords, NEW r \in Roles,
               AdminCreate(p, j, n, pw, r)
        PROVE  StoreStep
    BY <2>2 DEF AdminCreate, GenerateFromPassword, StoreStep
  <2>3. ASSUME NEW j \in jwts, NEW id \in 1..MaxUserID, AdminDelete(p, j, id)
        PROVE  StoreStep
    BY <2>3 DEF AdminDelete, StoreStep
  <2> QED
    BY <1>2, <2>1, <2>2, <2>3
       DEF Arrive, LoginLookup, PasswordLookup, DeleteSessionLookup, DeleteAllLookup, PutLookup
<1>3. ASSUME NEW p \in Procs, Proceed(p) PROVE StoreStep
  <2>1. req[p] \in Locals
    BY DEF TypeOK
  <2>2. CASE UNCHANGED dbVars
    BY <2>2 DEF StoreStep
  <2>3. CASE LoginOpen(p)
    <3>1. req[p] \in OpenLocals /\ req[p] # Idle
      BY <2>1, <2>3, LocalsByPc DEF LoginOpen, Idle
    <3>2. req[p].uid \in 1..userSeq
      BY <3>1 DEF OwnersWereIssued
    <3> QED
      BY <2>3, <2>2, <3>1, <3>2 DEF LoginOpen, OpenLocals, StoreStep
  <2>4. CASE PasswordWrite(p)
    <3>1. req[p] \in WriteLocals
      BY <2>1, <2>4, LocalsByPc DEF PasswordWrite
    <3> QED
      BY <2>4, <2>2, <3>1 DEF PasswordWrite, WriteBack, WriteLocals, StoreStep
  <2>5. CASE PutWrite(p)
    <3>1. req[p] \in WriteLocals
      BY <2>1, <2>5, LocalsByPc DEF PutWrite
    <3> QED
      BY <2>5, <2>2, <3>1 DEF PutWrite, WriteBack, WriteLocals, StoreStep
  <2>6. CASE DeleteSessionDelete(p)
    <3>1. req[p] \in SessionLocals
      BY <2>1, <2>6, LocalsByPc DEF DeleteSessionDelete
    <3> QED
      BY <2>6, <2>2, <3>1 DEF DeleteSessionDelete, SessionLocals, StoreStep
  <2>7. CASE DeleteAllDelete(p)
    <3>1. req[p] \in RevokeLocals
      BY <2>1, <2>7, LocalsByPc DEF DeleteAllDelete
    <3> QED
      BY <2>7, <3>1 DEF DeleteAllDelete, RevokeLocals, StoreStep
  <2> QED
    BY <1>3, <2>2, <2>3, <2>4, <2>5, <2>6, <2>7 DEF Proceed, LoginSign, DeleteSessionCheck
<1>4. ASSUME NEW p \in Procs, StoreFault(p) PROVE StoreStep
  BY <1>4 DEF StoreFault, StoreStep
<1>5. CASE Restart
  BY <1>5, SeedAssumption DEF Restart, StoreStep
<1>6. CASE TimePasses
  BY <1>6 DEF TimePasses, StoreStep
<1> QED
  BY <1>1, <1>2, <1>3, <1>4, <1>5, <1>6 DEF Next
-----------------------------------------------------------------------------
(* What the handlers remember stays true. *)

(* The handlers' half of the inductive invariant. *)
HandlerInv ==
    /\ req \in [Procs -> Locals]
    /\ \A p \in Procs : req[p] # Idle => req[p].uid \in 1..userSeq
    /\ CheckStaysValid

(* Goroutines that do not move keep what they know, whatever the store     *)
(* does meanwhile.                                                         *)
LEMMA Bystander ==
    ASSUME DBTypeOK, HandlerInv, StoreStep, NEW q \in Procs, req'[q] = req[q]
    PROVE  /\ req'[q] # Idle => req'[q].uid \in 1..userSeq'
           /\ req'[q].pc = "delSessDelete" =>
                /\ req'[q].sid \in 1..sessionSeq'
                /\ req'[q].sid \in DOMAIN sessions' => sessions'[req'[q].sid].userID = req'[q].uid
<1>1. /\ userSeq <= userSeq' /\ sessionSeq <= sessionSeq'
      /\ \A sid \in DOMAIN sessions' :
            \/ sid \in DOMAIN sessions /\ sessions'[sid] = sessions[sid]
            \/ sid = sessionSeq + 1
  BY StoreStepMonotone
<1>2. /\ userSeq \in Nat /\ sessionSeq \in Nat
      /\ userSeq' \in Nat /\ sessionSeq' \in Nat
  BY StoreStepMonotone DEF DBTypeOK
<1>3. req'[q] # Idle => req'[q].uid \in 1..userSeq'
  BY <1>1, <1>2 DEF HandlerInv
<1>4. ASSUME req[q].pc = "delSessDelete"
      PROVE  /\ req[q].sid \in 1..sessionSeq'
             /\ req[q].sid \in DOMAIN sessions' => sessions'[req[q].sid].userID = req[q].uid
  BY <1>1, <1>2, <1>4 DEF HandlerInv, CheckStaysValid
<1> QED
  BY <1>3, <1>4

(* A goroutine moves on with locals r, or is done. *)
LEMMA Handover ==
    ASSUME DBTypeOK, HandlerInv, StoreStep, NEW p \in Procs, NEW r \in Locals,
           req' = [req EXCEPT ![p] = r],
           r # Idle => r.uid \in 1..userSeq,
           r.pc = "delSessDelete" =>
               MayDelete(r.uid, r.sid) /\ UNCHANGED <<sessions, sessionSeq>>
    PROVE  HandlerInv'
<1>1. req' \in [Procs -> Locals] /\ req'[p] = r /\ \A q \in Procs \ {p} : req'[q] = req[q]
  BY DEF HandlerInv
<1>2. userSeq <= userSeq' /\ userSeq \in Nat /\ userSeq' \in Nat
  BY StoreStepMonotone DEF DBTypeOK
<1>3. r # Idle => r.uid \in 1..userSeq'
  BY <1>2
<1>4. r.pc = "delSessDelete" => /\ r.sid \in 1..sessionSeq'
                                /\ r.sid \in DOMAIN sessions' => sessions'[r.sid].userID = r.uid
  BY DEF MayDelete, GetSessionByID, DBTypeOK
<1>5. \A q \in Procs : req'[q] # Idle => req'[q].uid \in 1..userSeq'
  BY <1>1, <1>3, Bystander
<1>6. ASSUME NEW q \in Procs, req'[q].pc = "delSessDelete"
      PROVE  /\ req'[q].sid \in 1..sessionSeq'
             /\ req'[q].sid \in DOMAIN sessions' => sessions'[req'[q].sid].userID = req'[q].uid
  <2>1. CASE q = p
    BY <1>1, <1>4, <1>6, <2>1
  <2>2. CASE q # p
    BY <1>1, <1>6, <2>2, Bystander
  <2> QED
    BY <2>1, <2>2
<1> QED
  BY <1>1, <1>5, <1>6 DEF HandlerInv, CheckStaysValid

(* A goroutine that responds forgets everything. *)
LEMMA Done ==
    ASSUME DBTypeOK, HandlerInv, StoreStep, NEW p \in Procs, req' = [req EXCEPT ![p] = Idle]
    PROVE  HandlerInv'
  BY Handover DEF Locals, Idle
(* The inductive invariant is its two halves and the types of the rest. *)
LEMMA IndInvHalves ==
    IndInv <=> StoreInv /\ HandlerInv /\ jwts \in SUBSET Claims /\ reply \in Replies
  BY DEF IndInv, TypeOK, StoreInv, HandlerInv, OwnersWereIssued

(* A part of a row is what the handlers keep of it. *)
LEMMA RowPart ==
    ASSUME NEW row \in UserRow, NEW S \in SUBSET Fields
    PROVE  Restrict(row, S) \in Partial
<1>1. \A f \in Fields : row[f] \in Usernames \cup Hashes \cup Roles
  BY DEF UserRow, Fields
<1>2. Restrict(row, S) \in [S -> Usernames \cup Hashes \cup Roles]
  BY <1>1 DEF Restrict
<1> QED
  BY <1>2 DEF Partial

(* A request that arrives starts from ids the store just returned. *)
LEMMA ArriveHandlers ==
    ASSUME IndInv, StoreStep, NEW p \in Procs, Arrive(p)
    PROVE  HandlerInv' /\ jwts' \in SUBSET Claims /\ reply' \in Replies
<1> DEFINE Goal == HandlerInv' /\ jwts' \in SUBSET Claims /\ reply' \in Replies
<1>0. DBTypeOK /\ HandlerInv /\ jwts \in SUBSET Claims /\ reply \in Replies
  BY IndInvHalves DEF StoreInv
<1>1. \A id \in DOMAIN users : /\ id \in Nat /\ id \in 1..userSeq
                              /\ users[id].username \in Usernames /\ users[id].role \in Roles
                              /\ users[id].passwordHash \in Hashes /\ users[id] \in UserRow
  BY <1>0 DEF DBTypeOK, UserRow
<1>2. ASSUME NEW status \in Statuses, Respond(p, status), UNCHANGED jwts
      PROVE  Goal
  BY <1>0, <1>2, Done DEF Respond, Replies
<1>3. ASSUME NEW r \in Locals, r.uid \in 1..userSeq, r.pc # "delSessDelete",
             Await(p, r), UNCHANGED jwts
      PROVE  Goal
  BY <1>0, <1>3, Handover DEF Await, Replies
<1>4. ASSUME NEW n \in Usernames, NEW pw \in Passwords, LoginLookup(p, n, pw)
      PROVE  Goal
  <2>1. CASE Respond(p, 401)
    BY <1>4, <1>2, <2>1 DEF LoginLookup, Statuses
  <2>2. ASSUME NEW id \in DOMAIN users,
               Await(p, [pc |-> "loginSign", uid |-> id, username |-> users[id].username,
                         role |-> users[id].role])
        PROVE  Goal
    BY <1>1, <1>3, <1>4, <2>2 DEF LoginLookup, Locals, SignLocals
  <2> QED
    BY <1>4, <2>1, <2>2 DEF LoginLookup, GetUserByUsername
<1>5. ASSUME NEW j \in jwts, NEW current \in Passwords, NEW new \in Passwords,
             PasswordLookup(p, j, current, new)
      PROVE  Goal
  <2>1. ASSUME NEW status \in Statuses, Respond(p, status)
        PROVE  Goal
    BY <1>5, <1>2, <2>1 DEF PasswordLookup
  <2>2. ASSUME NEW id \in DOMAIN users, NEW h \in Hashes, Await(p, PasswordRow(id, h))
        PROVE  Goal
    <3>1. PasswordRow(id, h) \in WriteLocals
      BY <1>1, RowPart DEF PasswordRow, WriteLocals, Fields
    <3>2. PasswordRow(id, h).uid = id /\ PasswordRow(id, h).pc # "delSessDelete"
      BY DEF PasswordRow
    <3> QED
      BY <1>1, <1>3, <1>5, <2>2, <3>1, <3>2 DEF PasswordLookup, Locals
  <2> QED
    BY <1>1, <1>5, <2>1, <2>2 DEF PasswordLookup, GetUserByUsername, GenerateFromPassword, Statuses
<1>11. \A j \in jwts : Bearer(j) \in SUBSET Nat
  BY <1>1 DEF Bearer, GetUserByUsername
<1>6. ASSUME NEW j \in jwts, NEW sid \in 1..MaxSessionID, DeleteSessionLookup(p, j, sid)
      PROVE  Goal
  <2>1. CASE Respond(p, 404)
    BY <1>6, <1>2, <2>1 DEF DeleteSessionLookup, Statuses
  <2>2. ASSUME NEW id \in DOMAIN users,
               Await(p, [pc |-> "delSessCheck", uid |-> id, sid |-> sid, bearer |-> Bearer(j)])
        PROVE  Goal
    BY <1>1, <1>3, <1>6, <1>11, <2>2 DEF DeleteSessionLookup, Locals, SessionLocals
  <2> QED
    BY <1>6, <2>1, <2>2 DEF DeleteSessionLookup, GetUserByUsername
<1>7. ASSUME NEW j \in jwts, NEW tok \in Tokens, DeleteAllLookup(p, j, tok)
      PROVE  Goal
  <2>1. CASE Respond(p, 404)
    BY <1>7, <1>2, <2>1 DEF DeleteAllLookup, Statuses
  <2>2. ASSUME NEW id \in DOMAIN users,
               Await(p, [pc |-> "delAllDelete", uid |-> id, token |-> tok, bearer |-> Bearer(j)])
        PROVE  Goal
    BY <1>1, <1>3, <1>7, <1>11, <2>2 DEF DeleteAllLookup, Locals, RevokeLocals
  <2> QED
    BY <1>7, <2>1, <2>2 DEF DeleteAllLookup, GetUserByUsername
<1>8. ASSUME NEW j \in jwts, NEW n \in Usernames, NEW pw \in Passwords, NEW r \in Roles,
             AdminCreate(p, j, n, pw, r)
      PROVE  Goal
  BY <1>2, <1>8 DEF AdminCreate, Statuses
<1>9. ASSUME NEW j \in jwts, NEW id \in 1..MaxUserID, AdminDelete(p, j, id)
      PROVE  Goal
  BY <1>2, <1>9 DEF AdminDelete, Statuses
<1>10. ASSUME NEW j \in jwts, NEW id \in 1..MaxUserID, NEW n \in Usernames \cup {Omitted},
              NEW pw \in Passwords \cup {Omitted}, NEW r \in Roles \cup {Omitted},
              PutLookup(p, j, id, n, pw, r)
       PROVE  Goal
  <2>1. ASSUME NEW status \in Statuses, Respond(p, status)
        PROVE  Goal
    BY <1>10, <1>2, <2>1 DEF PutLookup
  <2>2. ASSUME GetUser(id) # {}, NEW h \in PutHashes(id, pw), Await(p, PutRow(id, n, pw, r, h))
        PROVE  Goal
    <3>0. id \in DOMAIN users
      BY <2>2 DEF GetUser
    <3>1. /\ Merge(n, users[id].username) \in Usernames
          /\ Merge(r, users[id].role) \in Roles
          /\ h \in Hashes
          /\ NotGiven(n, pw, r) \in SUBSET Fields
      BY <1>1, <2>2, <3>0 DEF Merge, PutHashes, GenerateFromPassword, NotGiven
    <3>2. PutRow(id, n, pw, r, h) \in WriteLocals
      BY <1>1, <3>0, <3>1, RowPart DEF PutRow, WriteLocals
    <3>3. PutRow(id, n, pw, r, h).uid = id /\ PutRow(id, n, pw, r, h).pc # "delSessDelete"
      BY DEF PutRow
    <3> QED
      BY <1>1, <1>3, <1>10, <2>2, <3>0, <3>2, <3>3 DEF PutLookup, Locals
  <2>3. GetUserErrors(id) \subseteq Statuses /\ 400 \in Statuses /\ 500 \in Statuses
    BY DEF GetUserErrors, Statuses
  <2> QED
    BY <1>10, <2>1, <2>2, <2>3 DEF PutLookup
<1> QED
  BY <1>4, <1>5, <1>6, <1>7, <1>8, <1>9, <1>10 DEF Arrive
(* A handler that goes on carries its ids along; only the owner check lets *)
(* it reach the DELETE of a session.                                       *)
LEMMA ProceedHandlers ==
    ASSUME IndInv, StoreStep, NEW p \in Procs, Proceed(p) \/ StoreFault(p)
    PROVE  HandlerInv' /\ jwts' \in SUBSET Claims /\ reply' \in Replies
<1> DEFINE Goal == HandlerInv' /\ jwts' \in SUBSET Claims /\ reply' \in Replies
<1>0. DBTypeOK /\ HandlerInv /\ jwts \in SUBSET Claims /\ reply \in Replies
  BY IndInvHalves DEF StoreInv
<1>1. req[p] \in Locals /\ (req[p] # Idle => req[p].uid \in 1..userSeq)
  BY <1>0 DEF HandlerInv
<1>2. ASSUME NEW status \in Statuses, Respond(p, status), jwts' \in SUBSET Claims
      PROVE  Goal
  BY <1>0, <1>2, Done DEF Respond, Replies
<1>3. CASE LoginSign(p)
  <2>1. req[p] \in SignLocals /\ req[p].uid \in 1..userSeq
    BY <1>1, <1>3, LocalsByPc DEF LoginSign, Idle
  <2>2. NewNumericDate(clock + TokenTTL) \in Nat
    BY <1>0, FormatType, TokenTTLAssumption DEF DBTypeOK
  <2> DEFINE r == [pc |-> "loginOpen", uid |-> req[p].uid, username |-> req[p].username,
                   role |-> req[p].role, expiresAt |-> NewNumericDate(clock + TokenTTL)]
  <2>3. r \in OpenLocals
    BY <2>1, <2>2 DEF SignLocals, OpenLocals
  <2>4. r \in Locals /\ r.uid \in 1..userSeq /\ r.pc # "delSessDelete"
    BY <2>1, <2>3 DEF Locals
  <2>5. req' = [req EXCEPT ![p] = r] /\ reply' = NoReply /\ UNCHANGED jwts
    BY <1>3 DEF LoginSign, Await
  <2> HIDE DEF r
  <2> QED
    BY <1>0, <2>4, <2>5, Handover DEF Replies
<1>4. CASE LoginOpen(p)
  <2>1. req[p] \in OpenLocals
    BY <1>1, <1>4, LocalsByPc DEF LoginOpen
  <2>2. jwts' \in SUBSET Claims
    BY <1>0, <1>4, <2>1 DEF LoginOpen, Unexpired, Claims, OpenLocals
  <2> QED
    BY <1>2, <1>4, <2>1, <2>2 DEF LoginOpen, OpenLocals, Statuses
<1>5. CASE PasswordWrite(p)
  <2>1. req[p] \in WriteLocals
    BY <1>1, <1>5, LocalsByPc DEF PasswordWrite
  <2> QED
    BY <1>0, <1>2, <1>5, <2>1 DEF PasswordWrite, WriteLocals, Statuses
<1>6. CASE PutWrite(p)
  <2>1. req[p] \in WriteLocals
    BY <1>1, <1>6, LocalsByPc DEF PutWrite
  <2> QED
    BY <1>0, <1>2, <1>6, <2>1 DEF PutWrite, WriteLocals, Statuses
<1>7. CASE DeleteSessionCheck(p)
  <2>1. req[p] \in SessionLocals /\ req[p].uid \in 1..userSeq
    BY <1>1, <1>7, LocalsByPc DEF DeleteSessionCheck, Idle
  <2>2. CASE Respond(p, 404)
    BY <1>0, <1>2, <1>7, <2>1, <2>2 DEF DeleteSessionCheck, SessionLocals, Statuses
  <2>3. CASE /\ MayDelete(req[p].uid, req[p].sid)
             /\ Await(p, [req[p] EXCEPT !.pc = "delSessDelete"])
    <3> DEFINE r == [req[p] EXCEPT !.pc = "delSessDelete"]
    <3>1. r \in SessionLocals /\ r.uid = req[p].uid /\ r.sid = req[p].sid
      BY <2>1 DEF SessionLocals
    <3>2. r \in Locals /\ r.uid \in 1..userSeq /\ MayDelete(r.uid, r.sid)
      BY <2>1, <2>3, <3>1 DEF Locals
    <3>3. /\ req' = [req EXCEPT ![p] = r] /\ reply' = NoReply
          /\ UNCHANGED <<sessions, sessionSeq, jwts>>
      BY <1>7, <2>3 DEF DeleteSessionCheck, Await, dbVars
    <3> HIDE DEF r
    <3> QED
      BY <1>0, <3>2, <3>3, Handover DEF Replies
  <2> QED
    BY <1>7, <2>2, <2>3 DEF DeleteSessionCheck
<1>8. CASE DeleteSessionDelete(p)
  <2>1. req[p] \in SessionLocals
    BY <1>1, <1>8, LocalsByPc DEF DeleteSessionDelete
  <2> QED
    BY <1>0, <1>2, <1>8, <2>1 DEF DeleteSessionDelete, SessionLocals, Statuses
<1>9. CASE DeleteAllDelete(p)
  <2>1. req[p] \in RevokeLocals
    BY <1>1, <1>9, LocalsByPc DEF DeleteAllDelete
  <2> QED
    BY <1>0, <1>2, <1>9, <2>1 DEF DeleteAllDelete, RevokeLocals, Statuses
<1>10. CASE StoreFault(p)
  <2>1. FaultStatus(req[p].pc) \in Statuses
    BY DEF FaultStatus, Statuses
  <2> QED
    BY <1>0, <1>2, <1>10, <2>1 DEF StoreFault
<1> QED
  BY <1>3, <1>4, <1>5, <1>6, <1>7, <1>8, <1>9, <1>10 DEF Proceed

-----------------------------------------------------------------------------
(* The invariant holds when main() has seeded the database ... *)
LEMMA InitIndInv == Init => IndInv
<1> SUFFICES ASSUME Init PROVE IndInv
  OBVIOUS
<1>1. DBTypeOK
  BY SeedAssumption DEF Init, DBTypeOK, UserRow, SessionRow, EmptyTable
<1>2. UniqueUsernames /\ UniqueTokens /\ RowsPredateNow /\ NoAdoption
  BY FormatType DEF Init, UniqueUsernames, UniqueTokens, RowsPredateNow, NoAdoption, EmptyTable
<1>3. \A sid \in DOMAIN sessions : sessions[sid].userID \in 1..userSeq
  BY DEF Init, EmptyTable
<1>4. HandlerInv
  BY DEF Init, HandlerInv, CheckStaysValid, Locals, Idle
<1>5. jwts \in SUBSET Claims /\ reply \in Replies
  BY DEF Init, Replies
<1> QED
  BY <1>1, <1>2, <1>3, <1>4, <1>5, IndInvHalves DEF StoreInv

(* ... and every step of every goroutine preserves it. *)
LEMMA NextIndInv == IndInv /\ [Next]_vars => IndInv'
<1> SUFFICES ASSUME IndInv, [Next]_vars PROVE IndInv'
  OBVIOUS
<1>1. StoreStep
  BY NextStoreStep DEF IndInv
<1>2. StoreInv /\ HandlerInv /\ jwts \in SUBSET Claims /\ reply \in Replies
  BY IndInvHalves
<1>3. StoreInv'
  BY <1>1, <1>2, StoreStepInv
<1> SUFFICES HandlerInv' /\ jwts' \in SUBSET Claims /\ reply' \in Replies
  BY <1>3 DEF IndInv, TypeOK, StoreInv, HandlerInv, OwnersWereIssued
<1>4. CASE UNCHANGED vars
  BY <1>2, <1>4 DEF vars, HandlerInv, CheckStaysValid
<1>5. CASE \E p \in Procs : Arrive(p)
  BY <1>1, <1>5, ArriveHandlers
<1>6. CASE \E p \in Procs : Proceed(p) \/ StoreFault(p)
  BY <1>1, <1>6, ProceedHandlers
<1>7. CASE Restart
  <2>1. \A p \in Procs : req'[p] = Idle
    BY <1>7 DEF Restart
  <2> QED
    BY <1>2, <1>7, <2>1 DEF Restart, HandlerInv, CheckStaysValid, Locals, Idle, Replies
<1>8. CASE TimePasses
  <2>1. HandlerInv'
    BY <1>2, <1>8 DEF TimePasses, Tick, userVars, sessionVars, HandlerInv, CheckStaysValid
  <2> QED
    BY <1>2, <1>8, <2>1 DEF TimePasses, Unexpired, Replies
<1> QED
  BY <1>4, <1>5, <1>6, <1>7, <1>8 DEF Next

(* The inductive invariant holds throughout. *)
THEOREM Invariance == Spec => []IndInv
  BY InitIndInv, NextIndInv, PTL DEF Spec
-----------------------------------------------------------------------------
(* The tables, the handlers' locals and the tokens keep their types, for   *)
(* every interleaving of the handlers of auth.go and admin.go.             *)
THEOREM TypeCorrect == Spec => []TypeOK
  BY Invariance, PTL DEF IndInv

(* GetUserByUsername finds at most one account, always. *)
THEOREM NamesStayUnique == Spec => []UniqueUsernames
  BY Invariance, PTL DEF IndInv

(* No session ever passes to an account created after it, although         *)
(* deleting a user leaves its sessions behind (sqlite.go:327-348).         *)
THEOREM SessionsAreNotAdopted == Spec => []NoAdoption
  BY Invariance, PTL DEF IndInv

(* A stale PUT or password change never brings a deleted account back, and *)
(* no id, of a user or a session, is ever given out twice.                 *)
THEOREM DeletedStaysDeleted == Spec => NoResurrection
<1>1. IndInv /\ [Next]_vars => StoreStep /\ DBTypeOK
  BY NextStoreStep DEF IndInv, TypeOK
<1>2. ASSUME DBTypeOK, StoreStep
      PROVE  /\ \A id \in 1..userSeq : id \notin DOMAIN users => id \notin DOMAIN users'
             /\ \A id \in 1..sessionSeq :
                   id \notin DOMAIN sessions => id \notin DOMAIN sessions'
  BY <1>2, StoreStepMonotone DEF DBTypeOK
<1>3. IndInv /\ [Next]_vars =>
        [/\ \A id \in 1..userSeq : id \notin DOMAIN users => id \notin DOMAIN users'
         /\ \A id \in 1..sessionSeq : id \notin DOMAIN sessions => id \notin DOMAIN sessions'
        ]_dbVars
  BY <1>1, <1>2
<1> QED
  BY <1>3, Invariance, PTL DEF Spec, NoResurrection

-----------------------------------------------------------------------------
(* What a handler remembers of its request.  A row to be written has, in   *)
(* the fields the client did not give, what was read; and a token whose    *)
(* account still bore its name resolved to that account.                   *)

Writing == {"putWrite", "passwdWrite"}
Removing == {"delSessCheck", "delSessDelete", "delAllDelete"}

SoundLocals(r) ==
    /\ r.pc \in Writing => \A f \in DOMAIN r.read : f \in Fields /\ r[f] = r.read[f]
    /\ r.pc \in Removing => r.bearer \subseteq {r.uid}

LocalsAreSound == \A p \in Procs : SoundLocals(req[p])

LEMMA SoundHandover ==
    ASSUME req \in [Procs -> Locals], LocalsAreSound, NEW p \in Procs, NEW r, SoundLocals(r),
           req' = [req EXCEPT ![p] = r]
    PROVE  LocalsAreSound'
<1>1. \A q \in Procs : req'[q] = r \/ req'[q] = req[q]
  OBVIOUS
<1>2. ASSUME NEW q \in Procs PROVE SoundLocals(req'[q])
  BY <1>1 DEF LocalsAreSound
<1> QED
  BY <1>2 DEF LocalsAreSound, SoundLocals

LEMMA IdleIsSound == SoundLocals(Idle)
  BY DEF SoundLocals, Idle, Writing, Removing

LEMMA SoundResponse ==
    ASSUME req \in [Procs -> Locals], LocalsAreSound, NEW p \in Procs, NEW status,
           Respond(p, status)
    PROVE  LocalsAreSound'
  BY SoundHandover, IdleIsSound DEF Respond

LEMMA SoundAwait ==
    ASSUME req \in [Procs -> Locals], LocalsAreSound, NEW p \in Procs, NEW r, SoundLocals(r),
           Await(p, r)
    PROVE  LocalsAreSound'
  BY SoundHandover DEF Await

(* A row that POST /auth/password is to write back ... *)
LEMMA PasswordRowIsSound ==
    ASSUME NEW id, NEW h
    PROVE  SoundLocals(PasswordRow(id, h))
<1> DEFINE r == PasswordRow(id, h)
<1>1. /\ r.pc = "passwdWrite" /\ r.read = Restrict(users[id], {"username", "role"})
      /\ r.username = users[id].username /\ r.role = users[id].role
  BY DEF PasswordRow
<1>2. /\ DOMAIN r.read = {"username", "role"}
      /\ r.read["username"] = users[id].username /\ r.read["role"] = users[id].role
  BY <1>1 DEF Restrict
<1>3. r["username"] = users[id].username /\ r["role"] = users[id].role
  BY <1>1
<1> QED
  BY <1>1, <1>2, <1>3 DEF SoundLocals, Writing, Removing, Fields

(* ... or PUT /admin/users/{id}. *)
LEMMA PutRowIsSound ==
    ASSUME NEW id, NEW n, NEW pw, NEW r, NEW h \in PutHashes(id, pw)
    PROVE  SoundLocals(PutRow(id, n, pw, r, h))
<1> DEFINE w == PutRow(id, n, pw, r, h)
           S == NotGiven(n, pw, r)
<1>1. /\ w.pc = "putWrite" /\ w.read = Restrict(users[id], S)
      /\ w.username = Merge(n, users[id].username) /\ w.passwordHash = h
      /\ w.role = Merge(r, users[id].role)
  BY DEF PutRow
<1>2. DOMAIN w.read = S /\ \A f \in S : w.read[f] = users[id][f]
  BY <1>1 DEF Restrict
<1>3. "username" \in S => w.username = users[id].username
  BY <1>1 DEF NotGiven, Merge
<1>4. "passwordHash" \in S => w.passwordHash = users[id].passwordHash
  BY <1>1 DEF NotGiven, PutHashes
<1>5. "role" \in S => w.role = users[id].role
  BY <1>1 DEF NotGiven, Merge
<1>6. S \subseteq {"username", "passwordHash", "role"}
  BY DEF NotGiven, Fields
<1>7. ASSUME NEW f \in DOMAIN w.read PROVE f \in Fields /\ w[f] = w.read[f]
  BY <1>2, <1>3, <1>4, <1>5, <1>6, <1>7 DEF Fields
<1> QED
  BY <1>1, <1>7 DEF SoundLocals, Removing

(* A lookup by the name in a token finds its account if that still bears   *)
(* the name: names are unique.                                             *)
LEMMA BearerIsFound ==
    ASSUME UniqueUsernames, NEW j, NEW id \in GetUserByUsername(j.username)
    PROVE  Bearer(j) \subseteq {id}
  BY DEF Bearer, GetUserByUsername, UniqueUsernames

LEMMA LocalsAreSoundStep ==
    ASSUME IndInv, LocalsAreSound, [Next]_vars
    PROVE  LocalsAreSound'
<1>0. req \in [Procs -> Locals] /\ UniqueUsernames
  BY DEF IndInv, TypeOK
<1>1. CASE UNCHANGED vars \/ TimePasses
  BY <1>1 DEF vars, TimePasses, LocalsAreSound, SoundLocals
<1>2. CASE Restart
  <2>1. \A p \in Procs : req'[p] = Idle
    BY <1>2 DEF Restart
  <2> QED
    BY <2>1, IdleIsSound DEF LocalsAreSound, SoundLocals
<1>3. ASSUME NEW p \in Procs, Arrive(p) PROVE LocalsAreSound'
  <2>1. ASSUME NEW n, NEW pw, LoginLookup(p, n, pw) PROVE LocalsAreSound'
    <3>1. ASSUME NEW id
          PROVE  SoundLocals([pc |-> "loginSign", uid |-> id, username |-> users[id].username,
                              role |-> users[id].role])
      BY DEF SoundLocals, Writing, Removing
    <3> QED
      BY <1>0, <2>1, <3>1, SoundResponse, SoundAwait DEF LoginLookup
  <2>2. ASSUME NEW j, NEW current, NEW new, PasswordLookup(p, j, current, new)
        PROVE  LocalsAreSound'
    BY <1>0, <2>2, PasswordRowIsSound, SoundResponse, SoundAwait DEF PasswordLookup
  <2>3. ASSUME NEW j, NEW sid, DeleteSessionLookup(p, j, sid) PROVE LocalsAreSound'
    <3>1. ASSUME NEW id \in GetUserByUsername(j.username)
          PROVE  SoundLocals([pc |-> "delSessCheck", uid |-> id, sid |-> sid,
                              bearer |-> Bearer(j)])
      BY <1>0, BearerIsFound DEF SoundLocals, Writing
    <3> QED
      BY <1>0, <2>3, <3>1, SoundResponse, SoundAwait DEF DeleteSessionLookup
  <2>4. ASSUME NEW j, NEW tok, DeleteAllLookup(p, j, tok) PROVE LocalsAreSound'
    <3>1. ASSUME NEW id \in GetUserByUsername(j.username)
          PROVE  SoundLocals([pc |-> "delAllDelete", uid |-> id, token |-> tok,
                              bearer |-> Bearer(j)])
      BY <1>0, BearerIsFound DEF SoundLocals, Writing
    <3> QED
      BY <1>0, <2>4, <3>1, SoundResponse, SoundAwait DEF DeleteAllLookup
  <2>5. ASSUME NEW j, NEW n, NEW pw, NEW r, AdminCreate(p, j, n, pw, r) PROVE LocalsAreSound'
    BY <1>0, <2>5, SoundResponse DEF AdminCreate
  <2>6. ASSUME NEW j, NEW id, AdminDelete(p, j, id) PROVE LocalsAreSound'
    BY <1>0, <2>6, SoundResponse DEF AdminDelete
  <2>7. ASSUME NEW j, NEW id, NEW n, NEW pw, NEW r, PutLookup(p, j, id, n, pw, r)
        PROVE  LocalsAreSound'
    BY <1>0, <2>7, PutRowIsSound, SoundResponse, SoundAwait DEF PutLookup
  <2> QED
    BY <1>3, <2>1, <2>2, <2>3, <2>4, <2>5, <2>6, <2>7 DEF Arrive
<1>4. ASSUME NEW p \in Procs, Proceed(p) PROVE LocalsAreSound'
  <2>1. CASE LoginSign(p)
    <3>1. ASSUME NEW u, NEW n, NEW r, NEW t
          PROVE  SoundLocals([pc |-> "loginOpen", uid |-> u, username |-> n, role |-> r,
                              expiresAt |-> t])
      BY DEF SoundLocals, Writing, Removing
    <3> QED
      BY <1>0, <2>1, <3>1, SoundAwait DEF LoginSign
  <2>2. CASE DeleteSessionCheck(p)
    <3>1. req[p] \in SessionLocals /\ req[p].bearer \subseteq {req[p].uid}
      BY <1>0, <2>2, LocalsByPc DEF DeleteSessionCheck, LocalsAreSound, SoundLocals, Removing
    <3>2. SoundLocals([req[p] EXCEPT !.pc = "delSessDelete"])
      BY <3>1 DEF SessionLocals, SoundLocals, Writing
    <3> QED
      BY <1>0, <2>2, <3>2, SoundResponse, SoundAwait DEF DeleteSessionCheck
  <2>3. CASE LoginOpen(p) \/ PasswordWrite(p) \/ PutWrite(p)
    BY <1>0, <2>3, SoundResponse DEF LoginOpen, PasswordWrite, PutWrite
  <2>4. CASE DeleteSessionDelete(p) \/ DeleteAllDelete(p)
    BY <1>0, <2>4, SoundResponse DEF DeleteSessionDelete, DeleteAllDelete
  <2> QED
    BY <1>4, <2>1, <2>2, <2>3, <2>4 DEF Proceed
<1>5. ASSUME NEW p \in Procs, StoreFault(p) PROVE LocalsAreSound'
  BY <1>0, <1>5, SoundResponse DEF StoreFault
<1> QED
  BY <1>1, <1>2, <1>3, <1>4, <1>5 DEF Next

LEMMA SoundLocalsAlways == Spec => []LocalsAreSound
<1>1. Init => LocalsAreSound
  BY IdleIsSound DEF Init, LocalsAreSound
<1>2. IndInv /\ LocalsAreSound /\ [Next]_vars => LocalsAreSound'
  BY LocalsAreSoundStep
<1> QED
  BY <1>1, <1>2, Invariance, PTL DEF Spec

-----------------------------------------------------------------------------
(* What a step that removes sessions has to do with who removed them. *)
RemovesInTheName ==
    \A sid \in DOMAIN sessions \ DOMAIN sessions' :
       \E p \in Procs :
          /\ req'[p] = Idle
          /\ \/ req[p].pc = "delSessDelete" /\ req[p].sid = sid
             \/ req[p].pc = "delAllDelete" /\ req[p].token # sessions[sid].token
          /\ req[p].uid = sessions[sid].userID
          /\ req[p].bearer \subseteq {sessions[sid].userID}

(* A step that keeps every session meets it. *)
LEMMA KeepsSessions == DOMAIN sessions \subseteq DOMAIN sessions' => RemovesInTheName
  BY DEF RemovesInTheName

LEMMA RemovesInTheNameStep ==
    ASSUME IndInv, LocalsAreSound, [Next]_vars
    PROVE  RemovesInTheName
<1>1. DBTypeOK /\ CheckStaysValid /\ req \in [Procs -> Locals]
  BY DEF IndInv, TypeOK
<1>2. ASSUME NEW p \in Procs, DeleteSessionDelete(p) PROVE RemovesInTheName
  <2>1. CASE UNCHANGED dbVars
    BY <2>1, KeepsSessions DEF dbVars
  <2>2. CASE DeleteSession(req[p].sid) /\ Respond(p, 204)
    <3>1. req[p].pc = "delSessDelete" /\ req[p].bearer \subseteq {req[p].uid}
      BY <1>2 DEF DeleteSessionDelete, LocalsAreSound, SoundLocals, Removing
    <3>2. req'[p] = Idle /\ DOMAIN sessions \ DOMAIN sessions' \subseteq {req[p].sid}
      BY <1>1, <2>2 DEF DeleteSession, Respond, DeleteWhere, Restrict
    <3>3. req[p].sid \in DOMAIN sessions => sessions[req[p].sid].userID = req[p].uid
      BY <1>1, <3>1 DEF CheckStaysValid
    <3> QED
      BY <3>1, <3>2, <3>3 DEF RemovesInTheName
  <2> QED
    BY <1>2, <2>1, <2>2 DEF DeleteSessionDelete
<1>3. ASSUME NEW p \in Procs, DeleteAllDelete(p) PROVE RemovesInTheName
  <2>1. req[p].pc = "delAllDelete" /\ req[p].bearer \subseteq {req[p].uid}
    BY <1>3 DEF DeleteAllDelete, LocalsAreSound, SoundLocals, Removing
  <2>2. req'[p] = Idle
    BY <1>1, <1>3 DEF DeleteAllDelete, Respond
  <2>3. \A sid \in DOMAIN sessions \ DOMAIN sessions' :
           sessions[sid].userID = req[p].uid /\ sessions[sid].token # req[p].token
    BY <1>3 DEF DeleteAllDelete, DeleteSessionsByUserID, SessionsOfUserExcept, DeleteWhere,
                Restrict
  <2> QED
    BY <2>1, <2>2, <2>3 DEF RemovesInTheName
<1>4. CASE UNCHANGED sessions
  BY <1>4, KeepsSessions
<1>5. ASSUME NEW n, NEW h, NEW r, CreateUser(n, h, r) PROVE RemovesInTheName
  BY <1>4, <1>5 DEF CreateUser, sessionVars
<1>6. ASSUME NEW id, NEW n, NEW h, NEW r, UpdateUser(id, n, h, r) PROVE RemovesInTheName
  BY <1>4, <1>6 DEF UpdateUser, sessionVars
<1>7. ASSUME NEW id, DeleteUser(id) PROVE RemovesInTheName
  BY <1>4, <1>7 DEF DeleteUser, sessionVars
<1>8. ASSUME NEW uid, NEW n, NEW r, NEW tok, NEW ttl, CreateSession(uid, n, r, tok, ttl)
      PROVE  RemovesInTheName
  BY <1>8, KeepsSessions DEF CreateSession, Insert
<1>9. CASE UNCHANGED dbVars
  BY <1>4, <1>9 DEF dbVars
<1>10. CASE \E p \in Procs : Arrive(p)
  <2>1. CASE \E p \in Procs, j \in jwts, n \in Usernames, pw \in Passwords, r \in Roles :
                AdminCreate(p, j, n, pw, r)
    BY <1>5, <1>9, <2>1 DEF AdminCreate
  <2>2. CASE \E p \in Procs, j \in jwts, id \in 1..MaxUserID : AdminDelete(p, j, id)
    BY <1>7, <1>9, <2>2 DEF AdminDelete
  <2> QED
    BY <1>9, <1>10, <2>1, <2>2
       DEF Arrive, LoginLookup, PasswordLookup, DeleteSessionLookup, DeleteAllLookup, PutLookup
<1>11. CASE \E p \in Procs : Proceed(p)
  <2>1. ASSUME NEW p \in Procs, LoginOpen(p) PROVE RemovesInTheName
    BY <1>8, <1>9, <2>1 DEF LoginOpen
  <2>2. ASSUME NEW p \in Procs, PasswordWrite(p) \/ PutWrite(p) PROVE RemovesInTheName
    BY <1>6, <1>9, <2>2 DEF PasswordWrite, PutWrite, WriteBack
  <2> QED
    BY <1>2, <1>3, <1>9, <1>11, <2>1, <2>2 DEF Proceed, LoginSign, DeleteSessionCheck
<1>12. CASE Restart
  BY <1>5, <1>9, <1>12 DEF Restart
<1>13. CASE TimePasses
  BY <1>4, <1>13 DEF TimePasses, Tick, sessionVars
<1>14. CASE \E p \in Procs : StoreFault(p)
  BY <1>9, <1>14 DEF StoreFault
<1>15. CASE UNCHANGED vars
  BY <1>4, <1>15 DEF vars
<1> QED
  BY <1>10, <1>11, <1>12, <1>13, <1>14, <1>15 DEF Next

(* A session is removed only by a request that names its user, of that     *)
(* account's own client while the token's account still bears the name,    *)
(* and never the one the client holds on to: whatever happens between the  *)
(* lookup, the owner check and the DELETE of auth.go:201-218.              *)
THEOREM SessionsRemovedInTheName == Spec => RemovedInTheName
<1>1. IndInv /\ LocalsAreSound /\ [Next]_vars => [RemovesInTheName]_vars
  BY RemovesInTheNameStep
<1>2. RemovedInTheName <=> [][RemovesInTheName]_vars
  BY PTL DEF RemovedInTheName, RemovesInTheName
<1> QED
  BY <1>1, <1>2, Invariance, SoundLocalsAlways, PTL DEF Spec

-----------------------------------------------------------------------------
(* What a write may do to the fields its client did not give. *)
KeepsUnraced(p) ==
    Writes(p) => \A f \in DOMAIN req[p].read :
                    users[req[p].uid][f] = req[p].read[f] => Kept(req[p].uid, f)

(* A write puts what was read into the fields that were not given. *)
LEMMA WriteBackKeeps ==
    ASSUME NEW r, r.pc \in Writing, SoundLocals(r), WriteBack(r),
           NEW f \in DOMAIN r.read, users[r.uid][f] = r.read[f]
    PROVE  Kept(r.uid, f)
<1>1. users'[r.uid] = [username |-> r.username, passwordHash |-> r.passwordHash,
                       role |-> r.role, createdAt |-> users[r.uid].createdAt]
  BY DEF WriteBack, UpdateUser, CanUpdateUser
<1>2. f \in {"username", "passwordHash", "role"} /\ r[f] = r.read[f]
  BY DEF SoundLocals, Fields
<1>3. users'[r.uid][f] = r[f]
  <2>1. CASE f = "username"
    BY <1>1, <2>1
  <2>2. CASE f = "passwordHash"
    BY <1>1, <2>2
  <2>3. CASE f = "role"
    BY <1>1, <2>3
  <2> QED
    BY <1>2, <2>1, <2>2, <2>3
<1> QED
  BY <1>2, <1>3 DEF Kept

LEMMA KeepsUnracedStep ==
    ASSUME IndInv, LocalsAreSound, [Next]_vars, NEW p \in Procs
    PROVE  KeepsUnraced(p)
<1> SUFFICES ASSUME Writes(p) PROVE KeepsUnraced(p)
  BY DEF KeepsUnraced
<1>0. /\ req \in [Procs -> Locals] /\ DOMAIN users \subseteq 1..userSeq /\ userSeq \in Nat
      /\ req[p].pc \in Writing /\ req[p] # Idle /\ req'[p] = Idle /\ users' # users
      /\ req[p].uid \in DOMAIN users /\ SoundLocals(req[p])
  BY DEF IndInv, TypeOK, DBTypeOK, LocalsAreSound, Writes, Writing, Idle
<1>1. CASE Restart
  <2>1. users' = Insert(users, NextUserID,
                        [username |-> AdminName, passwordHash |-> AdminHash, role |-> "admin",
                         createdAt |-> Format(clock)])
    BY <1>0, <1>1 DEF Restart, CreateUser, dbVars
  <2>2. users'[req[p].uid] = users[req[p].uid]
    BY <1>0, <2>1 DEF Insert, NextUserID
  <2> QED
    BY <2>2 DEF KeepsUnraced, Kept
<1>2. CASE PasswordWrite(p) \/ PutWrite(p)
  <2>1. WriteBack(req[p])
    BY <1>0, <1>2 DEF PasswordWrite, PutWrite, dbVars
  <2> QED
    BY <1>0, <2>1, WriteBackKeeps DEF KeepsUnraced
<1>3. ASSUME NEW q \in Procs, NEW r, req' = [req EXCEPT ![q] = r] PROVE q = p
  BY <1>0, <1>3
<1>4. ASSUME NEW q \in Procs, (\E r : Await(q, r)) \/ (\E status : Respond(q, status))
      PROVE  q = p
  BY <1>3, <1>4 DEF Await, Respond
<1>5. ASSUME NEW q \in Procs, Arrive(q) PROVE FALSE
  <2>1. req[q] = Idle
    BY <1>5 DEF Arrive, LoginLookup, PasswordLookup, DeleteSessionLookup, DeleteAllLookup,
                AdminCreate, AdminDelete, PutLookup, Serves
  <2>2. req'[p] = req[p]
    <3>1. ASSUME NEW n, NEW pw, LoginLookup(q, n, pw) PROVE q = p
      BY <1>4, <3>1 DEF LoginLookup
    <3>2. ASSUME NEW j, NEW c, NEW n, PasswordLookup(q, j, c, n) PROVE q = p
      BY <1>4, <3>2 DEF PasswordLookup
    <3>3. ASSUME NEW j, NEW x, DeleteSessionLookup(q, j, x) \/ DeleteAllLookup(q, j, x)
          PROVE  q = p
      BY <1>4, <3>3 DEF DeleteSessionLookup, DeleteAllLookup
    <3>4. ASSUME NEW j, NEW n, NEW pw, NEW r, AdminCreate(q, j, n, pw, r) PROVE q = p
      BY <1>4, <3>4 DEF AdminCreate
    <3>5. ASSUME NEW j, NEW id, AdminDelete(q, j, id) PROVE q = p
      BY <1>4, <3>5 DEF AdminDelete
    <3>6. ASSUME NEW j, NEW id, NEW n, NEW pw, NEW r, PutLookup(q, j, id, n, pw, r)
          PROVE  q = p
      BY <1>4, <3>6 DEF PutLookup
    <3> QED
      BY <1>0, <1>5, <2>1, <3>1, <3>2, <3>3, <3>4, <3>5, <3>6 DEF Arrive
  <2> QED
    BY <1>0, <2>2
<1>6. ASSUME NEW q \in Procs, Proceed(q) PROVE PasswordWrite(p) \/ PutWrite(p)
  <2>1. q = p
    BY <1>4, <1>6 DEF Proceed, LoginSign, LoginOpen, PasswordWrite, PutWrite,
                      DeleteSessionCheck, DeleteSessionDelete, DeleteAllDelete
  <2> QED
    BY <1>0, <1>6, <2>1 DEF Proceed, LoginSign, LoginOpen, DeleteSessionCheck,
                            DeleteSessionDelete, DeleteAllDelete, Writing
<1>7. ASSUME NEW q \in Procs, StoreFault(q) PROVE FALSE
  BY <1>0, <1>7 DEF StoreFault, dbVars
<1>8. CASE UNCHANGED vars \/ TimePasses
  BY <1>0, <1>8 DEF vars, TimePasses, Tick, userVars
<1> QED
  BY <1>1, <1>2, <1>5, <1>6, <1>7, <1>8 DEF Next

(* A PUT or a password change alters a field its client did not give only  *)
(* if that field was changed between its read and its write: for any       *)
(* number of goroutines, requests, database faults and restarts            *)
(* (admin.go:217-251, auth.go:293-311).                                    *)
THEOREM RacesAloneLoseFields == Spec => OnlyRacesLoseFields
<1>1. IndInv /\ LocalsAreSound /\ [Next]_vars => [\A p \in Procs : KeepsUnraced(p)]_vars
  BY KeepsUnracedStep
<1>2. OnlyRacesLoseFields <=> [][\A p \in Procs : KeepsUnraced(p)]_vars
  BY PTL DEF OnlyRacesLoseFields, KeepsUnraced
<1> QED
  BY <1>1, <1>2, Invariance, SoundLocalsAlways, PTL DEF Spec

-----------------------------------------------------------------------------
(* One goroutine alone.  Two that write to the same account lose each      *)
(* other's changes; what follows shows that it takes two: what a single    *)
(* handler read is still in the table when it writes.                      *)

Alone == \A p, q \in Procs : p = q

Current(r) == /\ r.uid \in DOMAIN users
              /\ \A f \in DOMAIN r.read : users[r.uid][f] = r.read[f]

ReadIsCurrent == \A p \in Procs : req[p].pc \in Writing => Current(req[p])

(* The one goroutine goes on without a row to write ... *)
LEMMA NothingToWrite ==
    ASSUME Alone, NEW p \in Procs, req \in [Procs -> Locals], NEW r,
           req' = [req EXCEPT ![p] = r], r.pc \notin Writing
    PROVE  ReadIsCurrent'
<1>1. \A q \in Procs : req'[q] = r
  BY DEF Alone
<1> QED
  BY <1>1 DEF ReadIsCurrent

LEMMA Responded ==
    ASSUME Alone, NEW p \in Procs, req \in [Procs -> Locals], NEW status, Respond(p, status)
    PROVE  ReadIsCurrent'
  BY NothingToWrite DEF Respond, Idle, Writing

(* ... or with a row as the table has it. *)
LEMMA RowJustRead ==
    ASSUME Alone, NEW p \in Procs, req \in [Procs -> Locals], NEW r,
           Await(p, r), Current(r), UNCHANGED users
    PROVE  ReadIsCurrent'
<1>1. \A q \in Procs : req'[q] = r
  BY DEF Alone, Await
<1> QED
  BY <1>1 DEF ReadIsCurrent, Current

LEMMA ReadIsCurrentStep ==
    ASSUME Alone, IndInv, ReadIsCurrent, [Next]_vars
    PROVE  ReadIsCurrent'
<1>0. req \in [Procs -> Locals]
  BY DEF IndInv, TypeOK
<1>1. CASE UNCHANGED vars \/ TimePasses
  BY <1>1 DEF vars, TimePasses, Tick, userVars, ReadIsCurrent, Current
<1>2. CASE Restart
  BY <1>2 DEF Restart, ReadIsCurrent, Idle, Writing
<1>3. ASSUME NEW p \in Procs, Arrive(p) PROVE ReadIsCurrent'
  <2>1. ASSUME NEW n, NEW pw, LoginLookup(p, n, pw) PROVE ReadIsCurrent'
    BY <1>0, <2>1, Responded, NothingToWrite DEF LoginLookup, Await, Writing
  <2>2. ASSUME NEW j, NEW current, NEW new, PasswordLookup(p, j, current, new)
        PROVE  ReadIsCurrent'
    <3>1. ASSUME NEW id \in DOMAIN users, NEW h
          PROVE  Current(PasswordRow(id, h))
      BY DEF Current, PasswordRow, Restrict
    <3>2. UNCHANGED users
      BY <2>2 DEF PasswordLookup, dbVars
    <3> QED
      BY <1>0, <2>2, <3>1, <3>2, Responded, RowJustRead DEF PasswordLookup, GetUserByUsername
  <2>3. ASSUME NEW j, NEW sid, DeleteSessionLookup(p, j, sid) PROVE ReadIsCurrent'
    BY <1>0, <2>3, Responded, NothingToWrite DEF DeleteSessionLookup, Await, Writing
  <2>4. ASSUME NEW j, NEW tok, DeleteAllLookup(p, j, tok) PROVE ReadIsCurrent'
    BY <1>0, <2>4, Responded, NothingToWrite DEF DeleteAllLookup, Await, Writing
  <2>5. ASSUME NEW j, NEW n, NEW pw, NEW r, AdminCreate(p, j, n, pw, r) PROVE ReadIsCurrent'
    BY <1>0, <2>5, Responded DEF AdminCreate
  <2>6. ASSUME NEW j, NEW id, AdminDelete(p, j, id) PROVE ReadIsCurrent'
    BY <1>0, <2>6, Responded DEF AdminDelete
  <2>7. ASSUME NEW j, NEW id, NEW n, NEW pw, NEW r, PutLookup(p, j, id, n, pw, r)
        PROVE  ReadIsCurrent'
    <3>1. ASSUME NEW h, GetUser(id) # {}
          PROVE  Current(PutRow(id, n, pw, r, h))
      <4>1. id \in DOMAIN users
        BY <3>1 DEF GetUser
      <4> QED
        BY <4>1 DEF Current, PutRow, Restrict
    <3>2. UNCHANGED users
      BY <2>7 DEF PutLookup, dbVars
    <3> QED
      BY <1>0, <2>7, <3>1, <3>2, Responded, RowJustRead DEF PutLookup
  <2> QED
    BY <1>3, <2>1, <2>2, <2>3, <2>4, <2>5, <2>6, <2>7 DEF Arrive
<1>4. ASSUME NEW p \in Procs, Proceed(p) PROVE ReadIsCurrent'
  <2>1. CASE LoginSign(p)
    BY <1>0, <2>1, NothingToWrite DEF LoginSign, Await, Writing
  <2>2. CASE DeleteSessionCheck(p)
    <3>1. [req[p] EXCEPT !.pc = "delSessDelete"].pc = "delSessDelete"
      <4>1. req[p] \in SessionLocals
        BY <1>0, <2>2, LocalsByPc DEF DeleteSessionCheck
      <4> QED
        BY <4>1 DEF SessionLocals
    <3> QED
      BY <1>0, <2>2, <3>1, Responded, NothingToWrite DEF DeleteSessionCheck, Await, Writing
  <2>3. CASE LoginOpen(p) \/ PasswordWrite(p) \/ PutWrite(p)
    BY <1>0, <2>3, Responded DEF LoginOpen, PasswordWrite, PutWrite
  <2>4. CASE DeleteSessionDelete(p) \/ DeleteAllDelete(p)
    BY <1>0, <2>4, Responded DEF DeleteSessionDelete, DeleteAllDelete
  <2> QED
    BY <1>4, <2>1, <2>2, <2>3, <2>4 DEF Proceed
<1>5. ASSUME NEW p \in Procs, StoreFault(p) PROVE ReadIsCurrent'
  BY <1>0, <1>5, Responded DEF StoreFault
<1> QED
  BY <1>1, <1>2, <1>3, <1>4, <1>5 DEF Next

LEMMA AloneReadsAreCurrent == ASSUME Alone PROVE Spec => []ReadIsCurrent
<1>1. Init => ReadIsCurrent
  BY DEF Init, ReadIsCurrent, Idle, Writing
<1>2. IndInv /\ ReadIsCurrent /\ [Next]_vars => ReadIsCurrent'
  BY ReadIsCurrentStep
<1> QED
  BY <1>1, <1>2, Invariance, PTL DEF Spec

KeepsNotGiven(p) == Writes(p) => \A f \in DOMAIN req[p].read : Kept(req[p].uid, f)

(* A goroutine that has the database to itself alters, by a PUT or a       *)
(* password change, no field its client did not give, for every request,   *)
(* database fault and restart (admin.go:217-251, auth.go:293-311).         *)
THEOREM AloneWritesOnlyGiven == ASSUME Alone PROVE Spec => WritesOnlyGiven
<1>1. ASSUME IndInv, LocalsAreSound, ReadIsCurrent, [Next]_vars, NEW p \in Procs
      PROVE  KeepsNotGiven(p)
  <2>1. KeepsUnraced(p)
    BY <1>1, KeepsUnracedStep
  <2>2. Writes(p) => Current(req[p])
    BY <1>1 DEF ReadIsCurrent, Writes, Writing
  <2> QED
    BY <2>1, <2>2 DEF KeepsUnraced, KeepsNotGiven, Current
<1>2. IndInv /\ LocalsAreSound /\ ReadIsCurrent /\ [Next]_vars
        => [\A p \in Procs : KeepsNotGiven(p)]_vars
  BY <1>1
<1>3. WritesOnlyGiven <=> [][\A p \in Procs : KeepsNotGiven(p)]_vars
  BY PTL DEF WritesOnlyGiven, KeepsNotGiven
<1> QED
  BY <1>2, <1>3, AloneReadsAreCurrent, Invariance, SoundLocalsAlways, PTL DEF Spec
=============================================================================
