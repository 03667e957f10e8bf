------------------------- MODULE LoginLimiterProofs -------------------------
(***************************************************************************)
(* What the login limiter guarantees for every burst and every rate.  The  *)
(* bound on admissions is not inductive: it says nothing of the level.     *)
(* LimiterInv ties the level to the history from both sides.               *)
(***************************************************************************)
EXTENDS LoginLimiter, TLAPS

USE BurstAssumption, RefillAssumption

(* Shares taken by the requests from the i-th to the n-th. *)
Taken(i, n) == (n - i + 1) * RefillTime

(* What the level leaves was never more than what accrued. *)
LevelBounded ==
    \A i \in 1 .. Len(admitted) : Taken(i, Len(admitted)) + level <= Full + (last - admitted[i])

(* A bucket that is not full lost no more than what some stretch took. *)
LevelExact ==
    \/ level = Full
    \/ \E i \in 1 .. Len(admitted) : Taken(i, Len(admitted)) + level >= Full + (last - admitted[i])

RefusalJustified == answer = 429 => ~CanTake

LimiterInv == TypeOK /\ LevelBounded /\ LevelExact /\ WindowBound /\ RefusalJustified

-----------------------------------------------------------------------------
(* A bucket holds at least one token (handler/auth.go:19). *)
LEMMA FullBucket == Full \in Nat /\ RefillTime <= Full
  <1>1. \A b, k \in Nat \ {0} : b * k \in Nat /\ k <= b * k
    OBVIOUS
  <1> QED
    BY <1>1 DEF Full

(* One request more takes one token more. *)
LEMMA TakenStep ==
    \A i, n \in Int : /\ Taken(i, n) \in Int
                      /\ Taken(i, n + 1) = Taken(i, n) + RefillTime
                      /\ Taken(n, n) = RefillTime
  BY DEF Taken

(* Bringing the level up to date keeps it within the bucket and adds no    *)
(* more than the time that passed.                                         *)
LEMMA AdvanceBounds ==
    ASSUME TypeOK
    PROVE  /\ Advance \in 0 .. Full
           /\ Advance <= level + (now - last)
           /\ Advance = Full \/ Advance = level + (now - last)
  BY FullBucket DEF TypeOK, Advance, Lesser

(* The arithmetic of an admission, with t taken, r to take, a the level    *)
(* brought up to date, l the level before, at time w after time s.         *)
LEMMA Shift ==
    ASSUME NEW t \in Int, NEW r \in Int, NEW a \in Int, NEW l \in Int,
           NEW w \in Int, NEW s \in Int, NEW f \in Int, NEW x \in Int
    PROVE  /\ t + l <= f + (s - x) /\ a <= l + (w - s) => t + r + (a - r) <= f + (w - x)
           /\ t + l >= f + (s - x) /\ a = l + (w - s) => t + r + (a - r) >= f + (w - x)
           /\ t + l <= f + (s - x) /\ r <= l + (w - s) => t + r <= f + (w - x)
  OBVIOUS

(* A request let through keeps the invariant. *)
LEMMA AdmissionKeepsInv ==
    ASSUME NEW method \in {"GET", "POST"}
    PROVE  LimiterInv /\ Admit(method) => LimiterInv'
  <1>0. SUFFICES ASSUME LimiterInv, Admit(method) PROVE LimiterInv'
    OBVIOUS
  <1> DEFINE n == Len(admitted)
  <1>a. TypeOK /\ LevelBounded /\ LevelExact /\ WindowBound
    BY <1>0 DEF LimiterInv
  <1>e. /\ CanTake /\ level' = Advance - RefillTime /\ last' = now /\ now' = now
    BY <1>0 DEF Admit
  <1>b. /\ n \in Nat /\ Len(admitted') = n + 1
        /\ admitted'[n + 1] = now
        /\ \A i \in 1 .. n : admitted'[i] = admitted[i] /\ admitted[i] \in Nat
    BY <1>0, <1>a DEF TypeOK, Admit
  <1>c. Full' = Full
    BY DEF Full
  <1>d. /\ level \in Int /\ now \in Int /\ last \in Int /\ Full \in Int
        /\ RefillTime \in Int /\ Advance \in Int /\ Advance <= level + (now - last)
    BY <1>a, AdvanceBounds, FullBucket DEF TypeOK
  <1>1. TypeOK'
    <2>1. level' \in 0 .. Full'
      BY <1>a, <1>c, <1>e, AdvanceBounds, FullBucket DEF CanTake
    <2>2. admitted' \in Seq(Nat)
      BY <1>0, <1>a DEF TypeOK, Admit
    <2>3. answer' \in {200, 400, 401, 405, 415, 500}
      BY <1>0 DEF Admit, Statuses
    <2> QED
      BY <2>1, <2>2, <2>3, <1>a, <1>e DEF TypeOK
  <1>2. \A i \in 1 .. n : Taken(i, n + 1) = Taken(i, n) + RefillTime /\ Taken(i, n) \in Int
    BY <1>b, TakenStep
  <1>3. Taken(n + 1, n + 1) = RefillTime
    BY <1>b, TakenStep
  <1>4. LevelBounded'
    <2> SUFFICES ASSUME NEW i \in 1 .. n + 1
                 PROVE  Taken(i, n + 1) + level' <= Full + (last' - admitted'[i])
      BY <1>b, <1>c DEF LevelBounded
    <2>1. CASE i = n + 1
      BY <2>1, <1>a, <1>b, <1>3, AdvanceBounds, FullBucket, <1>e DEF TypeOK
    <2>2. CASE i \in 1 .. n
      <3>1. Taken(i, n) + level <= Full + (last - admitted[i])
        BY <2>2, <1>a DEF LevelBounded
      <3>2. /\ Taken(i, n + 1) = Taken(i, n) + RefillTime /\ Taken(i, n) \in Int
            /\ admitted'[i] = admitted[i] /\ admitted[i] \in Int
        BY <2>2, <1>b, <1>2
      <3>3. Taken(i, n) + RefillTime + (Advance - RefillTime) <= Full + (now - admitted[i])
        BY <3>1, <3>2, <1>d, Shift, Zenon
      <3> QED
        BY <3>2, <3>3, <1>e
    <2> QED
      BY <2>1, <2>2, <1>b
  <1>5. LevelExact'
    <2>1. CASE Advance = Full
      <3>1. Taken(n + 1, n + 1) + level' >= Full + (last' - admitted'[n + 1])
        BY <2>1, <1>a, <1>b, <1>3, FullBucket, <1>e DEF TypeOK
      <3> QED
        BY <3>1, <1>b, <1>c DEF LevelExact
    <2>2. CASE Advance # Full
      <3>1. Advance = level + (now - last) /\ level # Full
        BY <2>2, <1>a, AdvanceBounds, FullBucket, <1>e DEF TypeOK, Advance, Lesser
      <3>2. PICK i \in 1 .. n : Taken(i, n) + level >= Full + (last - admitted[i])
        BY <3>1, <1>a DEF LevelExact
      <3>3. Taken(i, n + 1) + level' >= Full + (last' - admitted'[i])
        <4>1. /\ Taken(i, n + 1) = Taken(i, n) + RefillTime /\ Taken(i, n) \in Int
              /\ admitted'[i] = admitted[i] /\ admitted[i] \in Int
          BY <1>b, <1>2
        <4>2. Taken(i, n) + RefillTime + (Advance - RefillTime) >= Full + (now - admitted[i])
          BY <3>1, <3>2, <4>1, <1>d, Shift, Zenon
        <4> QED
          BY <4>1, <4>2, <1>e
      <3> QED
        BY <3>3, <1>b, <1>c DEF LevelExact
    <2> QED
      BY <2>1, <2>2
  <1>6. WindowBound'
    <2> SUFFICES ASSUME NEW i \in 1 .. n + 1, NEW j \in 1 .. n + 1, i <= j
                 PROVE  (j - i + 1) * RefillTime <= Full + (admitted'[j] - admitted'[i])
      BY <1>b, <1>c DEF WindowBound, Conforms
    <2>1. CASE j \in 1 .. n
      <3>1. i \in 1 .. n
        BY <2>1, <1>b
      <3> QED
        BY <2>1, <3>1, <1>a, <1>b DEF WindowBound, Conforms
    <2>2. CASE j = n + 1 /\ i = n + 1
      BY <2>2, <1>b, FullBucket, <1>a DEF TypeOK
    <2>3. CASE j = n + 1 /\ i \in 1 .. n
      <3>1. Taken(i, n) + level <= Full + (last - admitted[i])
        BY <2>3, <1>a DEF LevelBounded
      <3>2. (j - i + 1) * RefillTime = Taken(i, n + 1)
        BY <2>3, <1>b DEF Taken
      <3>4. /\ Taken(i, n + 1) = Taken(i, n) + RefillTime /\ Taken(i, n) \in Int
            /\ admitted'[i] = admitted[i] /\ admitted[i] \in Int /\ admitted'[j] = now
        BY <2>3, <1>b, <1>2
      <3>3. RefillTime <= level + (now - last)
        BY <1>a, AdvanceBounds, FullBucket, <1>e DEF CanTake, TypeOK
      <3>5. Taken(i, n) + RefillTime <= Full + (now - admitted[i])
        BY <3>1, <3>3, <3>4, <1>d, Shift, Zenon
      <3> QED
        BY <3>2, <3>4, <3>5
    <2> QED
      BY <2>1, <2>2, <2>3, <1>b
  <1>7. RefusalJustified'
    BY <1>0 DEF RefusalJustified, Admit, Statuses
  <1> QED
    BY <1>1, <1>4, <1>5, <1>6, <1>7 DEF LimiterInv

(* The invariant holds in every state of every run of the process. *)
LEMMA LimiterInvariant == LimiterSpec => []LimiterInv
  <1>1. LimiterInit => LimiterInv
    <2> SUFFICES ASSUME LimiterInit PROVE LimiterInv
      OBVIOUS
    <2>1. TypeOK
      BY FullBucket DEF LimiterInit, TypeOK
    <2> QED
      BY <2>1 DEF LimiterInit, LimiterInv, LevelBounded, LevelExact, WindowBound, Conforms, RefusalJustified
  <1>2. LimiterInv /\ [LimiterNext]_limiterVars => LimiterInv'
    <2> SUFFICES ASSUME LimiterInv, [LimiterNext]_limiterVars PROVE LimiterInv'
      OBVIOUS
    <2>a. TypeOK
      BY DEF LimiterInv
    <2>1. ASSUME NEW method \in {"GET", "POST"}, LoginHandler(method) PROVE LimiterInv'
      <3>1. CASE CanTake
        BY <2>1, <3>1, AdmissionKeepsInv DEF LoginHandler, Refuse
      <3>2. CASE ~CanTake
        <4>1. /\ answer' = 429
              /\ UNCHANGED <<now, level, last, admitted>>
          BY <2>1, <3>2 DEF LoginHandler, Admit, Refuse
        <4>2. TypeOK' /\ RefusalJustified'
          BY <4>1, <3>2, <2>a DEF TypeOK, Full, RefusalJustified, CanTake, Advance
        <4>3. LevelBounded' /\ LevelExact' /\ WindowBound'
          BY <4>1 DEF LimiterInv, LevelBounded, LevelExact, WindowBound, Conforms, Taken, Full
        <4> QED
          BY <4>2, <4>3 DEF LimiterInv
      <3> QED
        BY <3>1, <3>2
    <2>2. CASE LimiterTimePasses
      <3>1. TypeOK' /\ RefusalJustified'
        BY <2>2, <2>a DEF LimiterTimePasses, TypeOK, Full, RefusalJustified
      <3>2. LevelBounded' /\ LevelExact' /\ WindowBound'
        BY <2>2 DEF LimiterTimePasses, LimiterInv, LevelBounded, LevelExact, WindowBound, Conforms, Taken, Full
      <3> QED
        BY <3>1, <3>2 DEF LimiterInv
    <2>3. CASE LimiterRestart
      <3>1. TypeOK'
        BY <2>3, <2>a, FullBucket DEF LimiterRestart, TypeOK, Full
      <3> QED
        BY <2>3, <3>1 DEF LimiterRestart, LimiterInv, LevelBounded, LevelExact, WindowBound, Conforms,
                          RefusalJustified, Full
    <2>4. CASE UNCHANGED limiterVars
      <3>1. TypeOK' /\ RefusalJustified'
        BY <2>4 DEF limiterVars, LimiterInv, TypeOK, Full, RefusalJustified, CanTake, Advance
      <3>2. LevelBounded' /\ LevelExact' /\ WindowBound'
        BY <2>4 DEF limiterVars, LimiterInv, LevelBounded, LevelExact, WindowBound, Conforms, Taken, Full
      <3> QED
        BY <3>1, <3>2 DEF LimiterInv
    <2> QED
      BY <2>1, <2>2, <2>3, <2>4 DEF LimiterNext
  <1> QED
    BY <1>1, <1>2, PTL DEF LimiterSpec

-----------------------------------------------------------------------------
(* For every burst and rate: the bucket holds no debt and no more than     *)
(* the burst (handler/auth.go:19, :40).                                    *)
THEOREM LimiterTypeTheorem == LimiterSpec => []TypeOK
  <1>1. LimiterInv => TypeOK
    BY DEF LimiterInv
  <1> QED
    BY <1>1, LimiterInvariant, PTL

(* For every burst and rate: no stretch of a run lets through more than    *)
(* the burst and what accrued over it (handler/auth.go:19, :40).           *)
THEOREM WindowBoundTheorem == LimiterSpec => []WindowBound
  <1>1. LimiterInv => WindowBound
    BY DEF LimiterInv
  <1> QED
    BY <1>1, LimiterInvariant, PTL

(* For every burst and rate: a request is turned away only when letting it *)
(* through would break the bound (handler/auth.go:40-43).                  *)
THEOREM RefusalTheorem == LimiterSpec => []RefusedOnlyAtTheLimit
  <1>1. LimiterInv => RefusedOnlyAtTheLimit
    <2> SUFFICES ASSUME LimiterInv, answer = 429, Conforms(Append(admitted, now)) PROVE FALSE
      BY DEF RefusedOnlyAtTheLimit
    <2> DEFINE n == Len(admitted)
               times == Append(admitted, now)
    <2>a. TypeOK /\ LevelExact /\ Advance < RefillTime
      <3>1. TypeOK /\ LevelExact /\ ~CanTake
        BY DEF LimiterInv, RefusalJustified
      <3> QED
        BY <3>1, AdvanceBounds, FullBucket DEF CanTake
    <2>b. /\ n \in Nat /\ Len(times) = n + 1 /\ times[n + 1] = now
          /\ \A i \in 1 .. n : times[i] = admitted[i] /\ admitted[i] \in Nat
      BY <2>a DEF TypeOK
    <2>1. Advance = level + (now - last) /\ level # Full
      BY <2>a, AdvanceBounds, FullBucket DEF TypeOK, Advance, Lesser
    <2>2. PICK i \in 1 .. n : Taken(i, n) + level >= Full + (last - admitted[i])
      BY <2>1, <2>a DEF LevelExact
    <2>3. Taken(i, n) \in Int /\ Taken(i, n + 1) = Taken(i, n) + RefillTime
      BY <2>b, TakenStep
    <2>4. Taken(i, n + 1) <= Full + (now - admitted[i])
      <3>1. (n + 1 - i + 1) * RefillTime <= Full + (times[n + 1] - times[i])
        <4>1. i \in 1 .. Len(times) /\ n + 1 \in 1 .. Len(times) /\ i <= n + 1
          BY <2>b
        <4> QED
          BY <4>1 DEF Conforms
      <3> QED
        BY <3>1, <2>b DEF Taken
    <2>5. /\ level \in Int /\ now \in Int /\ last \in Int /\ Full \in Int
          /\ RefillTime \in Int /\ admitted[i] \in Int
      BY <2>a, <2>b, FullBucket DEF TypeOK
    <2> QED
      BY <2>a, <2>1, <2>2, <2>3, <2>4, <2>5
  <1> QED
    BY <1>1, LimiterInvariant, PTL
=============================================================================
