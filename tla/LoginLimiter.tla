---------------------------- MODULE LoginLimiter ----------------------------
(***************************************************************************)
(* The token bucket in front of POST /auth/login (handler/auth.go): one    *)
(* rate.Limiter for all clients, asked before anything else is looked at.  *)
(*                                                                         *)
(* rate.Limiter is a library type, modelled by its contract: a level that  *)
(* grows with time up to the burst and is brought up to date lazily, when  *)
(* a request is admitted.  The level counts in shares of a token: one      *)
(* token is RefillTime shares and one share accrues per unit of time, so   *)
(* no rounding is lost.  Allow holds the limiter's mutex and is one step.  *)
(***************************************************************************)
EXTENDS Integers, Sequences

CONSTANTS
    Burst,          \* tokens the full bucket holds
    RefillTime,     \* units of time in which one token accrues
    MaxNow, MaxAdmitted       \* bounds of the explored behaviours

ASSUME BurstAssumption == Burst \in Nat \ {0}
ASSUME RefillAssumption == RefillTime \in Nat \ {0}

VARIABLES
    now,
    level, last,    \* the limiter: shares in the bucket at time last
    admitted,       \* history: when each request of this run was let through
    answer          \* the status of the last request, 0 once time has passed

limiterVars == <<now, level, last, admitted, answer>>

Full == Burst * RefillTime

Lesser(a, b) == IF a < b THEN a ELSE b

AdvanceUncapped == level + (now - last)                 \* mutant: burst is no cap
Advance == Lesser(Full, level + (now - last))

LimiterInit ==
    /\ now = 0
    /\ level = Full /\ last = now
    /\ admitted = <<>> /\ answer = 0

CanTakeInDebt == Advance > 0                            \* mutant: a token may be owed
CanTakeStrict == Advance > RefillTime                   \* mutant: the last token is kept
CanTake == Advance >= RefillTime

Statuses(method) == IF method = "POST" THEN {200, 400, 401, 415, 500} ELSE {405}

(***************************************************************************)
(* LoginHandler up to its answer.  Whatever becomes of an admitted request *)
(* the token it took is spent; a refused request leaves the limiter alone. *)
(***************************************************************************)
Admit(method) ==
    /\ CanTake /\ Len(admitted) < MaxAdmitted
    /\ level' = Advance - RefillTime
    /\ last' = now
    /\ admitted' = Append(admitted, now)
    /\ answer' \in Statuses(method)
    /\ UNCHANGED now

Refuse ==
    /\ ~CanTake
    /\ answer' = 429
    /\ UNCHANGED <<now, level, last, admitted>>

LoginHandler(method) == Admit(method) \/ Refuse

LimiterTimePasses ==
    /\ now < MaxNow
    /\ now' = now + 1
    /\ answer' = 0
    /\ UNCHANGED <<level, last, admitted>>

(* The process starts again; the bucket is package state and not kept. *)
LimiterRestart ==
    /\ level' = Full /\ last' = now
    /\ admitted' = <<>> /\ answer' = 0
    /\ UNCHANGED now

LimiterNext == (\E method \in {"GET", "POST"} : LoginHandler(method)) \/ LimiterTimePasses \/ LimiterRestart

LimiterSpec == LimiterInit /\ [][LimiterNext]_limiterVars

-----------------------------------------------------------------------------
(* The level never leaves the bucket: no token is owed (handler/auth.go:19). *)
TypeOK ==
    /\ now \in Nat /\ last \in Nat /\ last <= now
    /\ level \in 0 .. Full
    /\ admitted \in Seq(Nat)
    /\ answer \in {0, 200, 400, 401, 405, 415, 429, 500}

(* A run of requests, by their times, that a bucket of this size and rate  *)
(* may let through: no part of it takes more than the burst and what       *)
(* accrued meanwhile.                                                      *)
Conforms(times) ==
    \A i, j \in 1 .. Len(times) :
        i <= j => (j - i + 1) * RefillTime <= Full + (times[j] - times[i])

(* However requests are timed, and however long the limiter went without   *)
(* being asked, no stretch of a run of the process lets through more than  *)
(* the burst and what accrued over it (handler/auth.go:19, :40).           *)
WindowBound == Conforms(admitted)

(* No request is turned away that the bound would still allow: 429 is      *)
(* answered only at the limit (handler/auth.go:40-43).                     *)
RefusedOnlyAtTheLimit == answer = 429 => ~Conforms(Append(admitted, now))
=============================================================================
