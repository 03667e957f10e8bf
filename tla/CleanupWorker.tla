--------------------------- MODULE CleanupWorker ---------------------------
(***************************************************************************)
(* The cleanup goroutine of the auth-service (internal/worker/cleanup.go)  *)
(* and the rows it looks at.  A scan lists all users in one query and then *)
(* goes through the copies; handlers and time move on meanwhile.  The      *)
(* select takes either branch that is ready.  time.Ticker is modelled by   *)
(* its contract: a channel for one tick, further ticks being dropped while *)
(* it is full.                                                             *)
(***************************************************************************)
EXTENDS Integers

CONSTANTS
    Users, Sessions,
    StaleAfter,     \* the age, 24 h in the code, from which an account is stale
    SessionTTL,
    MaxClock, MaxFailures       \* bounds of the explored behaviours

ASSUME AgesAssumption == StaleAfter \in Nat /\ SessionTTL \in Nat

VARIABLES
    clock,
    updatedAt,  \* of each account, None if there is no such account
    expiresAt,  \* of each session, None if there is no such row
    tick,       \* TRUE iff ticker.C holds a tick
    done,       \* TRUE iff the channel of main, workerDone, is closed
    worker,     \* where the goroutine is
    users,      \* the copies the scan has yet to go through
    listedAt,   \* history: when the last scan listed them
    reported,   \* the copies that were logged as stale
    failures    \* how often ListUsers has failed on an open store

rowVars == <<updatedAt, expiresAt>>
scanVars == <<users, listedAt, reported>>
workerVars == <<clock, updatedAt, expiresAt, tick, done, worker, users, listedAt, reported, failures>>

None == -1
Copy(u) == [user |-> u, updatedAt |-> updatedAt[u]]
IsStale(u) == updatedAt[u] # None /\ clock - updatedAt[u] > StaleAfter
IsExpired(s) == expiresAt[s] # None /\ clock > expiresAt[s]

-----------------------------------------------------------------------------
(* The goroutine. *)

NewTicker ==
    /\ worker = "starting"
    /\ worker' = "select"
    /\ UNCHANGED <<clock, rowVars, tick, done, scanVars, failures>>

TickerFires ==
    /\ worker \in {"select", "list", "report"} /\ ~tick
    /\ tick' = TRUE
    /\ UNCHANGED <<clock, rowVars, done, worker, scanVars, failures>>

BeginScan ==
    /\ worker = "select" /\ tick
    /\ tick' = FALSE
    /\ worker' = "list"
    /\ UNCHANGED <<clock, rowVars, done, scanVars, failures>>

(* ListUsers returns an error, as it always does once the store is closed. *)
ListError(isOpen) ==
    IF isOpen THEN failures < MaxFailures /\ failures' = failures + 1
              ELSE UNCHANGED failures

(* mutant: an error ends the goroutine. *)
ListUsersGivesUp(isOpen) ==
    /\ worker = "list" /\ ListError(isOpen)
    /\ worker' = "stopped"
    /\ UNCHANGED <<clock, rowVars, tick, done, scanVars>>

(* It is logged, and the loop continues. *)
ListUsersFails(isOpen) ==
    /\ worker = "list" /\ ListError(isOpen)
    /\ worker' = "select"
    /\ UNCHANGED <<clock, rowVars, tick, done, scanVars>>

ListUsers(isOpen) ==
    /\ worker = "list" /\ isOpen
    /\ users' = {Copy(u) : u \in {v \in Users : updatedAt[v] # None}}
    /\ listedAt' = clock
    /\ worker' = "report"
    /\ UNCHANGED <<clock, rowVars, tick, done, reported, failures>>

Examine(c) ==
    /\ worker = "report" /\ c \in users
    /\ reported' = IF clock - c.updatedAt > StaleAfter THEN reported \cup {c} ELSE reported
    /\ users' = users \ {c}
    /\ UNCHANGED <<clock, rowVars, tick, done, worker, listedAt, failures>>

(* mutant: the loop may be left before its end. *)
EndScanEarly ==
    /\ worker = "report"
    /\ worker' = "select" /\ users' = {}
    /\ UNCHANGED <<clock, rowVars, tick, done, listedAt, reported, failures>>

EndScan ==
    /\ worker = "report" /\ users = {}
    /\ worker' = "select"
    /\ UNCHANGED <<clock, rowVars, tick, done, scanVars, failures>>

WorkerStops ==
    /\ worker = "select" /\ done
    /\ worker' = "stopped"
    /\ UNCHANGED <<clock, rowVars, tick, done, scanVars, failures>>

Scan(isOpen) ==
    \/ BeginScan \/ ListUsers(isOpen) \/ ListUsersFails(isOpen)
    \/ (\E c \in users : Examine(c)) \/ EndScan

-----------------------------------------------------------------------------
(* What handlers write, and time. *)

WriteUser(u, t) ==
    /\ updatedAt' = [updatedAt EXCEPT ![u] = t]
    /\ UNCHANGED <<clock, expiresAt, tick, done, worker, scanVars, failures>>

WriteSession(s, t) ==
    /\ expiresAt' = [expiresAt EXCEPT ![s] = t]
    /\ UNCHANGED <<clock, updatedAt, tick, done, worker, scanVars, failures>>

TimePasses ==
    /\ clock < MaxClock
    /\ clock' = clock + 1
    /\ UNCHANGED <<rowVars, tick, done, worker, scanVars, failures>>

(* The rows are those an earlier run of the process left. *)
WorkerInit ==
    /\ clock = 0
    /\ updatedAt \in [Users -> {0, None}] /\ expiresAt \in [Sessions -> {SessionTTL, None}]
    /\ tick = FALSE /\ done = FALSE
    /\ worker = "none" /\ users = {} /\ listedAt = 0
    /\ reported = {} /\ failures = 0

-----------------------------------------------------------------------------
(* A scan overlooks no account that was stale when it listed them and has  *)
(* not been written since: it is reported or the loop has yet to come to   *)
(* it.  And only accounts that are stale are reported                      *)
(* (worker/cleanup.go:32-42).                                              *)
ReportsAreRight ==
    /\ \A u \in Users : updatedAt[u] # None /\ listedAt - updatedAt[u] > StaleAfter =>
          Copy(u) \in reported \/ (worker = "report" /\ Copy(u) \in users)
    /\ \A c \in reported : clock - c.updatedAt > StaleAfter
=============================================================================
