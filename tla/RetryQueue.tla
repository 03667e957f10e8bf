----------------------------- MODULE RetryQueue -----------------------------
(***************************************************************************)
(* The retry queue of policy-engine/examples/retry-queue.rs.  One thread   *)
(* runs the jobs in turn; a job that fails goes to the back of the queue   *)
(* with one attempt more, or to the dead letters.  The dead letters are    *)
(* behind a mutex and another thread may drain them at any time.  Whether  *)
(* an attempt succeeds is left open; delays are computed but not waited    *)
(* for.                                                                    *)
(***************************************************************************)
EXTENDS Integers, Sequences, FiniteSets, FiniteSetsExt

CONSTANTS
    NumJobs,        \* the jobs handed to run
    MostRetries     \* bound on max_retries

ASSUME RetryAssumption == NumJobs \in Nat /\ MostRetries \in Nat

RetryJobs == 1 .. NumJobs

VARIABLES
    maxRetries,     \* max_retries, which may be 0
    queue,          \* jobs with the attempts they have behind them
    deadLetters,    \* jobs with the number of their attempts
    drained,        \* history: what drain_dead_letters has handed out
    succeeded, failed, dead,    \* the counters of the report
    tries,          \* history: how often each job was run
    won             \* history: the jobs that succeeded

retryVars == <<maxRetries, queue, deadLetters, drained, succeeded, failed, dead, tries, won>>

First == Head(queue)

(* The front job is taken and job_fn called. *)
Take ==
    /\ queue # <<>>
    /\ tries' = [tries EXCEPT ![First.job] = @ + 1]
    /\ UNCHANGED <<maxRetries, drained>>

Succeed ==
    /\ Take
    /\ queue' = Tail(queue)
    /\ succeeded' = succeeded + 1
    /\ won' = won \cup {First.job}
    /\ UNCHANGED <<deadLetters, failed, dead>>

GivesUpLate(attempt) == attempt >= maxRetries           \* mutant: a try too many
GivesUp(attempt) == attempt + 1 >= maxRetries

RequeueUncounted == Append(Tail(queue), First)          \* mutant
Requeue == Append(Tail(queue), [job |-> First.job, attempt |-> First.attempt + 1])

FailAndRetry ==
    /\ Take /\ ~GivesUp(First.attempt)
    /\ queue' = Requeue
    /\ failed' = failed + 1
    /\ UNCHANGED <<deadLetters, succeeded, dead, won>>

FailForGood ==
    /\ Take /\ GivesUp(First.attempt)
    /\ queue' = Tail(queue)
    /\ failed' = failed + 1
    /\ deadLetters' = Append(deadLetters, [job |-> First.job, attempts |-> First.attempt + 1])
    /\ dead' = dead + 1
    /\ UNCHANGED <<succeeded, won>>

(* drain_dead_letters; the mutant hands out a copy. *)
DrainCopies ==
    /\ deadLetters # <<>> /\ Len(drained) < NumJobs
    /\ drained' = drained \o deadLetters
    /\ UNCHANGED <<maxRetries, queue, deadLetters, succeeded, failed, dead, tries, won>>

Drain ==
    /\ deadLetters # <<>>
    /\ drained' = drained \o deadLetters
    /\ deadLetters' = <<>>
    /\ UNCHANGED <<maxRetries, queue, succeeded, failed, dead, tries, won>>

RetryInit ==
    /\ maxRetries \in 0 .. MostRetries
    /\ queue = [j \in RetryJobs |-> [job |-> j, attempt |-> 0]]
    /\ deadLetters = <<>> /\ drained = <<>>
    /\ succeeded = 0 /\ failed = 0 /\ dead = 0
    /\ tries = [j \in RetryJobs |-> 0] /\ won = {}

RetryNext == Succeed \/ FailAndRetry \/ FailForGood \/ Drain

RetrySpec == RetryInit /\ [][RetryNext]_retryVars

-----------------------------------------------------------------------------
MostTries == Max({1, maxRetries})

In(j, s) == Cardinality({i \in DOMAIN s : s[i].job = j})

(* Each job is waiting, won, or among the dead letters, and in one of      *)
(* these places only, whenever they are drained; the report counts the     *)
(* jobs that were won and given up (retry-queue.rs:68-117, :120-122).      *)
JobsAreAccounted ==
    /\ \A j \in RetryJobs : In(j, queue) + In(j, deadLetters) + In(j, drained)
                         + (IF j \in won THEN 1 ELSE 0) = 1
    /\ dead = Len(deadLetters) + Len(drained)
    /\ succeeded = Cardinality(won)

(* A job is given up only after max_retries tries, and after one if that   *)
(* is 0; the letter says how many there were (retry-queue.rs:86-99).       *)
DeadAfterAllTries ==
    \A s \in {deadLetters, drained} : \A i \in DOMAIN s :
        /\ s[i].attempts = tries[s[i].job]
        /\ s[i].attempts = MostTries

(* No job is tried more often than that, so run returns even if every      *)
(* attempt fails (retry-queue.rs:73, :111).                                *)
TriesAreBounded == \A j \in RetryJobs : tries[j] <= MostTries
=============================================================================
