----------------------------- MODULE WorkQueue -----------------------------
(***************************************************************************)
(* Worker threads that share the receiving end of a channel behind a       *)
(* mutex, as in policy-engine/examples: the ThreadPool of thread-pool.rs   *)
(* and, with a bounded channel, the producer and workers of fan-out.rs.    *)
(* A worker holds the mutex while it waits in recv, and not while it runs  *)
(* a job.  A job that panics unwinds its thread; when the last worker is   *)
(* gone the receiver is dropped, with whatever is still in the channel,    *)
(* and send fails.                                                         *)
(***************************************************************************)
EXTENDS Integers, Sequences, FiniteSets

CONSTANTS
    Workers,
    Jobs,           \* what the owner of the pool submits, in some order
    Panicking,      \* the jobs that may panic
    Capacities      \* what the channel may hold

ASSUME JobsAssumption == Panicking \subseteq Jobs /\ Capacities \subseteq Nat \ {0}
ASSUME FiniteAssumption == IsFiniteSet(Workers) /\ IsFiniteSet(Jobs)

Nobody == "nobody"
ASSUME NamesOfThreadsAssumption ==
    Nobody \notin Workers /\ Jobs \cap {"loop", "exited", "panicked"} = {}

VARIABLES
    capacity,   \* of the channel; one that holds all jobs is unbounded
    channel,
    senderOpen,
    mutex,      \* the worker that holds it, Nobody if none does
    worker,     \* of each worker: "loop", "exited", "panicked" or the job it runs
    owner,      \* "submit", "join" or "done"
    submitted,  \* the jobs execute has sent
    ran         \* history: how often each job was run

poolVars == <<capacity, channel, senderOpen, mutex, worker, owner, submitted, ran>>

Gone == {w \in Workers : worker[w] \in {"exited", "panicked"}}
ReceiverDropped == Gone = Workers

-----------------------------------------------------------------------------
(* ThreadPool::execute, or the producer's loop. *)
Execute(j) ==
    /\ owner = "submit" /\ j \notin submitted /\ ~ReceiverDropped
    /\ Len(channel) < capacity
    /\ channel' = Append(channel, j)
    /\ submitted' = submitted \cup {j}
    /\ UNCHANGED <<capacity, senderOpen, mutex, worker, owner, ran>>

(* send().unwrap() panics, and unwinding drops the pool. *)
ExecuteFails ==
    /\ owner = "submit" /\ submitted # Jobs /\ ReceiverDropped
    /\ senderOpen' = FALSE
    /\ owner' = "join"
    /\ UNCHANGED <<capacity, channel, mutex, worker, submitted, ran>>

(* Drop: the sender goes first. *)
DropPoolKeepsSender ==                          \* mutant: it does not
    /\ owner = "submit" /\ submitted = Jobs
    /\ owner' = "join"
    /\ UNCHANGED <<capacity, channel, senderOpen, mutex, worker, submitted, ran>>

DropPool ==
    /\ owner = "submit" /\ submitted = Jobs
    /\ senderOpen' = FALSE
    /\ owner' = "join"
    /\ UNCHANGED <<capacity, channel, mutex, worker, submitted, ran>>

(* What join returns is thrown away. *)
JoinAll ==
    /\ owner = "join" /\ Gone = Workers
    /\ owner' = "done"
    /\ UNCHANGED <<capacity, channel, senderOpen, mutex, worker, submitted, ran>>

-----------------------------------------------------------------------------
Lock(w) ==
    /\ worker[w] = "loop" /\ mutex = Nobody
    /\ mutex' = w
    /\ UNCHANGED <<capacity, channel, senderOpen, worker, owner, submitted, ran>>

(* mutant: the job stays in the channel. *)
RecvPeeks(w) ==
    /\ mutex = w /\ channel # <<>>
    /\ worker' = [worker EXCEPT ![w] = Head(channel)]
    /\ mutex' = Nobody
    /\ UNCHANGED <<capacity, channel, senderOpen, owner, submitted, ran>>

Recv(w) ==
    /\ mutex = w /\ channel # <<>>
    /\ worker' = [worker EXCEPT ![w] = Head(channel)]
    /\ channel' = Tail(channel)
    /\ mutex' = Nobody
    /\ UNCHANGED <<capacity, senderOpen, owner, submitted, ran>>

(* mutant: jobs still in the channel do not count. *)
IsClosedAtOnce == ~senderOpen
IsClosed == ~senderOpen /\ channel = <<>>

RecvFails(w) ==
    /\ mutex = w /\ IsClosed
    /\ worker' = [worker EXCEPT ![w] = "exited"]
    /\ mutex' = Nobody
    /\ UNCHANGED <<capacity, channel, senderOpen, owner, submitted, ran>>

RunJob(w, j) ==
    /\ worker[w] = j
    /\ ran' = [ran EXCEPT ![j] = @ + 1]
    /\ worker' = [worker EXCEPT ![w] = "loop"]
    /\ UNCHANGED <<capacity, channel, senderOpen, mutex, owner, submitted>>

(* The thread unwinds; the last worker to do so takes the receiver along.  *)
(* The work of fan-out.rs, behind its bounded channel, does not panic.     *)
JobPanics(w, j) ==
    /\ worker[w] = j /\ j \in Panicking /\ capacity >= Cardinality(Jobs)
    /\ ran' = [ran EXCEPT ![j] = @ + 1]
    /\ worker' = [worker EXCEPT ![w] = "panicked"]
    /\ channel' = IF Gone \cup {w} = Workers THEN <<>> ELSE channel
    /\ UNCHANGED <<capacity, senderOpen, mutex, owner, submitted>>

PoolInit ==
    /\ capacity \in Capacities
    /\ channel = <<>> /\ senderOpen = TRUE /\ mutex = Nobody
    /\ worker = [w \in Workers |-> "loop"]
    /\ owner = "submit" /\ submitted = {}
    /\ ran = [j \in Jobs |-> 0]

Owner == (\E j \in Jobs : Execute(j)) \/ ExecuteFails \/ DropPool \/ JoinAll

Work(w) == Lock(w) \/ Recv(w) \/ RecvFails(w) \/ \E j \in Jobs : RunJob(w, j) \/ JobPanics(w, j)

PoolNext == Owner \/ \E w \in Workers : Work(w)

PoolSpec == PoolInit /\ [][PoolNext]_poolVars

-----------------------------------------------------------------------------
Places(j) ==
    Cardinality({i \in DOMAIN channel : channel[i] = j})
      + Cardinality({w \in Workers : worker[w] = j}) + ran[j]

(* A job that was submitted is in exactly one place: waiting, being run or *)
(* done.  None runs twice, and none is lost before panics have taken the   *)
(* last worker (thread-pool.rs:53-61, fan-out.rs:139-142).                 *)
JobsAreConserved ==
    \A j \in Jobs :
        /\ j \notin submitted => Places(j) = 0
        /\ j \in submitted => Places(j) = 1 \/ (Places(j) = 0 /\ ReceiverDropped)

(* Dropping the pool finishes what was submitted: when it returns every    *)
(* job has run, unless panics left no worker (thread-pool.rs:86-98).       *)
DropFinishesJobs ==
    owner = "done" =>
        \/ \A j \in submitted : ran[j] = 1
        \/ \A w \in Workers : worker[w] = "panicked"

(* Who cannot go on: the owner in send on a full channel or in join, a     *)
(* worker that is gone, in lock, or in recv on an empty and open channel.  *)
OwnerWaits ==
    \/ owner = "submit" /\ submitted # Jobs /\ ~ReceiverDropped /\ Len(channel) >= capacity
    \/ owner = "join" /\ Gone # Workers

WorkerWaits(w) ==
    \/ w \in Gone
    \/ worker[w] = "loop" /\ mutex \notin {w, Nobody}
    \/ mutex = w /\ channel = <<>> /\ senderOpen

(* Until the owner is done they never all wait for each other: the owner   *)
(* for room or for the workers, these for the mutex, and the one that has  *)
(* it for the owner (thread-pool.rs:54-60, :89-97, fan-out.rs:139-142,     *)
(* :160-168).                                                              *)
NoDeadlock == owner # "done" => ~(OwnerWaits /\ \A w \in Workers : WorkerWaits(w))

(* A bound on the steps that are left: a job has to be sent, received and  *)
(* run, each after somebody locked the mutex, and a worker has to leave.   *)
StepsLeft ==
    4 * Cardinality(Jobs \ submitted) + 3 * Len(channel)
      + Cardinality({w \in Workers : worker[w] \in Jobs})
      + 2 * Cardinality(Workers \ Gone) + (IF mutex = Nobody THEN 1 ELSE 0)
      + (CASE owner = "submit" -> 2 [] owner = "join" -> 1 [] OTHER -> 0)

(* Every step of a thread uses some of it up, so no schedule keeps the     *)
(* pool busy for ever: workers cannot pass the mutex round in vain         *)
(* (thread-pool.rs:53-61, fan-out.rs:139-153).                             *)
EveryStepCounts == [][StepsLeft' \in 0 .. StepsLeft - 1]_poolVars
=============================================================================
