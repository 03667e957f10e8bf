---------------------------- MODULE QueueProofs ----------------------------
(***************************************************************************)
(* Proofs about the two queues of the example programs, for any number of  *)
(* workers, jobs and retries.                                              *)
(*                                                                         *)
(* Both properties of conservation count the places a job is in.  The      *)
(* invariants say the same without counting: the holders of a job are      *)
(* unique and exclude each other, so that every count is that of a set     *)
(* with at most one element.                                               *)
(***************************************************************************)
EXTENDS WorkQueue, RetryQueue, FiniteSetTheorems, TLAPS

USE JobsAssumption, NamesOfThreadsAssumption, RetryAssumption

(* A set without two elements. *)
LEMMA AtMostOne ==
    ASSUME NEW S, \A x, y \in S : x = y
    PROVE  Cardinality(S) = IF S = {} THEN 0 ELSE 1
<1>1. CASE S = {}
  BY <1>1, FS_EmptySet
<1>2. CASE S # {}
  <2>1. PICK x : S = {x}
    BY <1>2
  <2> QED
    BY <1>2, <2>1, FS_Singleton
<1> QED
  BY <1>1, <1>2

(* Taking the front off a sequence, and putting something at its back. *)
LEMMA HeadAndTail ==
    ASSUME NEW T, NEW s \in Seq(T), s # <<>>
    PROVE  /\ Len(s) \in Nat /\ Len(s) >= 1 /\ 1 \in DOMAIN s /\ DOMAIN s = 1..Len(s)
           /\ Head(s) = s[1] /\ Head(s) \in T
           /\ Tail(s) \in Seq(T) /\ Len(Tail(s)) = Len(s) - 1
           /\ DOMAIN Tail(s) = 1..(Len(s) - 1)
           /\ \A i \in DOMAIN Tail(s) : i + 1 \in DOMAIN s /\ Tail(s)[i] = s[i + 1]
  OBVIOUS

LEMMA AtTheBack ==
    ASSUME NEW T, NEW s \in Seq(T), NEW x \in T
    PROVE  /\ Append(s, x) \in Seq(T) /\ Len(s) \in Nat
           /\ DOMAIN s = 1..Len(s) /\ DOMAIN Append(s, x) = 1..(Len(s) + 1)
           /\ Len(Append(s, x)) = Len(s) + 1
           /\ \A i \in DOMAIN s : Append(s, x)[i] = s[i]
           /\ Append(s, x)[Len(s) + 1] = x
  OBVIOUS

-----------------------------------------------------------------------------
(* The pool of workers. *)

PoolTypeOK ==
    /\ channel \in Seq(Jobs)
    /\ senderOpen \in BOOLEAN
    /\ mutex \in Workers \cup {Nobody}
    /\ worker \in [Workers -> Jobs \cup {"loop", "exited", "panicked"}]
    /\ owner \in {"submit", "join", "done"}
    /\ submitted \subseteq Jobs
    /\ ran \in [Jobs -> {0, 1}]

(* Where a job may be. *)
Waits(j) == \E i \in DOMAIN channel : channel[i] = j
Runs(j) == \E w \in Workers : worker[w] = j
AllPanicked == \A w \in Workers : worker[w] = "panicked"

(* It is in one place at most, and only when it was submitted. *)
OnePlace ==
    /\ \A i, k \in DOMAIN channel : channel[i] = channel[k] => i = k
    /\ \A v, w \in Workers : worker[v] = worker[w] /\ worker[v] \in Jobs => v = w
    /\ \A j \in Jobs : /\ Waits(j) => ~Runs(j) /\ ran[j] = 0
                       /\ Runs(j) => ran[j] = 0
                       /\ Waits(j) \/ Runs(j) \/ ran[j] = 1 => j \in submitted

(* Jobs are lost when no worker is left, and every one of them panicked: a *)
(* worker that left its loop found the channel closed and empty.           *)
NoneLost == \A j \in submitted : Waits(j) \/ Runs(j) \/ ran[j] = 1 \/ AllPanicked

Lifecycle ==
    /\ \A w \in Workers : mutex = w => worker[w] = "loop"
    /\ \A w \in Workers : worker[w] = "exited" => ~senderOpen /\ channel = <<>>
    /\ owner = "submit" <=> senderOpen
    /\ owner = "done" => Gone = Workers

PoolInv == PoolTypeOK /\ OnePlace /\ NoneLost /\ Lifecycle

LEMMA PoolInvInit == PoolInit => PoolInv
  BY DEF PoolInit, PoolInv, PoolTypeOK, OnePlace, NoneLost, Lifecycle, Waits, Runs

(* Steps that leave the jobs where they are. *)
LEMMA JobsStay ==
    ASSUME OnePlace, NoneLost, submitted \subseteq Jobs,
           UNCHANGED <<channel, submitted, ran>>,
           \A w \in Workers : /\ worker'[w] \in Jobs \/ worker[w] \in Jobs => worker'[w] = worker[w]
                              /\ worker[w] = "panicked" => worker'[w] = "panicked"
    PROVE  OnePlace' /\ NoneLost'
<1>1. \A j \in Jobs : (Waits(j)' <=> Waits(j)) /\ (Runs(j)' <=> Runs(j))
  BY DEF Waits, Runs
<1>2. OnePlace'
  BY <1>1 DEF OnePlace
<1>3. AllPanicked => AllPanicked'
  BY DEF AllPanicked
<1> QED
  BY <1>1, <1>2, <1>3 DEF NoneLost, OnePlace

(* The owner sends a job: nobody had it. *)
LEMMA ExecuteKeeps ==
    ASSUME PoolInv, NEW j \in Jobs, Execute(j)
    PROVE  PoolInv'
<1>1. /\ channel \in Seq(Jobs) /\ submitted \subseteq Jobs
      /\ channel' = Append(channel, j) /\ submitted' = submitted \cup {j} /\ j \notin submitted
      /\ UNCHANGED <<senderOpen, mutex, worker, owner, ran>>
      /\ senderOpen /\ ~AllPanicked
  BY DEF Execute, PoolInv, PoolTypeOK, Lifecycle, ReceiverDropped, Gone, AllPanicked
<1>2. PoolTypeOK'
  BY <1>1 DEF PoolInv, PoolTypeOK
<1>3. Lifecycle'
  BY <1>1 DEF PoolInv, Lifecycle, Gone
<1>4. /\ \A k \in Jobs : Waits(k)' <=> Waits(k) \/ k = j
      /\ \A k \in Jobs : Runs(k)' <=> Runs(k)
  BY <1>1, AtTheBack DEF Waits, Runs
<1>5. ~Waits(j) /\ ~Runs(j) /\ ran[j] = 0
  BY <1>1 DEF PoolInv, OnePlace, PoolTypeOK
<1>6. \A i, k \in DOMAIN channel' : channel'[i] = channel'[k] => i = k
  BY <1>1, <1>5, AtTheBack DEF PoolInv, OnePlace, Waits
<1>7. OnePlace'
  BY <1>1, <1>4, <1>5, <1>6 DEF PoolInv, OnePlace
<1>8. NoneLost'
  BY <1>1, <1>4 DEF PoolInv, NoneLost
<1> QED
  BY <1>2, <1>3, <1>7, <1>8 DEF PoolInv

(* A worker takes the job at the front. *)
LEMMA RecvKeeps ==
    ASSUME PoolInv, NEW w \in Workers, Recv(w)
    PROVE  PoolInv'
<1>0. PICK j \in Jobs : j = channel[1]
  BY HeadAndTail DEF Recv, PoolInv, PoolTypeOK
<1>1. /\ channel \in Seq(Jobs) /\ channel # <<>> /\ j = channel[1] /\ submitted \subseteq Jobs
      /\ channel' = Tail(channel) /\ mutex' = Nobody /\ worker[w] = "loop"
      /\ \A v \in Workers : worker'[v] = IF v = w THEN j ELSE worker[v]
      /\ worker' \in [Workers -> Jobs \cup {"loop", "exited", "panicked"}]
      /\ UNCHANGED <<senderOpen, owner, submitted, ran>>
  BY <1>0, HeadAndTail DEF Recv, PoolInv, PoolTypeOK, Lifecycle
<1>2. PoolTypeOK'
  BY <1>1, HeadAndTail DEF PoolInv, PoolTypeOK
<1>3. Lifecycle'
  <2>1. ~(\E v \in Workers : worker[v] = "exited") /\ Gone # Workers
    BY <1>1 DEF PoolInv, Lifecycle, Gone
  <2>2. ~(\E v \in Workers : worker'[v] = "exited") /\ owner # "done"
    BY <1>1, <2>1 DEF PoolInv, Lifecycle
  <2> QED
    BY <1>1, <2>2 DEF PoolInv, Lifecycle
<1>4. /\ Waits(j) /\ \A k \in Jobs : Waits(k) <=> Waits(k)' \/ k = j
      /\ ~Waits(j)'
  <2>1. \A k \in Jobs : Waits(k) <=> k = channel[1] \/ \E i \in DOMAIN Tail(channel) : Tail(channel)[i] = k
    <3>1. \A i \in DOMAIN channel : i = 1 \/ i - 1 \in DOMAIN Tail(channel)
      BY <1>1, HeadAndTail
    <3> QED
      BY <1>1, <3>1, HeadAndTail DEF Waits
  <2>2. \A i \in DOMAIN Tail(channel) : Tail(channel)[i] # channel[1]
    BY <1>1, HeadAndTail DEF PoolInv, OnePlace
  <2> QED
    BY <1>1, <2>1, <2>2 DEF Waits
<1>5. /\ ~Runs(j) /\ ran[j] = 0 /\ j \in submitted
      /\ \A k \in Jobs : Runs(k)' <=> Runs(k) \/ k = j
  BY <1>1, <1>4 DEF PoolInv, OnePlace, Runs
<1>6. \A i, k \in DOMAIN channel' : channel'[i] = channel'[k] => i = k
  <2>1. \A i, k \in DOMAIN Tail(channel) : i + 1 = k + 1 => i = k
    BY <1>1, HeadAndTail
  <2> QED
    BY <1>1, <2>1, HeadAndTail DEF PoolInv, OnePlace
<1>7. \A v, u \in Workers : worker'[v] = worker'[u] /\ worker'[v] \in Jobs => v = u
  BY <1>1, <1>5 DEF PoolInv, OnePlace, Runs
<1>8. OnePlace'
  BY <1>1, <1>4, <1>5, <1>6, <1>7 DEF PoolInv, OnePlace
<1>9. NoneLost'
  <2>1. ~AllPanicked
    BY <1>1 DEF AllPanicked
  <2> QED
    BY <1>1, <1>4, <1>5, <2>1 DEF PoolInv, NoneLost
<1> QED
  BY <1>2, <1>3, <1>8, <1>9 DEF PoolInv

(* A job ends, and its worker goes on or unwinds. *)
JobEnds(w, j, next) ==
    /\ worker[w] = j
    /\ ran' = [ran EXCEPT ![j] = @ + 1]
    /\ worker' = [worker EXCEPT ![w] = next]
    /\ UNCHANGED <<capacity, senderOpen, mutex, owner, submitted>>

LEMMA JobEndsKeeps ==
    ASSUME PoolInv, NEW w \in Workers, NEW j \in Jobs, NEW next \in {"loop", "panicked"},
           JobEnds(w, j, next),
           channel' = channel \/ (channel' = <<>> /\ Gone \cup {w} = Workers /\ next = "panicked")
    PROVE  PoolInv'
<1>0. /\ worker[w] = j /\ Runs(j) /\ ran[j] = 0 /\ ~Waits(j)
      /\ next \notin Jobs /\ next # "exited" /\ j \notin {"loop", "exited", "panicked"}
  BY DEF JobEnds, PoolInv, OnePlace, Runs
<1>a. /\ channel \in Seq(Jobs) /\ channel' \in Seq(Jobs) /\ submitted \subseteq Jobs
      /\ UNCHANGED <<senderOpen, mutex, owner, submitted>>
  <2>1. channel \in Seq(Jobs) /\ submitted \subseteq Jobs
    BY DEF PoolInv, PoolTypeOK
  <2>2. <<>> \in Seq(Jobs)
    OBVIOUS
  <2> QED
    BY <2>1, <2>2 DEF JobEnds
<1>b. /\ \A k \in Jobs : ran'[k] = IF k = j THEN 1 ELSE ran[k]
      /\ ran' \in [Jobs -> {0, 1}]
  BY <1>0 DEF JobEnds, PoolInv, PoolTypeOK
<1>c. /\ \A v \in Workers : worker'[v] = IF v = w THEN next ELSE worker[v]
      /\ worker' \in [Workers -> Jobs \cup {"loop", "exited", "panicked"}]
  BY DEF JobEnds, PoolInv, PoolTypeOK
<1>2. PoolTypeOK'
  BY <1>0, <1>a, <1>b, <1>c DEF PoolInv, PoolTypeOK
<1>3. Lifecycle'
  BY <1>0, <1>a, <1>b, <1>c DEF PoolInv, Lifecycle, Gone
<1>4. /\ \A k \in Jobs : Runs(k)' <=> Runs(k) /\ k # j
      /\ \A k \in Jobs : Waits(k)' => Waits(k)
  BY <1>0, <1>a, <1>b, <1>c DEF PoolInv, OnePlace, Runs, Waits
<1>5. /\ \A i, k \in DOMAIN channel' : channel'[i] = channel'[k] => i = k
      /\ \A v, u \in Workers : worker'[v] = worker'[u] /\ worker'[v] \in Jobs => v = u
  BY <1>0, <1>a, <1>b, <1>c DEF PoolInv, OnePlace
<1>6. OnePlace'
  BY <1>0, <1>a, <1>b, <1>c, <1>4, <1>5 DEF PoolInv, OnePlace
<1>7. NoneLost'
  <2>1. ~AllPanicked
    BY <1>0, <1>a, <1>b, <1>c DEF AllPanicked
  <2>2. CASE channel' = channel
    <3>1. \A k \in Jobs : Waits(k)' <=> Waits(k)
      BY <2>2 DEF Waits
    <3> QED
      BY <1>0, <1>a, <1>b, <1>c, <1>4, <2>1, <3>1 DEF PoolInv, NoneLost
  <2>3. CASE channel' = <<>> /\ channel # <<>> /\ Gone \cup {w} = Workers /\ next = "panicked"
    <3>1. \A v \in Workers : worker[v] # "exited"
      BY <2>3 DEF PoolInv, Lifecycle
    <3>2. AllPanicked'
      BY <1>0, <1>a, <1>b, <1>c, <2>3, <3>1 DEF AllPanicked, Gone
    <3> QED
      BY <3>2 DEF NoneLost
  <2> QED
    BY <2>2, <2>3
<1> QED
  BY <1>2, <1>3, <1>6, <1>7 DEF PoolInv

LEMMA PoolInvStep == PoolInv /\ [PoolNext]_poolVars => PoolInv'
<1> SUFFICES ASSUME PoolInv, [PoolNext]_poolVars PROVE PoolInv'
  OBVIOUS
<1>0. PoolTypeOK /\ OnePlace /\ NoneLost /\ Lifecycle /\ submitted \subseteq Jobs
  BY DEF PoolInv, PoolTypeOK
<1>1. ASSUME NEW j \in Jobs, Execute(j) PROVE PoolInv'
  BY <1>1, ExecuteKeeps
<1>2. CASE ExecuteFails \/ DropPool \/ JoinAll
  <2>1. OnePlace' /\ NoneLost'
    BY <1>0, <1>2, JobsStay DEF ExecuteFails, DropPool, JoinAll
  <2>2. PoolTypeOK'
    BY <1>0, <1>2 DEF ExecuteFails, DropPool, JoinAll, PoolTypeOK
  <2>3. Lifecycle'
    BY <1>0, <1>2 DEF ExecuteFails, DropPool, JoinAll, Lifecycle, Gone
  <2> QED
    BY <2>1, <2>2, <2>3 DEF PoolInv
<1>3. ASSUME NEW w \in Workers, Lock(w) PROVE PoolInv'
  <2>1. OnePlace' /\ NoneLost'
    BY <1>0, <1>3, JobsStay DEF Lock
  <2> QED
    BY <1>0, <1>3, <2>1 DEF Lock, PoolInv, PoolTypeOK, Lifecycle, Gone
<1>4. ASSUME NEW w \in Workers, Recv(w) PROVE PoolInv'
  BY <1>4, RecvKeeps
<1>5. ASSUME NEW w \in Workers, RecvFails(w) PROVE PoolInv'
  <2>1. /\ worker[w] = "loop" /\ ~senderOpen /\ channel = <<>> /\ mutex' = Nobody
        /\ \A v \in Workers : worker'[v] = IF v = w THEN "exited" ELSE worker[v]
        /\ worker' \in [Workers -> Jobs \cup {"loop", "exited", "panicked"}]
        /\ UNCHANGED <<channel, senderOpen, owner, submitted, ran>>
    BY <1>0, <1>5 DEF RecvFails, IsClosed, PoolTypeOK, Lifecycle
  <2>2. OnePlace' /\ NoneLost'
    BY <1>0, <2>1, JobsStay
  <2>3. PoolTypeOK'
    BY <1>0, <2>1 DEF PoolTypeOK
  <2>4. Lifecycle'
    BY <1>0, <2>1 DEF Lifecycle, Gone
  <2> QED
    BY <2>2, <2>3, <2>4 DEF PoolInv
<1>6. ASSUME NEW w \in Workers, NEW j \in Jobs, RunJob(w, j) PROVE PoolInv'
  BY <1>6, JobEndsKeeps DEF RunJob, JobEnds
<1>7. ASSUME NEW w \in Workers, NEW j \in Jobs, JobPanics(w, j) PROVE PoolInv'
  <2>1. JobEnds(w, j, "panicked")
    BY <1>7 DEF JobPanics, JobEnds
  <2>2. channel' = channel \/ (channel' = <<>> /\ Gone \cup {w} = Workers)
    BY <1>7 DEF JobPanics
  <2> QED
    BY <2>1, <2>2, JobEndsKeeps
<1>8. CASE UNCHANGED poolVars
  <2>1. OnePlace' /\ NoneLost'
    BY <1>0, <1>8, JobsStay DEF poolVars
  <2> QED
    BY <1>0, <1>8, <2>1 DEF poolVars, PoolInv, PoolTypeOK, Lifecycle, Gone
<1> QED
  BY <1>1, <1>2, <1>3, <1>4, <1>5, <1>6, <1>7, <1>8 DEF PoolNext, Owner, Work

LEMMA PoolInvariant == PoolSpec => []PoolInv
  BY PoolInvInit, PoolInvStep, PTL DEF PoolSpec

-----------------------------------------------------------------------------
(* For any workers and jobs, whichever panic: a job that was submitted is  *)
(* in exactly one place, and none is lost while a worker is left           *)
(* (thread-pool.rs:53-61, fan-out.rs:139-142).                             *)
THEOREM ConservedTheorem == PoolSpec => []JobsAreConserved
<1>1. ASSUME PoolInv PROVE JobsAreConserved
  <2>1. ASSUME NEW j \in Jobs
        PROVE  /\ j \notin submitted => Places(j) = 0
               /\ j \in submitted => Places(j) = 1 \/ (Places(j) = 0 /\ ReceiverDropped)
    <3> DEFINE C == {i \in DOMAIN channel : channel[i] = j}
               W == {w \in Workers : worker[w] = j}
    <3>1. Cardinality(C) = IF Waits(j) THEN 1 ELSE 0
      <4>1. (\A x, y \in C : x = y) /\ (C = {} <=> ~Waits(j))
        BY <1>1 DEF PoolInv, OnePlace, Waits
      <4> HIDE DEF C
      <4> QED
        BY <4>1, AtMostOne
    <3>2. Cardinality(W) = IF Runs(j) THEN 1 ELSE 0
      <4>1. (\A x, y \in W : x = y) /\ (W = {} <=> ~Runs(j))
        BY <1>1 DEF PoolInv, OnePlace, Runs
      <4> HIDE DEF W
      <4> QED
        BY <4>1, AtMostOne
    <3>3. Places(j) = (IF Waits(j) THEN 1 ELSE 0) + (IF Runs(j) THEN 1 ELSE 0) + ran[j]
      BY <3>1, <3>2 DEF Places
    <3>4. ran[j] \in {0, 1}
      BY <1>1 DEF PoolInv, PoolTypeOK
    <3>5. AllPanicked => ReceiverDropped
      BY DEF AllPanicked, ReceiverDropped, Gone
    <3> QED
      BY <1>1, <3>3, <3>4, <3>5 DEF PoolInv, OnePlace, NoneLost
  <2> QED
    BY <2>1 DEF JobsAreConserved
<1> QED
  BY <1>1, PoolInvariant, PTL

(* For any workers and jobs: when the pool has been dropped every job      *)
(* submitted to it has run, unless all its workers panicked                *)
(* (thread-pool.rs:86-98).                                                 *)
THEOREM DropTheorem == PoolSpec => []DropFinishesJobs
<1>1. ASSUME PoolInv, owner = "done"
      PROVE  (\A j \in submitted : ran[j] = 1) \/ AllPanicked
  <2> SUFFICES ASSUME ~AllPanicked, NEW j \in submitted PROVE ran[j] = 1
    OBVIOUS
  <2>1. Gone = Workers /\ j \in Jobs
    BY <1>1 DEF PoolInv, Lifecycle, PoolTypeOK
  <2>2. ~Runs(j)
    BY <2>1 DEF Runs, Gone
  <2>3. channel = <<>>
    BY <1>1, <2>1 DEF AllPanicked, Gone, PoolInv, Lifecycle
  <2> QED
    BY <1>1, <2>2, <2>3 DEF PoolInv, NoneLost, Waits
<1>2. PoolInv => DropFinishesJobs
  BY <1>1 DEF DropFinishesJobs, AllPanicked
<1> QED
  BY <1>2, PoolInvariant, PTL

(* For any workers, jobs and capacities, and as long as the owner is not   *)
(* done, some thread can go on.  Whoever waits waits for the holder of the *)
(* mutex in the end, and the holder waits only in an empty channel whose   *)
(* sender is there: then the owner has room to send, or is not in join     *)
(* (thread-pool.rs:54-60, :89-97, fan-out.rs:139-142, :160-168).           *)
THEOREM DeadlockFreeTheorem == PoolSpec => []NoDeadlock
<1>1. PoolInit => capacity \in Capacities
  BY DEF PoolInit
<1>2. capacity \in Capacities /\ [PoolNext]_poolVars => (capacity \in Capacities)'
  <2>1. [PoolNext]_poolVars => UNCHANGED capacity
    BY DEF PoolNext, Owner, Work, poolVars, Execute, ExecuteFails, DropPool, JoinAll, Lock, Recv,
           RecvFails, RunJob, JobPanics
  <2> QED
    BY <2>1
<1>3. ASSUME PoolInv, capacity \in Capacities, OwnerWaits, \A w \in Workers : WorkerWaits(w)
      PROVE  FALSE
  <2>1. /\ channel \in Seq(Jobs) /\ (owner = "submit" <=> senderOpen)
        /\ \A w \in Workers : mutex = w => worker[w] = "loop"
    BY <1>3 DEF PoolInv, PoolTypeOK, Lifecycle
  <2>2. PICK w \in Workers : w \notin Gone
    BY <1>3 DEF OwnerWaits, ReceiverDropped, Gone
  <2>3. PICK m \in Workers : mutex = m
    BY <1>3, <2>2 DEF WorkerWaits, PoolInv, PoolTypeOK
  <2>4. channel = <<>> /\ senderOpen
    BY <1>3, <2>1, <2>3 DEF WorkerWaits, Gone
  <2>5. Len(channel) = 0 /\ capacity > 0
    BY <1>3, <2>4
  <2> QED
    BY <1>3, <2>1, <2>4, <2>5 DEF OwnerWaits
<1>4. PoolInv /\ capacity \in Capacities => NoDeadlock
  BY <1>3 DEF NoDeadlock
<1> QED
  BY <1>1, <1>2, <1>4, PoolInvariant, PTL DEF PoolSpec

(* What the bound on the steps left is made of. *)
Unsent == Cardinality(Jobs \ submitted)
Busy == Cardinality({w \in Workers : worker[w] \in Jobs})
Staying == Cardinality(Workers \ Gone)
Free == IF mutex = Nobody THEN 1 ELSE 0
Stage == CASE owner = "submit" -> 2 [] owner = "join" -> 1 [] OTHER -> 0

Counts ==
    /\ Unsent \in Nat /\ Len(channel) \in Nat /\ Busy \in Nat /\ Staying \in Nat
    /\ Free \in {0, 1} /\ Stage \in Nat /\ StepsLeft \in Nat
    /\ StepsLeft = 4 * Unsent + 3 * Len(channel) + Busy + 2 * Staying + Free + Stage

LEMMA Counting == PoolInv => Counts
<1> SUFFICES ASSUME PoolInv PROVE Counts
  OBVIOUS
<1>1. Unsent \in Nat
  BY FiniteAssumption, FS_Subset, FS_CardinalityType DEF Unsent
<1>2. Busy \in Nat
  <2>1. {w \in Workers : worker[w] \in Jobs} \in SUBSET Workers
    OBVIOUS
  <2> QED
    BY <2>1, FiniteAssumption, FS_Subset, FS_CardinalityType DEF Busy
<1>3. Staying \in Nat
  BY FiniteAssumption, FS_Subset, FS_CardinalityType DEF Staying
<1>4. Len(channel) \in Nat
  BY DEF PoolInv, PoolTypeOK
<1>5. Free \in {0, 1} /\ Stage \in Nat
  BY DEF Free, Stage
<1>6. StepsLeft = 4 * Unsent + 3 * Len(channel) + Busy + 2 * Staying + Free + Stage
  BY DEF StepsLeft, Unsent, Busy, Staying, Free, Stage
<1>7. StepsLeft \in Nat
  BY <1>1, <1>2, <1>3, <1>4, <1>5, <1>6
<1> QED
  BY <1>1, <1>2, <1>3, <1>4, <1>5, <1>6, <1>7 DEF Counts

(* A set loses one of its elements. *)
LEMMA OneLess ==
    ASSUME NEW S, IsFiniteSet(S), NEW x \in S, NEW T, T = S \ {x}
    PROVE  Cardinality(T) = Cardinality(S) - 1
  BY FS_RemoveElement

(* A worker starts or ends a job, or leaves: what that does to the counts. *)
LEMMA WorkerCounts ==
    ASSUME NEW w \in Workers, NEW next,
           worker' = [worker EXCEPT ![w] = next],
           worker \in [Workers -> Jobs \cup {"loop", "exited", "panicked"}]
    PROVE  /\ worker[w] = "loop" /\ next \in Jobs => Busy' = Busy + 1 /\ Staying' = Staying
           /\ worker[w] \in Jobs /\ next = "loop" => Busy' = Busy - 1 /\ Staying' = Staying
           /\ worker[w] \in Jobs /\ next = "panicked" => Busy' = Busy - 1 /\ Staying' = Staying - 1
           /\ worker[w] = "loop" /\ next = "exited" => Busy' = Busy /\ Staying' = Staying - 1
<1> DEFINE B == {v \in Workers : worker[v] \in Jobs}
           S == Workers \ Gone
<1>0. \A v \in Workers : worker'[v] = IF v = w THEN next ELSE worker[v]
  OBVIOUS
<1>1. IsFiniteSet(B) /\ IsFiniteSet(S)
  <2>1. B \in SUBSET Workers /\ S \in SUBSET Workers
    OBVIOUS
  <2> QED
    BY <2>1, FiniteAssumption, FS_Subset
<1>2. Busy = Cardinality(B) /\ Staying = Cardinality(S)
  BY DEF Busy, Staying
<1>3. ASSUME next \in Jobs, worker[w] = "loop" PROVE Busy' = Busy + 1 /\ Staying' = Staying
  <2>1. {v \in Workers : worker'[v] \in Jobs} = B \cup {w} /\ w \notin B
    BY <1>0, <1>3
  <2>2. (Workers \ Gone)' = S
    BY <1>0, <1>3 DEF Gone
  <2> QED
    BY <1>1, <1>2, <2>1, <2>2, FS_AddElement DEF Busy, Staying
<1>4. ASSUME next \notin Jobs, worker[w] \in Jobs PROVE Busy' = Busy - 1
  <2>1. {v \in Workers : worker'[v] \in Jobs} = B \ {w} /\ w \in B
    BY <1>0, <1>4
  <2> QED
    BY <1>1, <1>2, <2>1, OneLess DEF Busy
<1>5. ASSUME next = "loop", worker[w] \in Jobs PROVE Staying' = Staying
  <2>1. (Workers \ Gone)' = S
    BY <1>0, <1>5 DEF Gone
  <2> QED
    BY <1>2, <2>1 DEF Staying
<1>6. ASSUME next \in {"exited", "panicked"}, worker[w] \in Jobs \cup {"loop"}
      PROVE  Staying' = Staying - 1
  <2>1. (Workers \ Gone)' = S \ {w} /\ w \in S
    BY <1>0, <1>6 DEF Gone
  <2> QED
    BY <1>1, <1>2, <2>1, OneLess DEF Staying
<1>7. ASSUME next = "exited", worker[w] = "loop" PROVE Busy' = Busy
  <2>1. {v \in Workers : worker'[v] \in Jobs} = B
    BY <1>0, <1>7
  <2> QED
    BY <1>2, <2>1 DEF Busy
<1> QED
  BY <1>3, <1>4, <1>5, <1>6, <1>7

(* For any finite number of workers and jobs, every step of a thread       *)
(* brings the pool nearer to its end, which is at most 4 * jobs +          *)
(* 2 * workers + 3 steps away from the start.  With the theorem before     *)
(* this one, the pool always comes to the end when some thread that can    *)
(* go on does (thread-pool.rs:53-61, fan-out.rs:139-153).                  *)
THEOREM ProgressTheorem == PoolSpec => EveryStepCounts
<1>1. ASSUME PoolInv, PoolNext, Counts, Counts' PROVE StepsLeft' \in 0 .. StepsLeft - 1
  <2>0. PoolTypeOK /\ Lifecycle
    BY <1>1 DEF PoolInv
  <2>1. ASSUME NEW j \in Jobs, Execute(j) PROVE StepsLeft' < StepsLeft
    <3>1. Unsent' = Unsent - 1
      <4>1. (Jobs \ submitted)' = (Jobs \ submitted) \ {j} /\ j \in Jobs \ submitted
        BY <2>1 DEF Execute
      <4>2. IsFiniteSet(Jobs \ submitted)
        BY FiniteAssumption, FS_Subset
      <4> QED
        BY <4>1, <4>2, OneLess DEF Unsent
    <3>2. Len(channel') = Len(channel) + 1
      BY <2>0, <2>1, AtTheBack DEF Execute, PoolTypeOK
    <3>3. Busy' = Busy /\ Staying' = Staying /\ Free' = Free /\ Stage' = Stage
      BY <2>1 DEF Execute, Busy, Staying, Gone, Free, Stage
    <3> QED
      BY <1>1, <3>1, <3>2, <3>3 DEF Counts
  <2>2. ASSUME ExecuteFails \/ DropPool \/ JoinAll PROVE StepsLeft' < StepsLeft
    <3>1. Stage' < Stage
      BY <2>2 DEF ExecuteFails, DropPool, JoinAll, Stage
    <3>2. /\ Unsent' = Unsent /\ channel' = channel /\ Busy' = Busy /\ Staying' = Staying
          /\ Free' = Free
      BY <2>2 DEF ExecuteFails, DropPool, JoinAll, Unsent, Busy, Staying, Gone, Free
    <3> QED
      BY <1>1, <3>1, <3>2 DEF Counts
  <2>3. ASSUME NEW w \in Workers, Lock(w) PROVE StepsLeft' < StepsLeft
    <3>1. Free' = 0 /\ Free = 1
      BY <2>3 DEF Lock, Free
    <3>2. /\ Unsent' = Unsent /\ channel' = channel /\ Busy' = Busy /\ Staying' = Staying
          /\ Stage' = Stage
      BY <2>3 DEF Lock, Unsent, Busy, Staying, Gone, Stage
    <3> QED
      BY <1>1, <3>1, <3>2 DEF Counts
  <2>4. ASSUME NEW w \in Workers, Recv(w) PROVE StepsLeft' < StepsLeft
    <3>1. /\ Head(channel) \in Jobs /\ Len(channel') = Len(channel) - 1 /\ worker[w] = "loop"
          /\ worker' = [worker EXCEPT ![w] = Head(channel)]
      BY <2>0, <2>4, HeadAndTail DEF Recv, PoolTypeOK, Lifecycle
    <3>2. Busy' = Busy + 1 /\ Staying' = Staying
      BY <2>0, <3>1, WorkerCounts DEF PoolTypeOK
    <3>3. Unsent' = Unsent /\ Stage' = Stage /\ Free' = 1
      BY <2>4 DEF Recv, Unsent, Stage, Free
    <3> QED
      BY <1>1, <3>1, <3>2, <3>3 DEF Counts
  <2>5. ASSUME NEW w \in Workers, RecvFails(w) PROVE StepsLeft' < StepsLeft
    <3>1. worker[w] = "loop" /\ worker' = [worker EXCEPT ![w] = "exited"]
      BY <2>0, <2>5 DEF RecvFails, Lifecycle
    <3>2. Busy' = Busy /\ Staying' = Staying - 1
      BY <2>0, <3>1, WorkerCounts DEF PoolTypeOK
    <3>3. Unsent' = Unsent /\ channel' = channel /\ Stage' = Stage
      BY <2>5 DEF RecvFails, Unsent, Stage
    <3> QED
      BY <1>1, <3>2, <3>3 DEF Counts
  <2>6. ASSUME NEW w \in Workers, NEW j \in Jobs, RunJob(w, j) \/ JobPanics(w, j)
        PROVE  StepsLeft' < StepsLeft
    <3>1. PICK next \in {"loop", "panicked"} :
             worker[w] = j /\ worker' = [worker EXCEPT ![w] = next]
      BY <2>6 DEF RunJob, JobPanics
    <3>2. Busy' = Busy - 1 /\ (Staying' = Staying \/ Staying' = Staying - 1)
      BY <2>0, <3>1, WorkerCounts DEF PoolTypeOK
    <3>3. Len(channel') <= Len(channel)
      <4>1. channel' = channel \/ channel' = <<>>
        BY <2>6 DEF RunJob, JobPanics
      <4>2. Len(channel) \in Nat /\ Len(<<>>) = 0
        BY <1>1 DEF Counts
      <4> QED
        BY <4>1, <4>2
    <3>4. Unsent' = Unsent /\ Stage' = Stage /\ Free' = Free
      BY <2>6 DEF RunJob, JobPanics, Unsent, Stage, Free
    <3> QED
      BY <1>1, <3>2, <3>3, <3>4 DEF Counts
  <2>7. StepsLeft' < StepsLeft
    <3>1. CASE Owner
      BY <2>1, <2>2, <3>1 DEF Owner
    <3>2. ASSUME NEW w \in Workers, Work(w) PROVE StepsLeft' < StepsLeft
      BY <2>3, <2>4, <2>5, <2>6, <3>2 DEF Work
    <3> QED
      BY <1>1, <3>1, <3>2 DEF PoolNext
  <2>8. StepsLeft \in Nat /\ StepsLeft' \in Nat
    BY <1>1 DEF Counts
  <2> QED
    BY <2>7, <2>8
<1>2. PoolInv /\ [PoolNext]_poolVars /\ PoolInv' => [StepsLeft' \in 0 .. StepsLeft - 1]_poolVars
  BY <1>1, Counting, PTL
<1> QED
  BY <1>2, PoolInvariant, PTL DEF PoolSpec, EveryStepCounts

-----------------------------------------------------------------------------
(* The retry queue. *)

HasJob(s, j) == \E i \in DOMAIN s : s[i].job = j
Distinct(s) == \A i, k \in DOMAIN s : s[i].job = s[k].job => i = k

LEMMA TailJobs ==
    ASSUME NEW T, NEW s \in Seq(T), s # <<>>, Distinct(s)
    PROVE  /\ Distinct(Tail(s))
           /\ HasJob(s, s[1].job)
           /\ \A k : HasJob(Tail(s), k) <=> HasJob(s, k) /\ k # s[1].job
<1>1. \A i \in DOMAIN s : i # 1 => i - 1 \in DOMAIN Tail(s) /\ Tail(s)[i - 1] = s[i]
  BY HeadAndTail
<1>2. \A i, k \in DOMAIN Tail(s) : i + 1 = k + 1 => i = k
  BY HeadAndTail
<1>3. Distinct(Tail(s))
  BY <1>2, HeadAndTail DEF Distinct
<1>4. ASSUME NEW i \in DOMAIN Tail(s) PROVE Tail(s)[i].job # s[1].job
  <2>1. i + 1 \in DOMAIN s /\ 1 \in DOMAIN s /\ i + 1 # 1 /\ Tail(s)[i] = s[i + 1]
    BY HeadAndTail
  <2> QED
    BY <2>1 DEF Distinct
<1>5. ASSUME NEW k PROVE HasJob(Tail(s), k) <=> HasJob(s, k) /\ k # s[1].job
  <2>1. HasJob(Tail(s), k) => HasJob(s, k) /\ k # s[1].job
    BY <1>4, HeadAndTail DEF HasJob
  <2>2. HasJob(s, k) /\ k # s[1].job => HasJob(Tail(s), k)
    BY <1>1 DEF HasJob
  <2> QED
    BY <2>1, <2>2
<1>6. HasJob(s, s[1].job)
  BY HeadAndTail DEF HasJob
<1> QED
  BY <1>3, <1>5, <1>6

LEMMA AppendJobs ==
    ASSUME NEW T, NEW s \in Seq(T), NEW x \in T, Distinct(s), ~HasJob(s, x.job)
    PROVE  /\ Distinct(Append(s, x))
           /\ \A k : HasJob(Append(s, x), k) <=> HasJob(s, k) \/ k = x.job
<1>1. /\ DOMAIN Append(s, x) = DOMAIN s \cup {Len(s) + 1}
      /\ \A i \in DOMAIN s : Append(s, x)[i] = s[i]
      /\ Append(s, x)[Len(s) + 1] = x
  BY AtTheBack
<1> QED
  BY <1>1 DEF Distinct, HasJob

LEMMA ConcatJobs ==
    ASSUME NEW T, NEW s \in Seq(T), NEW t \in Seq(T), Distinct(s), Distinct(t),
           \A k : ~(HasJob(s, k) /\ HasJob(t, k))
    PROVE  /\ s \o t \in Seq(T) /\ Len(s \o t) = Len(s) + Len(t)
           /\ Distinct(s \o t)
           /\ \A k : HasJob(s \o t, k) <=> HasJob(s, k) \/ HasJob(t, k)
           /\ \A i \in DOMAIN (s \o t) : \/ \E k \in DOMAIN s : (s \o t)[i] = s[k]
                                         \/ \E k \in DOMAIN t : (s \o t)[i] = t[k]
<1>1. /\ s \o t \in Seq(T) /\ Len(s) \in Nat /\ Len(t) \in Nat
      /\ Len(s \o t) = Len(s) + Len(t)
      /\ DOMAIN s = 1..Len(s) /\ DOMAIN t = 1..Len(t)
      /\ DOMAIN (s \o t) = 1..(Len(s) + Len(t))
      /\ \A i \in 1..Len(s) : (s \o t)[i] = s[i]
      /\ \A i \in 1..(Len(s) + Len(t)) : i > Len(s) => (s \o t)[i] = t[i - Len(s)]
  OBVIOUS
<1>2. \A i \in 1..(Len(s) + Len(t)) : i \in DOMAIN s \/ (i > Len(s) /\ i - Len(s) \in DOMAIN t)
  BY <1>1
<1>3. /\ \A i \in DOMAIN s : i \in DOMAIN (s \o t)
      /\ \A k \in DOMAIN t : k + Len(s) \in DOMAIN (s \o t) /\ (s \o t)[k + Len(s)] = t[k]
  BY <1>1
<1>4. ASSUME NEW i \in DOMAIN (s \o t), NEW k \in DOMAIN (s \o t),
             (s \o t)[i].job = (s \o t)[k].job
      PROVE  i = k
  <2>1. CASE i \in DOMAIN s /\ k \in DOMAIN s
    BY <1>1, <1>4, <2>1 DEF Distinct
  <2>2. CASE i > Len(s) /\ k > Len(s)
    <3>1. i - Len(s) \in DOMAIN t /\ k - Len(s) \in DOMAIN t
      BY <1>1, <2>2
    <3>2. i - Len(s) = k - Len(s)
      BY <1>1, <1>4, <2>2, <3>1 DEF Distinct
    <3> QED
      BY <1>1, <3>2
  <2>3. ASSUME NEW a \in DOMAIN s, NEW b \in DOMAIN (s \o t), b > Len(s),
               (s \o t)[a].job = (s \o t)[b].job
        PROVE  FALSE
    <3>1. b - Len(s) \in DOMAIN t /\ (s \o t)[b] = t[b - Len(s)] /\ (s \o t)[a] = s[a]
      BY <1>1, <2>3
    <3>2. HasJob(s, s[a].job) /\ HasJob(t, s[a].job)
      BY <2>3, <3>1 DEF HasJob
    <3> QED
      BY <3>2
  <2> QED
    BY <1>1, <1>2, <1>4, <2>1, <2>2, <2>3
<1>5. ASSUME NEW i \in DOMAIN (s \o t)
      PROVE  \/ \E k \in DOMAIN s : (s \o t)[i] = s[k]
             \/ \E k \in DOMAIN t : (s \o t)[i] = t[k]
  BY <1>1, <1>2
<1>6. ASSUME NEW k PROVE HasJob(s \o t, k) <=> HasJob(s, k) \/ HasJob(t, k)
  <2>1. HasJob(s \o t, k) => HasJob(s, k) \/ HasJob(t, k)
    BY <1>5 DEF HasJob
  <2>2. HasJob(s, k) => HasJob(s \o t, k)
    BY <1>1, <1>3 DEF HasJob
  <2>3. HasJob(t, k) => HasJob(s \o t, k)
    BY <1>3 DEF HasJob
  <2> QED
    BY <2>1, <2>2, <2>3
<1> QED
  BY <1>1, <1>4, <1>5, <1>6 DEF Distinct

Entry == [job : RetryJobs, attempt : Nat]
Letter == [job : RetryJobs, attempts : Nat]

RetryTypeOK ==
    /\ maxRetries \in Nat
    /\ queue \in Seq(Entry)
    /\ deadLetters \in Seq(Letter) /\ drained \in Seq(Letter)
    /\ succeeded \in Nat /\ dead \in Nat
    /\ tries \in [RetryJobs -> Nat]
    /\ won \subseteq RetryJobs

(* A job is in one state, and once in the list that stands for it. *)
OneState ==
    /\ Distinct(queue) /\ Distinct(deadLetters) /\ Distinct(drained)
    /\ \A j \in RetryJobs :
          /\ HasJob(queue, j) \/ HasJob(deadLetters, j) \/ HasJob(drained, j) \/ j \in won
          /\ HasJob(queue, j) => ~HasJob(deadLetters, j) /\ ~HasJob(drained, j) /\ j \notin won
          /\ HasJob(deadLetters, j) => ~HasJob(drained, j) /\ j \notin won
          /\ HasJob(drained, j) => j \notin won

Counted == dead = Len(deadLetters) + Len(drained) /\ succeeded = Cardinality(won)

(* The attempt kept with a waiting job is the number of its tries so far,  *)
(* and leaves room for one more.                                           *)
Waiting == \A i \in DOMAIN queue : /\ queue[i].attempt = tries[queue[i].job]
                                   /\ queue[i].attempt < MostTries

GivenUp(s) == \A i \in DOMAIN s : /\ s[i].attempts = tries[s[i].job]
                                   /\ s[i].attempts = MostTries

RetryInv ==
    /\ RetryTypeOK /\ OneState /\ Counted
    /\ Waiting /\ GivenUp(deadLetters) /\ GivenUp(drained)
    /\ TriesAreBounded

LEMMA MaxTries ==
    ASSUME maxRetries \in Nat
    PROVE  MostTries \in Nat /\ MostTries = IF maxRetries <= 1 THEN 1 ELSE maxRetries
  BY DEF MostTries, Max

LEMMA FiniteJobs == ASSUME NEW S \in SUBSET RetryJobs PROVE IsFiniteSet(S)
<1>1. IsFiniteSet(RetryJobs)
  BY FS_Interval DEF RetryJobs
<1> QED
  BY <1>1, FS_Subset

LEMMA RetryInvInit == RetryInit => RetryInv
<1> SUFFICES ASSUME RetryInit PROVE RetryInv
  OBVIOUS
<1>1. /\ queue \in Seq(Entry) /\ DOMAIN queue = RetryJobs
      /\ \A j \in RetryJobs : queue[j].job = j /\ queue[j].attempt = 0
  BY DEF RetryInit, RetryJobs, Entry
<1>2. /\ deadLetters = <<>> /\ drained = <<>> /\ won = {} /\ maxRetries \in Nat
      /\ succeeded = 0 /\ dead = 0 /\ tries = [j \in RetryJobs |-> 0]
  BY DEF RetryInit
<1>3. RetryTypeOK
  BY <1>1, <1>2 DEF RetryTypeOK
<1>4. OneState
  BY <1>1, <1>2 DEF OneState, HasJob, Distinct
<1>5. Counted
  BY <1>2, FS_EmptySet DEF Counted
<1>6. MostTries \in Nat /\ MostTries >= 1
  BY <1>2, MaxTries
<1>7. Waiting /\ GivenUp(deadLetters) /\ GivenUp(drained) /\ TriesAreBounded
  <2>1. \A j \in RetryJobs : tries[j] = 0
    BY <1>2
  <2>2. Waiting
    BY <1>1, <1>6, <2>1 DEF Waiting
  <2>3. GivenUp(deadLetters) /\ GivenUp(drained)
    BY <1>2 DEF GivenUp
  <2>4. TriesAreBounded
    BY <1>6, <2>1 DEF TriesAreBounded
  <2> QED
    BY <2>2, <2>3, <2>4
<1> QED
  BY <1>3, <1>4, <1>5, <1>7 DEF RetryInv

(* What taking the front job does to the tries, whatever becomes of it. *)
Taken(j) ==
    /\ j \in RetryJobs /\ tries[j] \in Nat
    /\ j = queue[1].job /\ queue[1].attempt = tries[j] /\ HasJob(queue, j)
    /\ tries[j] < MostTries
    /\ queue # <<>> /\ Tail(queue) \in Seq(Entry)
    /\ tries' \in [RetryJobs -> Nat]
    /\ tries'[j] = tries[j] + 1
    /\ \A k \in RetryJobs : k # j => tries'[k] = tries[k]
    /\ TriesAreBounded'
    /\ UNCHANGED <<maxRetries, drained>>
    /\ Distinct(Tail(queue))
    /\ \A k \in RetryJobs : HasJob(Tail(queue), k) <=> HasJob(queue, k) /\ k # j
    /\ \A i \in DOMAIN Tail(queue) :
          /\ Tail(queue)[i] \in Entry
          /\ Tail(queue)[i].attempt = tries'[Tail(queue)[i].job]
          /\ Tail(queue)[i].attempt < MostTries
    /\ \A s \in {deadLetters, drained} : \A i \in DOMAIN s :
          /\ s[i].attempts = tries'[s[i].job]
          /\ s[i].attempts = MostTries

LEMMA TakeFront ==
    ASSUME RetryInv, Take
    PROVE  Taken(queue[1].job)
<1> DEFINE j == queue[1].job
<1>1. /\ queue \in Seq(Entry) /\ queue # <<>> /\ queue[1] \in Entry /\ 1 \in DOMAIN queue
      /\ First = queue[1] /\ j \in RetryJobs
  <2>1. queue \in Seq(Entry) /\ queue # <<>>
    BY DEF RetryInv, RetryTypeOK, Take
  <2>2. First = queue[1] /\ queue[1] \in Entry /\ 1 \in DOMAIN queue
    BY <2>1, HeadAndTail DEF First
  <2> QED
    BY <2>1, <2>2 DEF Entry
<1>2. /\ queue[1].attempt = tries[j] /\ tries[j] \in Nat
      /\ tries[j] < MostTries /\ maxRetries \in Nat
  BY <1>1 DEF RetryInv, RetryTypeOK, Waiting
<1>3. /\ tries' = [tries EXCEPT ![j] = @ + 1] /\ UNCHANGED <<maxRetries, drained>>
      /\ tries \in [RetryJobs -> Nat]
  BY <1>1 DEF Take, RetryInv, RetryTypeOK
<1>4. /\ tries' \in [RetryJobs -> Nat] /\ tries'[j] = tries[j] + 1
      /\ \A k \in RetryJobs : k # j => tries'[k] = tries[k]
  BY <1>1, <1>2, <1>3
<1>5. /\ Distinct(Tail(queue)) /\ Tail(queue) \in Seq(Entry) /\ HasJob(queue, j)
      /\ \A k : HasJob(Tail(queue), k) <=> HasJob(queue, k) /\ k # j
  BY <1>1, TailJobs, HeadAndTail DEF RetryInv, OneState
<1>6. TriesAreBounded'
  <2>1. MostTries \in Nat
    BY <1>2, MaxTries
  <2>2. \A k \in RetryJobs : tries'[k] <= MostTries
    BY <1>2, <1>4, <2>1 DEF RetryInv, TriesAreBounded
  <2> QED
    BY <1>3, <2>2 DEF TriesAreBounded, MostTries
<1>7. ASSUME NEW i \in DOMAIN Tail(queue)
      PROVE  /\ Tail(queue)[i] \in Entry
             /\ Tail(queue)[i].attempt = tries'[Tail(queue)[i].job]
             /\ Tail(queue)[i].attempt < MostTries
  <2>1. i + 1 \in DOMAIN queue /\ Tail(queue)[i] = queue[i + 1]
    BY <1>1, HeadAndTail
  <2>2. queue[i + 1] \in Entry
    BY <1>1, <2>1
  <2>3. HasJob(Tail(queue), queue[i + 1].job)
    BY <2>1 DEF HasJob
  <2>4. queue[i + 1].job # j /\ queue[i + 1].job \in RetryJobs
    BY <1>5, <2>2, <2>3 DEF Entry
  <2> QED
    BY <1>4, <2>1, <2>2, <2>4 DEF RetryInv, Waiting
<1>8. ASSUME NEW s \in {deadLetters, drained}, NEW i \in DOMAIN s
      PROVE  s[i].attempts = tries'[s[i].job] /\ s[i].attempts = MostTries
  <2>1. s \in Seq(Letter) /\ GivenUp(s)
    BY DEF RetryInv, RetryTypeOK
  <2>2. s[i].job \in RetryJobs /\ HasJob(s, s[i].job)
    <3>1. s[i] \in Letter
      BY <2>1
    <3> QED
      BY <3>1 DEF Letter, HasJob
  <2>3. s[i].job # j
    BY <1>1, <1>5, <2>2 DEF RetryInv, OneState
  <2> QED
    BY <1>4, <2>1, <2>2, <2>3 DEF GivenUp
<1> QED
  BY <1>1, <1>2, <1>3, <1>4, <1>5, <1>6, <1>7, <1>8 DEF Taken, RetryInv

LEMMA SucceedKeeps ==
    ASSUME RetryInv, Succeed
    PROVE  RetryInv'
<1>1. PICK j : Taken(j) /\ j = queue[1].job
  BY TakeFront DEF Succeed
<1>2. /\ queue' = Tail(queue) /\ succeeded' = succeeded + 1 /\ won' = won \cup {j}
      /\ UNCHANGED <<deadLetters, drained, dead, maxRetries>>
  BY <1>1, HeadAndTail DEF Succeed, First, Taken, RetryInv, RetryTypeOK
<1>3. j \in RetryJobs /\ j \notin won /\ ~HasJob(deadLetters, j) /\ ~HasJob(drained, j)
  BY <1>1 DEF Taken, RetryInv, OneState
<1>4. RetryTypeOK'
  BY <1>1, <1>2, <1>3 DEF Taken, RetryInv, RetryTypeOK
<1>5. OneState'
  BY <1>1, <1>2, <1>3 DEF Taken, RetryInv, OneState
<1>6. Counted'
  <2>1. IsFiniteSet(won) /\ succeeded = Cardinality(won)
    BY FiniteJobs DEF RetryInv, RetryTypeOK, Counted
  <2>2. Cardinality(won \cup {j}) = succeeded + 1
    BY <1>3, <2>1, FS_AddElement
  <2> QED
    BY <1>2, <2>2 DEF RetryInv, Counted
<1>7. Waiting' /\ GivenUp(deadLetters)' /\ GivenUp(drained)'
  BY <1>1, <1>2 DEF Taken, Waiting, GivenUp, MostTries
<1> QED
  BY <1>1, <1>4, <1>5, <1>6, <1>7 DEF RetryInv, Taken

LEMMA FailAndRetryKeeps ==
    ASSUME RetryInv, FailAndRetry
    PROVE  RetryInv'
<1>1. PICK j : Taken(j) /\ j = queue[1].job
  BY TakeFront DEF FailAndRetry
<1> DEFINE e == [job |-> j, attempt |-> tries[j] + 1]
<1>2. /\ queue' = Append(Tail(queue), e) /\ tries[j] + 1 < maxRetries /\ maxRetries \in Nat
      /\ UNCHANGED <<deadLetters, drained, dead, succeeded, won, maxRetries>>
  <2>1. First = queue[1] /\ queue[1].job = j /\ queue[1].attempt = tries[j] /\ tries[j] \in Nat
    BY <1>1, HeadAndTail DEF First, Taken, RetryInv, RetryTypeOK
  <2> QED
    BY <1>1, <2>1 DEF FailAndRetry, Requeue, GivesUp, Taken, RetryInv, RetryTypeOK
<1>3. e \in Entry /\ e.job = j /\ e.attempt = tries[j] + 1 /\ j \in RetryJobs
  BY <1>1 DEF Taken, Entry
<1> HIDE DEF e
<1>4. Tail(queue) \in Seq(Entry) /\ Distinct(Tail(queue)) /\ ~HasJob(Tail(queue), j)
  BY <1>1 DEF Taken
<1>5. /\ Distinct(queue') /\ queue' \in Seq(Entry)
      /\ \A k \in RetryJobs : HasJob(queue', k) <=> HasJob(queue, k)
  <2>1. \A k \in RetryJobs : HasJob(queue', k) <=> HasJob(Tail(queue), k) \/ k = j
    BY <1>2, <1>3, <1>4, AppendJobs
  <2>2. Distinct(queue') /\ queue' \in Seq(Entry)
    BY <1>2, <1>3, <1>4, AppendJobs, AtTheBack
  <2> QED
    BY <1>1, <2>1, <2>2 DEF Taken
<1>6. RetryTypeOK'
  BY <1>1, <1>2, <1>5 DEF Taken, RetryInv, RetryTypeOK
<1>7. OneState'
  BY <1>2, <1>5 DEF RetryInv, OneState
<1>8. Counted'
  BY <1>2 DEF RetryInv, Counted
<1>9. Waiting'
  <2>1. MostTries' = MostTries /\ e.attempt = tries'[e.job] /\ e.attempt < MostTries
    BY <1>1, <1>2, <1>3, MaxTries DEF Taken, MostTries
  <2>2. ASSUME NEW i \in DOMAIN queue' PROVE queue'[i] = e \/
               (i \in DOMAIN Tail(queue) /\ queue'[i] = Tail(queue)[i])
    BY <1>2, <1>3, <1>4, AtTheBack
  <2>3. \A i \in DOMAIN queue' : /\ queue'[i].attempt = tries'[queue'[i].job]
                                 /\ queue'[i].attempt < MostTries
    BY <1>1, <2>1, <2>2 DEF Taken
  <2> QED
    BY <2>1, <2>3 DEF Waiting
<1>10. GivenUp(deadLetters)' /\ GivenUp(drained)'
  BY <1>1, <1>2 DEF Taken, GivenUp, MostTries
<1> QED
  BY <1>1, <1>6, <1>7, <1>8, <1>9, <1>10 DEF RetryInv, Taken

LEMMA FailForGoodKeeps ==
    ASSUME RetryInv, FailForGood
    PROVE  RetryInv'
<1>1. PICK j : Taken(j) /\ j = queue[1].job
  BY TakeFront DEF FailForGood
<1> DEFINE e == [job |-> j, attempts |-> tries[j] + 1]
<1>2. /\ queue' = Tail(queue) /\ deadLetters' = Append(deadLetters, e) /\ dead' = dead + 1
      /\ tries[j] + 1 >= maxRetries /\ maxRetries \in Nat
      /\ UNCHANGED <<drained, succeeded, won, maxRetries>>
  <2>1. First = queue[1] /\ queue[1].job = j /\ queue[1].attempt = tries[j] /\ tries[j] \in Nat
    BY <1>1, HeadAndTail DEF First, Taken, RetryInv, RetryTypeOK
  <2> QED
    BY <1>1, <2>1 DEF FailForGood, GivesUp, Taken, RetryInv, RetryTypeOK
<1>3. e \in Letter /\ e.job = j /\ e.attempts = tries[j] + 1 /\ j \in RetryJobs
  BY <1>1 DEF Taken, Letter
<1> HIDE DEF e
<1>4. /\ deadLetters \in Seq(Letter) /\ Distinct(deadLetters)
      /\ ~HasJob(deadLetters, j) /\ ~HasJob(drained, j) /\ j \notin won
  BY <1>1 DEF Taken, RetryInv, RetryTypeOK, OneState
<1>5. /\ Distinct(deadLetters') /\ deadLetters' \in Seq(Letter)
      /\ \A k \in RetryJobs : HasJob(deadLetters', k) <=> HasJob(deadLetters, k) \/ k = j
      /\ Len(deadLetters') = Len(deadLetters) + 1
  BY <1>2, <1>3, <1>4, AppendJobs, AtTheBack
<1>6. RetryTypeOK'
  BY <1>1, <1>2, <1>5 DEF Taken, RetryInv, RetryTypeOK
<1>7. OneState'
  BY <1>1, <1>2, <1>4, <1>5 DEF Taken, RetryInv, OneState
<1>8. Counted'
  BY <1>2, <1>4, <1>5 DEF RetryInv, RetryTypeOK, Counted
<1>9. Waiting' /\ GivenUp(drained)'
  BY <1>1, <1>2 DEF Taken, Waiting, GivenUp, MostTries
<1>10. GivenUp(deadLetters)'
  <2>1. MostTries' = MostTries /\ e.attempts = tries'[e.job] /\ e.attempts = MostTries
    BY <1>1, <1>2, <1>3, MaxTries DEF Taken, MostTries
  <2>2. ASSUME NEW i \in DOMAIN deadLetters' PROVE deadLetters'[i] = e \/
               (i \in DOMAIN deadLetters /\ deadLetters'[i] = deadLetters[i])
    BY <1>2, <1>3, <1>4, AtTheBack
  <2>3. \A i \in DOMAIN deadLetters' :
           /\ deadLetters'[i].attempts = tries'[deadLetters'[i].job]
           /\ deadLetters'[i].attempts = MostTries
    <3>1. \A i \in DOMAIN deadLetters : /\ deadLetters[i].attempts = tries'[deadLetters[i].job]
                                         /\ deadLetters[i].attempts = MostTries
      BY <1>1 DEF Taken
    <3> QED
      BY <2>1, <2>2, <3>1
  <2> QED
    BY <2>1, <2>3 DEF GivenUp
<1> QED
  BY <1>1, <1>6, <1>7, <1>8, <1>9, <1>10 DEF RetryInv, Taken

LEMMA DrainKeeps ==
    ASSUME RetryInv, Drain
    PROVE  RetryInv'
<1>1. /\ drained' = drained \o deadLetters /\ deadLetters' = <<>>
      /\ UNCHANGED <<maxRetries, queue, succeeded, dead, tries, won>>
      /\ drained \in Seq(Letter) /\ deadLetters \in Seq(Letter)
      /\ Distinct(drained) /\ Distinct(deadLetters)
  BY DEF Drain, RetryInv, RetryTypeOK, OneState
<1>2. ASSUME NEW k PROVE ~(HasJob(drained, k) /\ HasJob(deadLetters, k))
  <2>1. HasJob(drained, k) => k \in RetryJobs
    <3>1. \A i \in DOMAIN drained : drained[i] \in Letter
      BY <1>1
    <3> QED
      BY <3>1 DEF HasJob, Letter
  <2> QED
    BY <2>1 DEF RetryInv, OneState
<1>3. /\ drained' \in Seq(Letter) /\ Len(drained') = Len(drained) + Len(deadLetters)
      /\ Distinct(drained')
      /\ \A k : HasJob(drained', k) <=> HasJob(drained, k) \/ HasJob(deadLetters, k)
      /\ \A i \in DOMAIN drained' : \/ \E k \in DOMAIN drained : drained'[i] = drained[k]
                                    \/ \E k \in DOMAIN deadLetters : drained'[i] = deadLetters[k]
  BY <1>1, <1>2, ConcatJobs
<1>4. /\ deadLetters' \in Seq(Letter) /\ Distinct(deadLetters') /\ Len(deadLetters') = 0
      /\ \A k : ~HasJob(deadLetters', k)
  BY <1>1 DEF Distinct, HasJob
<1>5. RetryTypeOK'
  BY <1>1, <1>3, <1>4 DEF RetryInv, RetryTypeOK
<1>6. OneState'
  BY <1>1, <1>3, <1>4 DEF RetryInv, OneState
<1>7. Counted'
  BY <1>1, <1>3, <1>4 DEF RetryInv, Counted
<1>8. Waiting' /\ TriesAreBounded'
  BY <1>1 DEF RetryInv, Waiting, TriesAreBounded, MostTries
<1>9. GivenUp(drained)' /\ GivenUp(deadLetters)'
  <2>1. \A i \in DOMAIN drained' : /\ drained'[i].attempts = tries[drained'[i].job]
                                   /\ drained'[i].attempts = MostTries
    BY <1>3 DEF RetryInv, GivenUp
  <2>2. MostTries' = MostTries /\ tries' = tries
    BY <1>1 DEF MostTries
  <2>3. DOMAIN deadLetters' = {}
    BY <1>1
  <2> QED
    BY <2>1, <2>2, <2>3 DEF GivenUp
<1> QED
  BY <1>5, <1>6, <1>7, <1>8, <1>9 DEF RetryInv

LEMMA RetryInvStep == RetryInv /\ [RetryNext]_retryVars => RetryInv'
<1>1. ASSUME RetryInv, UNCHANGED retryVars PROVE RetryInv'
  <2>1. RetryTypeOK' /\ OneState' /\ Counted'
    BY <1>1 DEF retryVars, RetryInv, RetryTypeOK, OneState, Counted, HasJob, Distinct
  <2>2. Waiting' /\ GivenUp(deadLetters)' /\ GivenUp(drained)' /\ TriesAreBounded'
    BY <1>1 DEF retryVars, RetryInv, Waiting, GivenUp, TriesAreBounded, MostTries
  <2> QED
    BY <2>1, <2>2 DEF RetryInv
<1> QED
  BY <1>1, SucceedKeeps, FailAndRetryKeeps, FailForGoodKeeps, DrainKeeps DEF RetryNext

LEMMA RetryInvariant == RetrySpec => []RetryInv
  BY RetryInvInit, RetryInvStep, PTL DEF RetrySpec

-----------------------------------------------------------------------------
(* For any number of jobs and retries, however the attempts end and        *)
(* whenever the letters are drained: each job is in exactly one place and  *)
(* the report counts those won and given up (retry-queue.rs:68-117,        *)
(* :120-122).                                                              *)
THEOREM AccountedTheorem == RetrySpec => []JobsAreAccounted
<1>1. ASSUME NEW s, NEW j, Distinct(s)
      PROVE  In(j, s) = IF HasJob(s, j) THEN 1 ELSE 0
  <2> DEFINE P == {i \in DOMAIN s : s[i].job = j}
  <2>1. (\A x, y \in P : x = y) /\ (P = {} <=> ~HasJob(s, j))
    BY <1>1 DEF Distinct, HasJob
  <2> HIDE DEF P
  <2>2. Cardinality(P) = IF HasJob(s, j) THEN 1 ELSE 0
    BY <2>1, AtMostOne
  <2> QED
    BY <2>2 DEF In, P
<1>2. ASSUME RetryInv PROVE JobsAreAccounted
  <2>1. ASSUME NEW j \in RetryJobs
        PROVE  In(j, queue) + In(j, deadLetters) + In(j, drained)
                 + (IF j \in won THEN 1 ELSE 0) = 1
    BY <1>1, <1>2 DEF RetryInv, OneState
  <2> QED
    BY <1>2, <2>1 DEF JobsAreAccounted, RetryInv, Counted
<1> QED
  BY <1>2, RetryInvariant, PTL

(* For any number of retries: a job that was given up had max_retries      *)
(* tries, or one if that is 0, and its letter says so                      *)
(* (retry-queue.rs:86-99).                                                 *)
THEOREM DeadLettersTheorem == RetrySpec => []DeadAfterAllTries
<1>1. RetryInv => DeadAfterAllTries
  BY DEF RetryInv, GivenUp, DeadAfterAllTries
<1> QED
  BY <1>1, RetryInvariant, PTL

(* For any number of retries: no job is tried more often than that         *)
(* (retry-queue.rs:73, :111).                                              *)
THEOREM TriesTheorem == RetrySpec => []TriesAreBounded
<1>1. RetryInv => TriesAreBounded
  BY DEF RetryInv
<1> QED
  BY <1>1, RetryInvariant, PTL

(* The calls of job_fn, each a job and the number of the attempt: they are *)
(* finitely many, and the counters tell how many.                          *)
Calls == UNION {{j} \X (1 .. tries[j]) : j \in RetryJobs}

CallsAreCounted ==
    failed \in Nat /\ IsFiniteSet(Calls) /\ succeeded + failed = Cardinality(Calls)

(* A try is one call more. *)
LEMMA CallsGrow ==
    ASSUME RetryInv, CallsAreCounted, NEW j, Taken(j)
    PROVE  IsFiniteSet(Calls') /\ Cardinality(Calls') = Cardinality(Calls) + 1
<1> DEFINE c == <<j, tries[j] + 1>>
<1>1. /\ tries \in [RetryJobs -> Nat] /\ tries' \in [RetryJobs -> Nat] /\ j \in RetryJobs
      /\ tries'[j] = tries[j] + 1 /\ \A k \in RetryJobs : k # j => tries'[k] = tries[k]
  BY DEF Taken, RetryInv, RetryTypeOK
<1>2. \A x : x \in Calls <=> \E k \in RetryJobs : \E n \in 1 .. tries[k] : x = <<k, n>>
  BY DEF Calls
<1>3. \A x : x \in Calls' <=> \E k \in RetryJobs : \E n \in 1 .. tries'[k] : x = <<k, n>>
  BY DEF Calls
<1>4. c \notin Calls
  BY <1>1, <1>2
<1>5. Calls' = Calls \cup {c}
  <2>1. ASSUME NEW x \in Calls PROVE x \in Calls'
    <3>1. PICK k \in RetryJobs, n \in Nat : n \in 1 .. tries[k] /\ x = <<k, n>>
      BY <1>2, <2>1
    <3>2. n \in 1 .. tries'[k]
      BY <1>1, <3>1
    <3> QED
      BY <1>3, <3>1, <3>2
  <2>2. c \in Calls'
    <3>1. tries[j] + 1 \in 1 .. tries'[j]
      BY <1>1
    <3> QED
      BY <1>1, <1>3, <3>1
  <2>3. ASSUME NEW x \in Calls', x # c PROVE x \in Calls
    <3>1. PICK k \in RetryJobs, n \in Nat : n \in 1 .. tries'[k] /\ x = <<k, n>>
      BY <1>3, <2>3
    <3>2. k = j => n # tries[j] + 1
      BY <2>3, <3>1
    <3>3. n \in 1 .. tries[k]
      BY <1>1, <3>1, <3>2
    <3> QED
      BY <1>2, <3>1, <3>3
  <2> QED
    BY <2>1, <2>2, <2>3
<1> HIDE DEF c
<1> QED
  BY <1>4, <1>5, FS_AddElement DEF CallsAreCounted

LEMMA CallsAreCountedStep == RetryInv /\ CallsAreCounted /\ [RetryNext]_retryVars => CallsAreCounted'
<1> SUFFICES ASSUME RetryInv, CallsAreCounted, [RetryNext]_retryVars PROVE CallsAreCounted'
  OBVIOUS
<1>0. /\ succeeded \in Nat /\ failed \in Nat /\ IsFiniteSet(Calls)
      /\ succeeded + failed = Cardinality(Calls)
  BY DEF RetryInv, RetryTypeOK, CallsAreCounted
<1>1. CASE Succeed \/ FailAndRetry \/ FailForGood
  <2>1. IsFiniteSet(Calls') /\ Cardinality(Calls') = Cardinality(Calls) + 1
    BY <1>1, TakeFront, CallsGrow DEF Succeed, FailAndRetry, FailForGood
  <2>2. \/ succeeded' = succeeded + 1 /\ failed' = failed
        \/ succeeded' = succeeded /\ failed' = failed + 1
    BY <1>1 DEF Succeed, FailAndRetry, FailForGood
  <2>3. failed' \in Nat /\ succeeded' + failed' = Cardinality(Calls')
    BY <1>0, <2>1, <2>2
  <2> QED
    BY <2>1, <2>3 DEF CallsAreCounted
<1>2. CASE Drain \/ UNCHANGED retryVars
  BY <1>2 DEF Drain, retryVars, CallsAreCounted, Calls
<1> QED
  BY <1>1, <1>2 DEF RetryNext

LEMMA CallsAreCountedAlways == RetrySpec => []CallsAreCounted
<1>1. RetryInit => CallsAreCounted
  <2> SUFFICES ASSUME RetryInit PROVE CallsAreCounted
    OBVIOUS
  <2>1. succeeded = 0 /\ failed = 0 /\ \A j \in RetryJobs : tries[j] = 0
    BY DEF RetryInit
  <2>2. Calls = {}
    BY <2>1 DEF Calls
  <2> QED
    BY <2>1, <2>2, FS_EmptySet DEF CallsAreCounted
<1> QED
  BY <1>1, CallsAreCountedStep, RetryInvariant, PTL DEF RetrySpec

(* For any number of jobs and retries: run calls job_fn at most            *)
(* max_retries times per job, all attempts failing, and once per job if    *)
(* that is 0; each turn of its loop is a call that is counted, so the loop *)
(* ends (retry-queue.rs:73-118).                                           *)
THEOREM CallsAreBounded == RetrySpec => [](succeeded + failed <= NumJobs * MostTries)
<1>1. ASSUME RetryInv, CallsAreCounted PROVE succeeded + failed <= NumJobs * MostTries
  <2>1. MostTries \in Nat /\ tries \in [RetryJobs -> Nat] /\ \A j \in RetryJobs : tries[j] <= MostTries
    BY <1>1, MaxTries DEF RetryInv, RetryTypeOK, TriesAreBounded
  <2>2. PICK m \in Nat : m = MostTries
    BY <2>1
  <2>3. Calls \in SUBSET (RetryJobs \X (1 .. m))
    BY <2>1, <2>2 DEF Calls
  <2>4. /\ IsFiniteSet(RetryJobs) /\ Cardinality(RetryJobs) = NumJobs
        /\ IsFiniteSet(1 .. m) /\ Cardinality(1 .. m) = m
    BY FS_Interval DEF RetryJobs
  <2>5. /\ IsFiniteSet(RetryJobs \X (1 .. m))
        /\ Cardinality(RetryJobs \X (1 .. m)) = NumJobs * m
    BY <2>4, FS_Product
  <2>6. Cardinality(Calls) <= NumJobs * m
    BY <2>3, <2>5, FS_Subset
  <2> QED
    BY <1>1, <2>2, <2>6 DEF CallsAreCounted
<1> QED
  BY <1>1, RetryInvariant, CallsAreCountedAlways, PTL
=============================================================================
