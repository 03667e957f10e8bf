---------------------------- MODULE MCComponents ----------------------------
(***************************************************************************)
(* The components that share no state with any other, checked together:    *)
(* the limiter of auth-service's login, the library of policy-engine, and  *)
(* its example programs.  A behaviour exercises one of them and leaves the *)
(* others as they start.                                                   *)
(***************************************************************************)
EXTENDS LoginLimiter, PolicyEngine, PolicyCache, WorkQueue, RetryQueue

VARIABLE component      \* the one that runs

vars == <<component, limiterVars, engineVars, cacheVars, poolVars, retryVars>>

Init ==
    /\ component \in {"limiter", "engine", "cache", "pool", "retry"}
    /\ LimiterInit /\ EngineInit /\ CacheInit /\ PoolInit /\ RetryInit
    /\ component # "engine" => policies = <<>>
    /\ component # "pool" => capacity = Cardinality(Jobs)
    /\ component # "retry" => maxRetries = 0

RunLimiter ==
    /\ component = "limiter" /\ LimiterNext
    /\ UNCHANGED <<component, engineVars, cacheVars, poolVars, retryVars>>

RunEngine ==
    /\ component = "engine" /\ EngineNext
    /\ UNCHANGED <<component, limiterVars, cacheVars, poolVars, retryVars>>

RunCache ==
    /\ component = "cache" /\ CacheNext
    /\ UNCHANGED <<component, limiterVars, engineVars, poolVars, retryVars>>

RunOwner ==
    /\ component = "pool" /\ Owner
    /\ UNCHANGED <<component, limiterVars, engineVars, cacheVars, retryVars>>

RunWorker(w) ==
    /\ component = "pool" /\ Work(w)
    /\ UNCHANGED <<component, limiterVars, engineVars, cacheVars, retryVars>>

RunRetry ==
    /\ component = "retry" /\ RetryNext
    /\ UNCHANGED <<component, limiterVars, engineVars, cacheVars, poolVars>>

Next ==
    \/ RunLimiter \/ RunEngine \/ RunCache \/ RunRetry
    \/ RunOwner \/ \E w \in Workers : RunWorker(w)

(* Threads of the pool are scheduled, and jobs end.  Nothing is assumed of *)
(* the mutex: one worker may get it every time.                            *)
FairSpec == Init /\ [][Next]_vars /\ WF_vars(RunOwner) /\ \A w \in Workers : WF_vars(RunWorker(w))

-----------------------------------------------------------------------------
(* Dropping the pool returns, whichever jobs panic and however small the   *)
(* channel: the owner is never left waiting (thread-pool.rs:89-97,         *)
(* fan-out.rs:160-168).                                                    *)
DropReturns == component = "pool" ~> owner = "done"
=============================================================================
