SPECIFICATION FairSpec
CONSTANTS
    Burst = 3
    RefillTime = 2
    MaxNow = 7
    MaxAdmitted = 5
    Roles = {"admin", "developer", "viewer", "guest"}
    Actions = {"read"}
    Hierarchy <- DefaultHierarchy
    MaxPolicies = 3
    Keys = {"k1", "k2", "k3"}
    TTL = 2
    MaxClock = 4
    Workers = {w1, w2}
    Jobs = {j1, j2, j3, j4}
    Panicking = {j1, j2}
    Capacities = {1, 4}
    NumJobs = 3
    MostRetries = 3
CHECK_DEADLOCK FALSE
INVARIANTS TypeOK WindowBound RefusedOnlyAtTheLimit
INVARIANTS IndexIsLast EvaluatorsAgree InheritanceIsMonotone GetKeepsPromise
INVARIANTS JobsAreConserved DropFinishesJobs NoDeadlock
INVARIANTS JobsAreAccounted DeadAfterAllTries TriesAreBounded
PROPERTIES EveryStepCounts DropReturns
