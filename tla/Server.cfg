SPECIFICATION FairSpec
CONSTANTS
    Users = {u1}
    Sessions = {s1}
    StaleAfter = 0
    SessionTTL = 1
    MaxClock = 2
    MaxFailures = 1
    Requests = {r1, r2}
    CleanupIntervals = {"unparsable", "positive", "not positive"}
    MaxSignals = 2
CHECK_DEADLOCK FALSE
INVARIANTS HandlersHaveStoreAndLog CleanExit ReportsAreRight
PROPERTIES SignalEndsProcess StaleIsReported
