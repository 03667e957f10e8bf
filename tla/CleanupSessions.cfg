SPECIFICATION FairSpec
CONSTANTS
    Users = {u1}
    Sessions = {s1}
    StaleAfter = 1
    SessionTTL = 0
    MaxClock = 1
    MaxFailures = 0
    Requests = {r1}
    CleanupIntervals = {"unset"}
    MaxSignals = 1
CHECK_DEADLOCK FALSE
PROPERTIES ExpiredIsSwept
