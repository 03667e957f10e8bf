SPECIFICATION Spec
CONSTANTS
    Procs = {p1}
    Users = {bob}
    ServerKeys = {k1, k2}
    DefaultKey = k0
    Routes = {"whoami", "me", "projects", "admin"}
    Methods = {"GET", "POST", "PUT", "DELETE"}
    Assignable = {}
    TokenTTL = 1
    CLIDuration = 4
    DiskFaults = TRUE
    MaxLatency = 1
    MaxClock = 0
    MaxTokens = 2
    MaxRecords = 4
INVARIANTS DecisionsAreRecorded
