SPECIFICATION Spec
CONSTANTS
    Procs = {p1, p2}
    Users = {bob}
    ServerKeys = {k1, k2}
    DefaultKey = k0
    Routes = {"whoami", "projects", "admin"}
    Methods = {"GET", "POST", "PUT", "DELETE"}
    Assignable = {"viewer", "none"}
    TokenTTL = 1
    CLIDuration = 4
    DiskFaults = FALSE
    MaxLatency = 1
    MaxClock = 3
    MaxTokens = 1
    MaxRecords = 3
SYMMETRY Symmetry
INVARIANTS DecisionsAreRecorded OperationsArePermitted RoleIsRecent
