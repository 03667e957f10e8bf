SPECIFICATION Spec
CONSTANTS
    h1 = h1
    h2 = h2
    pw1 = pw1
    pw2 = pw2
    pwBlank = pwBlank
    pwLong = pwLong
    blank = blank
    p1 = p1
    p2 = p2
    t1 = t1
    t2 = t2
    Procs = {p1, p2}
    Usernames = {admin, bob, blank}
    Hashes = {h1}
    Passwords = {pw1, pwBlank}
    PasswordOf <- OneHash
    Roles = {"admin"}
    Tokens = {t1, t2}
    BlankNames = {blank}
    BlankPasswords = {pwBlank}
    Omitted = Omitted
    AdminName = admin
    AdminHash = h1
    SecondTicks = 1
    TTLs = {1}
    TokenTTL = 1
    MaxUserID = 3
    MaxSessionID = 2
    MaxClock = 2
    Endpoints = {"login", "delSess", "delAll", "create", "delete"}
    Faults = TRUE
SYMMETRY Symmetry
INVARIANTS NoAdoption IndInv
PROPERTY RemovedInTheName
