SPECIFICATION Spec
CONSTANTS
    h1 = h1
    h2 = h2
    pw1 = pw1
    pw2 = pw2
    pwBlank = pwBlank
    pwLong = pwLong
    blank = blank
    p1 = p1
    p2 = p2
    t1 = t1
    t2 = t2
    Procs = {p1, p2}
    Usernames = {admin, bob}
    Hashes = {h1}
    Passwords = {pw1}
    PasswordOf <- OneHash
    Roles = {"admin"}
    Tokens = {t1}
    BlankNames = {}
    BlankPasswords = {}
    Omitted = Omitted
    AdminName = admin
    AdminHash = h1
    SecondTicks = 1
    TTLs = {1}
    TokenTTL = 1
    MaxUserID = 1
    MaxSessionID = 1
    MaxClock = 1
    Endpoints = {"login", "delete"}
    Faults = FALSE
INVARIANT ReferentialIntegrity
