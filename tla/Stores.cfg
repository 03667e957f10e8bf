SPECIFICATION StoresSpec
CONSTANTS
    Usernames = {n1, n2}
    Hashes = {h1}
    Roles = {r1}
    Tokens = {t1, t2}
    SecondTicks = 2
    TTLs = {1, 2}
    MaxUserID = 2
    MaxSessionID = 2
    MaxClock = 4
INVARIANTS DBTypeOK ListingAgrees StoresAgree
PROPERTIES ImplementsStoreAPI MemoryImplementsStoreAPI
