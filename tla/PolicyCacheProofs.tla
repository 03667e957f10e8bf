-------------------------- MODULE PolicyCacheProofs --------------------------
(***************************************************************************)
(* The decision cache keeps its promise for every lifetime and every set   *)
(* of keys.  GetKeepsPromise speaks of answers only; CacheInv says what    *)
(* the map holds between them.                                             *)
(***************************************************************************)
EXTENDS PolicyCache, TLAPS

USE TTLAssumption, KeysAssumption

CacheTypeOK ==
    /\ clock \in Nat
    /\ said \in [Keys -> [decision : BOOLEAN, at : Int]]
    /\ DOMAIN cache \subseteq Keys

(* An entry is the latest decision set for its key, with its deadline. *)
EntriesAreLatest ==
    \A k \in DOMAIN cache :
        /\ said[k].at # Never
        /\ cache[k].decision = said[k].decision
        /\ cache[k].expiresAt = said[k].at + TTL

(* No decision leaves the map before its deadline. *)
YoungAreKept ==
    \A k \in Keys : said[k].at # Never /\ clock - said[k].at < TTL => k \in DOMAIN cache

CacheInv == CacheTypeOK /\ EntriesAreLatest /\ YoungAreKept /\ GetKeepsPromise

-----------------------------------------------------------------------------
(* A get evicts what has expired and nothing else, and answers as promised *)
(* (cache.rs:22-27, :43-46).                                               *)
LEMMA GetKeepsInv ==
    ASSUME NEW k \in Keys
    PROVE  CacheInv /\ Get(k) => CacheInv'
  <1>0. SUFFICES ASSUME CacheInv, Get(k) PROVE CacheInv'
    OBVIOUS
  <1>a. CacheTypeOK /\ EntriesAreLatest /\ YoungAreKept
    BY <1>0 DEF CacheInv
  <1>b. /\ clock' = clock /\ said' = said
        /\ cache' = EvictExpired
        /\ got'.key = k
        /\ got'.answer = IF k \in DOMAIN cache' THEN Some(cache'[k].decision) ELSE Nothing
    BY <1>0 DEF Get
  <1>1. /\ DOMAIN cache' = {x \in DOMAIN cache : cache[x].expiresAt > clock}
        /\ \A x \in DOMAIN cache' : cache'[x] = cache[x]
    BY <1>b DEF EvictExpired, Unexpired
  <1>2. \A x \in Keys : said[x].at \in Int
    BY <1>a DEF CacheTypeOK
  <1>3. \A x \in DOMAIN cache : x \in Keys /\ (cache[x].expiresAt > clock <=> clock - said[x].at < TTL)
    <2> SUFFICES ASSUME NEW x \in DOMAIN cache
                 PROVE  x \in Keys /\ (cache[x].expiresAt > clock <=> clock - said[x].at < TTL)
      OBVIOUS
    <2>1. x \in Keys /\ cache[x].expiresAt = said[x].at + TTL
      BY <1>a DEF CacheTypeOK, EntriesAreLatest
    <2>2. said[x].at \in Int /\ clock \in Int
      BY <2>1, <1>2, <1>a DEF CacheTypeOK
    <2> QED
      BY <2>1, <2>2
  <1>4. CacheTypeOK'
    BY <1>a, <1>b, <1>1 DEF CacheTypeOK
  <1>5. EntriesAreLatest'
    BY <1>a, <1>b, <1>1 DEF EntriesAreLatest
  <1>6. YoungAreKept'
    BY <1>a, <1>b, <1>1, <1>3 DEF YoungAreKept
  <1>7. GetKeepsPromise'
    <2>1. CASE k \in DOMAIN cache'
      <3>1. clock - said[k].at < TTL /\ said[k].at # Never /\ cache'[k].decision = said[k].decision
        BY <2>1, <1>1, <1>3, <1>a DEF EntriesAreLatest
      <3> QED
        BY <2>1, <3>1, <1>b DEF GetKeepsPromise, Promised
    <2>2. CASE k \notin DOMAIN cache'
      <3>1. ~(said[k].at # Never /\ clock - said[k].at < TTL)
        BY <2>2, <1>6, <1>b DEF YoungAreKept
      <3> QED
        BY <2>2, <3>1, <1>b DEF GetKeepsPromise, Promised
    <2> QED
      BY <2>1, <2>2
  <1> QED
    BY <1>4, <1>5, <1>6, <1>7 DEF CacheInv

(* A set replaces the key's entry and no other (cache.rs:29-41). *)
LEMMA SetKeepsInv ==
    ASSUME NEW k \in Keys, NEW d \in BOOLEAN
    PROVE  CacheInv /\ Set(k, d) => CacheInv'
  <1>0. SUFFICES ASSUME CacheInv, Set(k, d) PROVE CacheInv'
    OBVIOUS
  <1>a. CacheTypeOK /\ EntriesAreLatest /\ YoungAreKept
    BY <1>0 DEF CacheInv
  <1>b. clock' = clock /\ got'.key = Nothing
    BY <1>0 DEF Set, NoGet
  <1>1. /\ DOMAIN cache' = DOMAIN cache \cup {k}
        /\ cache'[k] = [decision |-> d, expiresAt |-> clock + TTL]
        /\ \A x \in DOMAIN cache \ {k} : cache'[x] = cache[x]
    BY <1>0 DEF Set
  <1>2. /\ said' \in [Keys -> [decision : BOOLEAN, at : Int]]
        /\ said'[k] = [decision |-> d, at |-> clock]
        /\ \A x \in Keys \ {k} : said'[x] = said[x]
    BY <1>0, <1>a DEF Set, CacheTypeOK
  <1>3. clock # Never
    BY <1>a DEF CacheTypeOK, Never
  <1>4. CacheTypeOK'
    BY <1>a, <1>b, <1>1, <1>2 DEF CacheTypeOK
  <1>5. EntriesAreLatest'
    <2> SUFFICES ASSUME NEW x \in DOMAIN cache'
                 PROVE  /\ said'[x].at # Never
                        /\ cache'[x].decision = said'[x].decision
                        /\ cache'[x].expiresAt = said'[x].at + TTL
      BY DEF EntriesAreLatest
    <2>1. CASE x = k
      BY <2>1, <1>1, <1>2, <1>3
    <2>2. CASE x # k
      <3>1. x \in DOMAIN cache \ {k} /\ x \in Keys \ {k}
        BY <2>2, <1>1, <1>a DEF CacheTypeOK
      <3> QED
        BY <3>1, <1>1, <1>2, <1>a DEF EntriesAreLatest
    <2> QED
      BY <2>1, <2>2
  <1>6. YoungAreKept'
    BY <1>a, <1>b, <1>1, <1>2 DEF YoungAreKept
  <1>7. GetKeepsPromise'
    BY <1>b DEF GetKeepsPromise
  <1> QED
    BY <1>4, <1>5, <1>6, <1>7 DEF CacheInv

-----------------------------------------------------------------------------
(* For every lifetime, 0 included: get answers with the latest decision    *)
(* set while that is younger than the lifetime, and with nothing after     *)
(* (cache.rs:22-46).                                                       *)
THEOREM CacheTheorem == CacheSpec => []GetKeepsPromise
  <1>1. CacheInit => CacheInv
    <2> SUFFICES ASSUME CacheInit PROVE CacheInv
      OBVIOUS
    <2>1. CacheTypeOK
      BY DEF CacheInit, CacheTypeOK, Never
    <2>2. EntriesAreLatest /\ YoungAreKept /\ GetKeepsPromise
      BY DEF CacheInit, EntriesAreLatest, YoungAreKept, GetKeepsPromise, NoGet
    <2> QED
      BY <2>1, <2>2 DEF CacheInv
  <1>2. CacheInv /\ [CacheNext]_cacheVars => CacheInv'
    <2> SUFFICES ASSUME CacheInv, [CacheNext]_cacheVars PROVE CacheInv'
      OBVIOUS
    <2>1. ASSUME NEW k \in Keys, Get(k) PROVE CacheInv'
      BY <2>1, GetKeepsInv
    <2>2. ASSUME NEW k \in Keys, NEW d \in BOOLEAN, Set(k, d) PROVE CacheInv'
      BY <2>2, SetKeepsInv
    <2>3. CASE CacheAges
      <3>1. CacheTypeOK' /\ EntriesAreLatest'
        BY <2>3 DEF CacheInv, CacheAges, CacheTypeOK, EntriesAreLatest
      <3>2. YoungAreKept'
        BY <2>3 DEF CacheInv, CacheAges, CacheTypeOK, YoungAreKept
      <3>3. GetKeepsPromise'
        BY <2>3 DEF CacheAges, GetKeepsPromise, NoGet
      <3> QED
        BY <3>1, <3>2, <3>3 DEF CacheInv
    <2>4. CASE UNCHANGED cacheVars
      BY <2>4 DEF cacheVars, CacheInv, CacheTypeOK, EntriesAreLatest, YoungAreKept, GetKeepsPromise, Promised
    <2> QED
      BY <2>1, <2>2, <2>3, <2>4 DEF CacheNext
  <1>3. CacheInv => GetKeepsPromise
    BY DEF CacheInv
  <1> QED
    BY <1>1, <1>2, <1>3, PTL DEF CacheSpec
=============================================================================
