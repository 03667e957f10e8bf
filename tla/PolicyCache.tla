---------------------------- MODULE PolicyCache ----------------------------
(***************************************************************************)
(* The decision cache of the policy engine (policy-engine/src/cache.rs): a *)
(* map from role and action to a decision and a deadline.  Expired entries *)
(* leave only when get is called, all of them at once.                     *)
(***************************************************************************)
EXTENDS Integers

CONSTANTS
    Keys,           \* pairs of a role and an action
    TTL,
    MaxClock        \* bound of the explored behaviours

ASSUME TTLAssumption == TTL \in Nat

VARIABLES
    clock,
    cache,      \* the map
    said,       \* history: for each key the latest decision set, and when
    got         \* the key of the latest get and its answer, until the next step

cacheVars == <<clock, cache, said, got>>

Nothing == "None"
ASSUME KeysAssumption == Nothing \notin Keys

Never == -1
Some(d) == IF d THEN "Some(true)" ELSE "Some(false)"
NoGet == [key |-> Nothing, answer |-> Nothing]

(* mutant: an entry still counts at its deadline. *)
UnexpiredLate(e) == e.expiresAt >= clock
Unexpired(e) == e.expiresAt > clock

EvictExpired == [k \in {x \in DOMAIN cache : Unexpired(cache[x])} |-> cache[k]]

Get(k) ==
    /\ cache' = EvictExpired
    /\ got' = [key |-> k,
               answer |-> IF k \in DOMAIN cache' THEN Some(cache'[k].decision) ELSE Nothing]
    /\ UNCHANGED <<clock, said>>

Set(k, d) ==
    /\ cache' = [x \in DOMAIN cache \cup {k} |->
                    IF x = k THEN [decision |-> d, expiresAt |-> clock + TTL] ELSE cache[x]]
    /\ said' = [said EXCEPT ![k] = [decision |-> d, at |-> clock]]
    /\ got' = NoGet
    /\ UNCHANGED clock

CacheAges ==
    /\ clock < MaxClock
    /\ clock' = clock + 1
    /\ got' = NoGet
    /\ UNCHANGED <<cache, said>>

CacheInit ==
    /\ clock = 0
    /\ cache = [k \in {} |-> [decision |-> FALSE, expiresAt |-> 0]]
    /\ said = [k \in Keys |-> [decision |-> FALSE, at |-> Never]]
    /\ got = NoGet

CacheNext ==
    \/ \E k \in Keys : Get(k) \/ \E d \in BOOLEAN : Set(k, d)
    \/ CacheAges

CacheSpec == CacheInit /\ [][CacheNext]_cacheVars

-----------------------------------------------------------------------------
(* What a cache of this lifetime promises, from the history alone. *)
Promised(k) ==
    IF said[k].at # Never /\ clock - said[k].at < TTL THEN Some(said[k].decision) ELSE Nothing

(* get answers with the latest decision set for the key while that is      *)
(* younger than the lifetime, and with nothing from the deadline on: no    *)
(* older decision comes back, and evicting other keys costs none           *)
(* (cache.rs:22-46).                                                       *)
GetKeepsPromise == got.key \in Keys => got.answer = Promised(got.key)
=============================================================================
