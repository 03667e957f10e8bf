# Formal model of infra-sec

TLA+ specifications of the auth-service (Go, `auth-service/`) and of the
policy-engine (Rust, `policy-engine/`). TLC checks small instances (`*.cfg`), TLAPS
proves the theorems of the modules `*Proofs.tla`.

## 1. The system

| Part | State | Operations | Interacts with | What makes it hard |
|---|---|---|---|---|
| SQLite store (`internal/store/sqlite.go`) | tables `users`, `sessions`, their AUTOINCREMENT sequences | 13 methods of `Store`, each one SQL statement that writes, under a `RWMutex` | called by every handler and the worker | UNIQUE constraints, ids of deleted rows, times cut to whole seconds, an unenforced foreign key, errors after a write took effect |
| In-memory store (`store.go`) | two maps, two counters | the same methods | all tests | must agree with the SQLite store; getters return live pointers |
| Account and session handlers (`handler/auth.go`, `admin.go`) | none of their own: locals of a goroutine per request | login, password change, delete one/all sessions, admin create / update / delete | 1–3 store calls each, bcrypt in between | values read by one call are written or relied on by the next while other requests run |
| JWT (`token/token.go`), middleware (`middleware/*.go`) | tokens held by clients, valid 15 minutes | sign, validate, require role or permission | wrap the handlers | claims are a copy of the account at login |
| Audit log (`audit/audit.go`) | append-only file | `Log` | called by the role and permission middleware | its errors are ignored |
| Login rate limiter (`auth.go:19`) | a token bucket | `Allow` | first line of login | burst and refill together |
| Server life cycle (`cmd/server/main.go`), cleanup worker (`worker/cleanup.go`) | process, ticker, `done` channel | start and seed, serve, shut down; periodic scan | store | crash between store calls, shutdown order, worker not joined |
| RBAC matrix, stateless handlers, token CLI | none | pure functions of the request | | |
| Policy engine (`policy-engine/src`) | index and list of policies, decision cache with deadlines | `evaluate`, `evaluate_linear`, cache `get`/`set` | | two evaluators that must agree, stale decisions |
| Concurrency examples (`policy-engine/examples`) | threads, channels, queues | thread pool, fan-out, retry queue, mpsc queue, shared cache and counter | | panics, closing channels, retries |

What would make each correct, in short: the store never confuses two rows, alive or
dead; handlers never act on a row that is not the one they checked, never undo what
others did, and always answer; tokens and decisions are stale for a bounded time;
every decision is in the log; shutdown loses nothing that was promised; the fast
evaluator decides what the slow one does; every job is done exactly once or reported.
`PROJECT.json` lists the hazards line by line.

## 2. Modules

| Module | Models |
|---|---|
| `StoreAPI` | what the `Store` interface promises: fresh ids, unique names and tokens, expiry up to a precision |
| `SQLiteStore` | `sqlite.go`: one action per write method, operators for reads |
| `SQLiteStoreImpl` | the refinement mapping from `SQLiteStore` to `StoreAPI` |
| `InMemoryStore` | `store.go`, and its mapping to `StoreAPI` |
| `Stores`, `StoresProofs` | both stores given the same calls |
| `AuthService` | the handlers of `auth.go` and `admin.go` on `SQLiteStore`, with goroutines, JWTs, store faults, time and restarts |
| `MCAuthService` | constants and symmetry for TLC |
| `AuthServiceProofs` | the theorems about `AuthService` and their proofs |
| `Gateway`, `GatewayProofs` | the way of a request: routes of `main.go`, `middleware/auth.go`, `role.go`, `authorize.go`, `rbac/`, `audit/`, `token/`, `cmd/token` |
| `LoginLimiter`, `LoginLimiterProofs` | the token bucket in front of login (`auth.go:19`, `:40`) |
| `MCGateway` | its symmetry for TLC |
| `CleanupWorker` | `worker/cleanup.go` and the rows it looks at: a component, without a next-state relation of its own |
| `Server`, `ServerProofs` | the process: `cmd/server/main.go` with listener, requests, signals and shutdown, composed with `CleanupWorker` |
| `InMemoryReaders` | the pointers `InMemoryStore` hands out, read without its lock |
| `PolicyEngine`, `PolicyEngineProofs` | `policy.rs`, `parser.rs`, `evaluator.rs` |
| `PolicyCache`, `PolicyCacheProofs` | `cache.rs` |
| `WorkQueue` | `examples/thread-pool.rs` and the bounded phase of `examples/fan-out.rs` |
| `RetryQueue` | `examples/retry-queue.rs` |
| `QueueProofs` | the theorems about `WorkQueue` and `RetryQueue` |
| `MCComponents` | `LoginLimiter`, `PolicyEngine`, `PolicyCache`, `WorkQueue` and `RetryQueue` for TLC: a behaviour runs one of them |

### The stores

A table is a function from primary key to row. `userSeq` and `sessionSeq` are
SQLite's AUTOINCREMENT sequences: a new key is one more than any key ever given out;
a failed INSERT consumes none. `CanX` is the condition under which method `X`
succeeds; driver errors change nothing and are stuttering steps at this level.
`UpdateUser` with an id that is gone fails with "not found" before the UNIQUE
constraint is looked at. Timestamps pass through `Format` (RFC 3339, whole seconds;
the clock has `SecondTicks` ticks in a second) and are compared as stored. Tokens are
drawn nondeterministically. In `AuthService` they may collide and the UNIQUE constraint
refuses the row; the in-memory store has no such check and trusts the random generator, so in
`Stores`, which calls both, a drawn token is one neither of them holds (`Drawable`). `ListUsers` and `updated_at` are in `CleanupWorker`, which alone reads them.

`StoreAPI` lets an implementation give out any id never used before, store times
up to `Precision` ticks early, and sweep a session any time between its expiry and a
`Precision` later. `SQLiteStore` implements it with `Precision` = one second,
`InMemoryStore` with one tick. `Stores` makes every call on both at once: `Call`
lets a store that refuses it (its `CanX` is false) stay as it is. Besides the two refinements this
gives `StoresAgree`, which is what makes tests on one of them tell about the other.

### The handlers

Go's `net/http` runs each request in its own goroutine. A store method is atomic
(it holds the mutex), a handler is not, so a handler is **one action per store call**;
computation on local values (comparing and hashing passwords, merging fields) belongs
to the call before it. `req[p]` is what goroutine `p` has in its locals between
two calls. `jwts` are the tokens clients hold that have not expired (expired ones
are good for nothing and are dropped when time passes); a protected request carries one of them
and is admitted on its claims alone, as `AuthMiddleware` and `RequireRole` do.
`reply` is the status of the response the last step wrote. Three fields are history, for the
properties only: `account` of a token is the row it was issued for (the code's claims
have the name alone), `bearer` of a session deletion is that account if it still
bore the name when the request arrived, and `read` of a pending write is what the row had, when it was read,
in the fields the client did not give.

Endpoints and actions: login = `LoginLookup`, `LoginSign`, `LoginOpen`; password =
`PasswordLookup`, `PasswordWrite`; `DELETE /auth/sessions/{id}` =
`DeleteSessionLookup`, `DeleteSessionCheck`, `DeleteSessionDelete`;
`DELETE /auth/sessions` = `DeleteAllLookup`, `DeleteAllDelete`; `POST /admin/users` =
`AdminCreate`; `PUT /admin/users/{id}` = `PutLookup`, `PutWrite`;
`DELETE /admin/users/{id}` = `AdminDelete`. bcrypt is `PasswordOf`, the password a hash
was made from; a password without a hash is one bcrypt refuses.

PUT reads its body only after its first store call, so `PutLookup` also has the exits
of a body that does not parse, of a role that is none (400) and of a password bcrypt refuses (500).

Failures: with `Faults`, the first store call of a request may fail, with the status its handler
gives to an error that is not "not found" (`LoginLookup`, `GetUserErrors`, ...), any further call may fail without
effect (`StoreFault`), and an UPDATE may take effect although the read-back that
follows it fails (`PasswordWrite`, `PutWrite`). `Restart` is a crash at any point: requests are
lost, the database and the clients' tokens stay, and `main()` seeds the admin
account unless the name is in use. Requests refused before their first store call change nothing and are not steps.

`Arrive` and `Proceed` only group the actions, for the fairness condition.

### The gateway

`Gateway` looks at the same requests from the other side: not what they do to the
tables but how they are let in. A request is three steps: `Authenticate`
(`AuthMiddleware`; the token is looked at here and never again), `Decide`
(`RequireRole` or `RequirePermission` up to the return of `Logger.Log`, which holds
its mutex throughout) and `Serve` (the 403 or the handler). A route without a check
goes from the first to the last. The tokens requests carry are those logins handed out, with
the role `LoginLookup` read before bcrypt ran, and any token `cmd/token` could make.
`JWT_SECRET` is taken to be set: `ServerKeys` does not hold the built-in key the
command line tool signs with. `Restart` may change the key. `recorded` is what
can be read back from `audit.log`; with `DiskFaults` a write may leave nothing or a
part of a line (`torn`), to which the next line is glued. `effective` and
`heldAt` are history. `MaxLatency` bounds a request's duration and exists to state
`RoleIsRecent`, which is a bound in terms of it.

### The limiter

`rate.Limiter` is a library type, modelled by its contract: a level that is brought up to
date only when a request is admitted. Levels count shares of a token, `RefillTime` to a token, so
the model has no rounding; the library's floating point has. `admitted` is
history of one run of the process.

### Process and worker

In `Server` each goroutine has its own program counter: `main`, `listener`, `worker`,
one per request. `log.Fatal` and a panic are `Die`: nothing deferred runs.
Signals kill before `NotifyContext` and after `stop()`, and are caught in between. The
five seconds of `Shutdown` may pass at any time. The worker's steps come from
`CleanupWorker`: the listing is a copy that grows old while the loop goes through it, it
fails now and then and always once `main` has closed the store, and ticks are dropped while
one waits. `listedAt`, a history variable, is the time of the last listing. `HandlerWrites` is what an answered request may have done to the rows; `None` is a
row that is not there. A `CLEANUP_INTERVAL` that is not positive passes the check of `main` and makes
`NewTicker` panic.

### Readers of the in-memory store

`InMemoryReaders` models one row field by field: `UpdateUser` assigns
`Username`, `PasswordHash` and `Role` one after the other under `Lock`, and a caller of
`GetUser` reads them after `RUnlock`. Reading a string during its assignment is a
data race and may give a torn value (`Torn`).

### The policy engine

`PolicyEngine` has the two loops, validation and indexing, as actions and the two
evaluators as operators on the state; `Init` ranges over all lists up to
`MaxPolicies`, malformed policies included. A name is blank or not: what `trim`
leaves of it matters no further. `PolicyCache` keeps, as history, when each key was last set, from
which `Promised` says what `get` must answer.

### Queues

`WorkQueue` covers both users of "a receiver behind a mutex": the thread pool, where
the channel is unbounded and jobs may panic, and fan-out, where it is bounded
and the sender blocks. A worker waits in `recv` with the mutex held. `OwnerWaits` and `WorkerWaits` say who
cannot go on, `StepsLeft` bounds how long the threads can. `RetryQueue` leaves open
which attempts fail and when dead letters are drained.

## 3. Runs

| Run | Result | What it shows |
|---|---|---|
| `stores` | pass | integrity of the tables, the text comparison of the listing is the comparison of times; both stores implement `StoreAPI`, and after the same calls they agree |
| `auth_sessions` | pass | a session goes only at the request of a token that bears its user's name, of that user's own client as long as the token's account bears the name (`RemovedInTheName`), and never to a later account (`NoAdoption`); `IndInv` |
| `auth_accounts` | pass | unique names and no resurrection under stale writes, renames, re-creation, faults, restarts; a field its client did not give is changed by a write only if it was changed between the write and its read (`OnlyRacesLoseFields`); every request ends, whoever wins the race for its row |
| `auth_write_race` | violation | a PUT restores stale values of fields it was not given, a password change a stale name and role |
| `auth_put_gone` | violation | a PUT whose user is deleted after its lookup is answered 500, not 404 |
| `auth_orphans` | violation | sessions of deleted users stay although a foreign key is declared |
| `gateway` | pass | every decision is in the log when it is acted on, across interleavings and restarts; the permission checked covers the operation performed; a role that was lost is honoured less than the token's lifetime plus two request durations longer, and command line tokens do not count |
| `gateway_disk` | violation | decisions are acted on although writing them failed |
| `server` | pass | handlers always have store and log; a clean exit is clean; a signal ends the process, whatever handlers and worker do; a scan overlooks no account that was stale when listed and reports no other (`ReportsAreRight`), and every stale one is reported in the end |
| `cleanup_sessions` | violation | expired sessions are never swept |
| `memory_torn` | violation | a caller of the in-memory store reads a row half assigned |
| `components` | pass | limiter: in any window at most burst plus accrual, no refusal below that; engine: index, agreement of the evaluators, inherited rights; cache: `get` against the history; queues: conservation of jobs, completion, no deadlock and termination with panics and a blocking producer, the right number of tries, `max_retries` = 0 included |

`OnlyRacesLoseFields` and `auth_write_race` belong together: the first says that a race for the very
field is the only way in which a PUT or a password change alters what it was not asked to, the second that this
way exists.

**Disagreements without a run.** Met while modelling, plain from the lines named:

- `SQLiteStore.CreateSession` takes a lifetime of 0 or less, which `tests/session_test.go:67-69`
  forbids and only `store.go:153` refuses.
- A JWT names its user by username (`auth.go:201`, `:244`, `:293`). If the account is renamed or deleted and
  another takes the name within the token's 15 minutes, the token acts on the other one, its sessions
  included. No document denies it; the tests (`tests/auth_test.go:517-564`) only have users that keep
  their names. `RemovedInTheName` is worded accordingly.
- `retry-queue.rs:137` prints the counter `failed` as `retried_failures`, and `docs/phase-1-remaining.md:161` has
  "failed (retried)"; the counter also includes a job's last failure, which is not retried (`:83`, before
  the test at `:84`): the failures that were retried are `failed` less the dead letters.
- `AuthMiddleware` logs nothing for a refused token (`middleware/auth.go:23-27`);
  `docs/incident-expired-token.md:20` says an event is logged.
- The limiter is asked before the method is looked at (`auth.go:40`, `:45`), where
  `docs/service-design-review.md:222` has `POST` only, and a full bucket lets ten logins through at
  once, where `:283` has six.
- `main` does not wait for the worker (`main.go:183-193`); `docs/phase-1-remaining.md:197` has no
  goroutine leaks.
- A `CLEANUP_INTERVAL` of zero or less is not replaced by the default (`main.go:152-156`) and panics
  (`cleanup.go:26`).
- On duplicate policies the evaluators differ (`evaluator.rs:16`, `:58`);
  `docs/concurrency-design-decisions.md:45` has them always agree. `EvaluatorsAgree` is
  about lists without duplicates.
- The pool's `drop` discards a worker's panic (`thread-pool.rs:95`), against the comment at `:93`.

**Bounds.** `MaxUserID`, `MaxSessionID` and `MaxClock` bound behaviours, not
methods: they are guards of arrivals, of the store's callers, of `Restart` and of time, so a request under
way can always finish. Two goroutines suffice for every race here, since each is
between one handler that read and one that writes; a third actor's changes are
reached by the second goroutine in successive requests. Three users are the seeded
admin, one deleted and its successor under the same name; two sessions are
one checked and one opened meanwhile; two ticks let a
token (lifetime 1) expire and a successor be dated later than its predecessor. In
`stores` a second has two ticks, so lifetimes of one and two ticks fall on
and between the boundaries; lifetimes are positive there, since the stores differ on others.
`auth_sessions` and `gateway` use the symmetry of goroutines, tokens and keys;
runs with liveness properties use none, and `auth_accounts` makes up for it with two users, two
roles, one hash and no clock (expiry is what `auth_sessions` is about), its
safety properties being proved for any number; that the hash, too, survives a write that was not given one is
the theorem's part and `auth_write_race`'s.

`gateway` has two requests at a time, every method, and four instants, enough for a token of
lifetime 1 to be signed from an old read, used at its last instant and
served one later; `me` is left out of its routes, being like `whoami`. `MaxRecords` bounds decisions,
`MaxTokens` logins. `server` has two requests and two signals, the second for the time after `stop()`,
one account that can be touched and grow stale again (the theorem about scans is for any number), and one failure. `memory_torn` has two readers
and two writers.

In `components` the bucket is small enough to run dry and fill up several times; there are
all lists of three policies over four roles, one of them outside the hierarchy, and one action,
since actions do not interact; the cache has a lifetime of two and five instants, so that entries are
replaced before, at and after their deadline. The queues have two workers, so that the last
one can die, and four jobs; capacity 1 is the smallest that blocks, 4 never does, as the pool's
unbounded channel.

**Fairness.** In `AuthService`, weak fairness of `Proceed(p)` for every
goroutine: a runnable goroutine is eventually scheduled, and Go's `RWMutex` does not
starve a waiter. Nothing is assumed of clients, faults, restarts or time. In `Server`,
weak fairness of the main goroutine, of the timeout, of the ticker and of the worker's start and scans.
Nothing is assumed of handlers, the listener or the branch `select` takes when both are ready,
so a signal ends the process even if a handler hangs and the worker goes on. In `MCComponents`,
weak fairness of the pool's owner and of each worker: threads are scheduled and jobs end; the
mutex need not be fair.

**Deadlock** is checked in the stores, the handlers and the gateway, which go on for ever. It
is not where the system ends by design: a process that has exited
(`Server`), lists that are indexed and queues that are empty (`MCComponents`). There `SignalEndsProcess` and
`DropReturns` say that the end is the intended one.

Each property has a mutant (`PROJECT.json`): a definition with a plausible bug,
standing before the definition it replaces and marked as such, under which TLC finds
the property violated.

## 4. Proofs

`AuthServiceProofs` proves, for every set of goroutines, names, roles, hashes and
tokens, any lifetimes and no bound on ids or time:

- `Invariance`: `Spec => []IndInv`;
- `TypeCorrect`, `NamesStayUnique`, `SessionsAreNotAdopted`: `TypeOK`,
  `UniqueUsernames`, `NoAdoption` are invariants;
- `DeletedStaysDeleted`: `Spec => NoResurrection`;
- `SessionsRemovedInTheName`: `Spec => RemovedInTheName`;
- `RacesAloneLoseFields`: `Spec => OnlyRacesLoseFields`;
- `AloneWritesOnlyGiven`: `WritesOnlyGiven`, if there is at most one goroutine (`Alone`). Without this it is
  false, as `auth_write_race` shows: losing a change takes two requests.

Assumptions are those of `SQLiteStore` and `AuthService`: a second has at least one
tick, lifetimes are integers (tokens' not negative), the seeded account is well typed,
`PasswordOf` maps hashes to passwords.

*Why an inductive invariant is needed.* `RemovedInTheName` is about a check made in
one step and used in a later one. It holds only because the session's id
cannot come to mean another session in between (`CheckStaysValid`), which in turn
needs all ids in the table to be at most `sessionSeq`. `NoAdoption` needs that every
user id in a session or in a goroutine's locals was given out already
(`OwnersWereIssued`), so that the next account created cannot match it, and that no account is
dated in the future (`RowsPredateNow`), so that a login that finishes now cannot
predate its account. `LocalsAreSound` adds what a handler remembers of its own request: a row to be written has what was read
in the fields that were not given, and a token whose account still bore its name was resolved to that account,
because names are unique. The theorem about one goroutine needs that what a handler read is
still in the table when it writes (`ReadIsCurrent`), through faults, restarts and time.

*Layout.* `StoreStep` collects what any step may do to the tables; `NextStoreStep`
shows that every action is one; `StoreStepInv` and `StoreStepMonotone` show what
such a step preserves. `Bystander` and `Handover` show that what goroutines
remember stays true, for those that sleep and for the one that moves; `ArriveHandlers`
and `ProceedHandlers` apply them action by action.

`LoginLimiterProofs` proves, for any burst and refill time that are not zero,
`WindowBoundTheorem` and `RefusalTheorem`. The invariant `LimiterInv` accounts for the
level: from every admission on, the level now is at most the full bucket, plus what
accrued since, less the tokens taken since; and some admission, or the
start, attains the bound. The first half gives the window bound, the second that a
refusal is due.

`PolicyEngineProofs` proves `IndexTheorem` and `AgreementTheorem` for any list of
policies and any hierarchy. `EngineInv` adds to `IndexIsLast` how far the loops
are; `IndexStep` is one turn of the loop of `Engine::new`, and `GrantsAgree` uses that the
last policy for a key is the first when there is only one. `MonotoneTheorem` needs a
hierarchy that is closed (`Closed`); `DefaultIsClosed` shows that the built-in one is. It is a
fact about the evaluator in any state, so it needs no invariant.

`PolicyCacheProofs` proves `CacheTheorem` for any keys and lifetime: an entry's deadline
is always its last setting plus the lifetime, and a key without an entry was never
set or has run out.

`StoresProofs` proves, for any calls, any number of rows and any number of ticks in a second:

- `TablesTheorem`, `UniquenessTheorem`, `StoreNoResurrectionTheorem`: the integrity of SQLite's tables,
  for every caller and not only for the handlers of `AuthService`. `DBInv` is inductive as it stands.
- `ListingTheorem`: comparing texts is comparing the times read back. `Comparing` and `FormatOrder` are
  the facts about division it rests on; the product `Parse` is not linear, so `ParseStep` does
  that part by hand.
- `SQLiteImplementsTheorem` and `MemoryImplementsTheorem`: both stores implement `StoreAPI`, one lemma for
  each operation. `SQLiteStep` and `MemoryStep` first project a step of `Stores` to one store, so that neither
  refinement uses the other.
- `StoresAgreeTheorem`. `StoresAgree` is not inductive: it says nothing of sessions that neither
  store lists, and those may differ, since the map is swept at the tick and the
  table at the second. `AgreeInv` says that the next ids are equal, that the table holds all the map holds, with the
  expiry cut to the second, and that a row it holds alone has expired (`SweptAlike`); the last of these
  stays true because time only advances.

`SQLiteImplementsTheorem` and `StoresAgreeTheorem` assume lifetimes that are positive. The code
does not check this in `sqlite.go`; the lifetime is 24 hours by default and `auth.go:89` ignores a
`SESSION_TTL` that is not positive, so only an overflow breaks it (see the hazard at `auth.go:90`).

`GatewayProofs` proves, for any finite set of goroutines, any users, roles, keys and any lifetimes:

- `GatewayTypeTheorem` and `OperationsTheorem`. `OpsInv` remembers, for a request between its
  check and its handler, which permission belongs to its operation; `RoutesAreGuarded` reads that off the two
  switches over the method.
- `RoleIsRecentTheorem`, if the server's keys do not include the one built into `cmd/token`: without
  this it is false. `ClaimsInv` carries the bound along the life of a role: read by a login that is under way
  (`SignerRecent`), signed into a token (`TokenRecent`), copied into a request (`RequestRecent`). Each stage
  adds at most one duration.
- `DecisionsTheorem`, if writes do not fail: `gateway_disk` is the counterexample otherwise. The log and the decisions
  acted on are bags, and `RecordedInv` is an inequality: how often an event was acted on, plus the requests about
  to act on it, is at most how often it was written.

`ServerProofs` proves `HandlersTheorem` and `CleanExitTheorem` for any number of requests, from
`LifeInv`: which files are open, whether the listener accepts and whether a handler may be running, at each step of
`main`; the worker plays no part in it. `ReportsTheorem` is about the worker, for any accounts and age. `ScanInv` adds
to `ReportsAreRight` that all times it compares are past, so that a write during the scan
takes an account out of what was stale when listed, and that `main` starts the worker once.

`QueueProofs` proves, for any workers, jobs, capacities and retries:

- `ConservedTheorem` and `DropTheorem`. The properties count places; `PoolInv` says without counting that the holders of
  a job are unique and exclude each other, and `AtMostOne` turns that into numbers. It is
  stronger on losses than `JobsAreConserved`: a job is lost only if *all* workers panicked,
  because one that left its loop found the channel closed and empty (`Lifecycle`).
- `AccountedTheorem`, `DeadLettersTheorem`, `TriesTheorem`, from `RetryInv`: each job is in one of four states, and the
  attempt kept with a waiting job is the number of its tries and below the limit (`Waiting`). `TailJobs`, `AppendJobs`
  and `ConcatJobs` are what taking, requeueing and draining do to a list of distinct jobs.
- `CallsAreBounded`. The calls of the job function are a set, of jobs with attempt numbers, and a
  try adds one element to it (`CallsGrow`); so the count needs no sum over the jobs. That set is part of a product,
  so `run` calls the job function at most `max_retries` times per job in all, and its loop ends.
- `DeadlockFreeTheorem`: whoever waits, waits for the holder of the mutex in the end, and the holder only for a
  message the owner can then send, because `Lifecycle` has the sender open exactly while the owner submits.
- `ProgressTheorem`: `StepsLeft` is a number that every step of every thread lowers. Together these two are
  what `DropReturns` rests on: the pool takes at most `4 * jobs + 2 * workers + 3` steps, and before
  the last of them some thread can take the next. Only that a thread which can go on does is left to fairness.

The assumptions on constants, besides those above, keep names apart (`NamesOfThreadsAssumption`: a job is not one of the
words for a worker's state), say that a bound is a number, or that workers and jobs are finitely many (`FiniteAssumption`); TLC evaluates them in the runs.

Only model-checked: `RequestsComplete`, `SignalEndsProcess`, `StaleIsReported` and `DropReturns`, since liveness under fairness is out of
the prover's reach. `ReportsTheorem` is the part of `StaleIsReported` that is safety, and
`DeadlockFreeTheorem` and `ProgressTheorem` that of `DropReturns`. Every other property of a passing run
is a theorem.

## 5. Plan

1. *(done)* Stores, the interface they implement, the handlers with their races, the
   inductive invariant and its theorems.
2. *(done)* Gateway, limiter, server and worker, readers of the in-memory store, policy engine and
   cache, queues; theorems about limiter, engine and cache.
3. *(done)* Theorems about the stores and their refinement of `StoreAPI`, the gateway, the server and the queues.
4. *(done)* What a write may do to fields it was not given, for any goroutines and for one alone; the worker's scans; the
   calls of the retry queue; freedom from deadlock and progress of the pool.

## 6. Not modelled

- Read-only endpoints (list sessions, list and get users, health) and `RequestLogger`: they change
  nothing and answer from one read.
- HTTP parsing, JSON, wording of errors; bcrypt, signatures and random tokens beyond
  their contract; floating point in `rate.Limiter`.
- `examples/mpsc-queue.rs`, `concurrent-cache.rs`, `shared-counter.rs` and the other phases of
  `fan-out.rs`: each step is one call of a channel or of a mutex-protected container, so a model
  would restate the library.
- The delays `retry-queue.rs` computes: it does not wait for them.
