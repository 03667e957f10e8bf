---------------------------- MODULE ServerProofs ----------------------------
(***************************************************************************)
(* Proofs about Server, for any number of requests, rows and signals.      *)
(*                                                                         *)
(* Neither property is inductive by itself: that a handler finds both      *)
(* files open depends on how far main has come, and main goes on only when *)
(* the listener and the handlers are where LifeInv says.  The cleanup      *)
(* worker and the clock take no part in that; the last part is about them. *)
(***************************************************************************)
EXTENDS Server, TLAPS

Starting == {"open log", "open store", "seed", "start worker", "listen"}
Stopping == {"close store", "close log", "return"}

(* What is open at each step of main. *)
OpenAt(step) ==
    CASE step \in {"open log", "return"} -> {}
      [] step \in {"open store", "close log"} -> {"log"}
      [] OTHER -> {"log", "store"}

NoneServed == \A r \in Requests : request[r] # "served"

(* Where the listener, the requests and the files are at each step of main. *)
LifeInv ==
    /\ main \in Starting \cup {"wait", "shutdown"} \cup Stopping
    /\ request \in [Requests -> {"none", "served", "answered"}]
    /\ open = OpenAt(main)
    /\ main \in Starting => listener = "none" /\ NoneServed
    /\ main = "wait" => listener \in {"starting", "serving"}
    /\ listener = "starting" => NoneServed
    /\ main \in {"shutdown"} \cup Stopping => listener = "closed"
    /\ main \in Stopping => NoneServed
    /\ exit = "success" => main = "return"

-----------------------------------------------------------------------------
(* A process that ends keeps what LifeInv speaks of, and may call it a     *)
(* success only when main has returned.                                    *)
LEMMA DieKeepsInv ==
    ASSUME LifeInv, NEW how, Die(how), how = "success" => main = "return"
    PROVE  LifeInv'
  BY DEF LifeInv, Die, netVars, NoneServed

(* What the worker, the ticker and the clock do leaves main's side alone. *)
LEMMA WorkerKeepsInv ==
    ASSUME LifeInv, UNCHANGED mainVars
    PROVE  LifeInv'
  BY DEF LifeInv, mainVars, NoneServed

LEMMA LifeInvInit == Init => LifeInv
  BY DEF Init, LifeInv, Starting, Stopping, OpenAt, NoneServed

LEMMA LifeInvNext == LifeInv /\ [Next]_vars => LifeInv'
<1> SUFFICES ASSUME LifeInv, [Next]_vars PROVE LifeInv'
  OBVIOUS
<1> USE DEF MainGoes, procVars, netVars, signalVars
<1>1. CASE NewLogger \/ NewSQLiteStore
  BY <1>1 DEF NewLogger, NewSQLiteStore, Open, LifeInv, Starting, Stopping, OpenAt, NoneServed
<1>2. CASE SeedAdmin \/ StartWorker \/ StartListener
  BY <1>2 DEF SeedAdmin, StartWorker, StartListener, LifeInv, Starting, Stopping, OpenAt,
              NoneServed
<1>3. CASE BeginShutdown
  BY <1>3 DEF BeginShutdown, LifeInv, Starting, Stopping, OpenAt, NoneServed
<1>4. CASE ShutdownReturns
  BY <1>4 DEF ShutdownReturns, LifeInv, Starting, Stopping, OpenAt, NoneServed
<1>5. CASE CloseStore \/ CloseLog
  BY <1>5 DEF CloseStore, CloseLog, CloseDeferred, LifeInv, Starting, Stopping, OpenAt,
              NoneServed
<1>6. CASE Return
  BY <1>6, DieKeepsInv DEF Return
<1>7. CASE StartFails \/ ShutdownTimesOut
  BY <1>7, DieKeepsInv DEF StartFails, ShutdownTimesOut
<1>8. CASE ListenAndServe
  <2>1. CASE Die("fatal")
    BY <2>1, DieKeepsInv
  <2>2. CASE ~Die("fatal")
    BY <1>8, <2>2 DEF ListenAndServe, LifeInv, Starting, Stopping, NoneServed
  <2> QED
    BY <2>1, <2>2
<1>9. ASSUME NEW r \in Requests, Accept(r) PROVE LifeInv'
  BY <1>9 DEF Accept, LifeInv, Starting, Stopping, NoneServed
<1>10. ASSUME NEW r \in Requests, Answer(r) PROVE LifeInv'
  BY <1>10 DEF Answer, LifeInv, Starting, Stopping, NoneServed
<1>11. CASE WorkerStarts
  BY <1>11, DieKeepsInv, WorkerKeepsInv DEF WorkerStarts
<1>12. CASE WorkerScans \/ WorkerEnds \/ Ticks \/ Clock
  BY <1>12, WorkerKeepsInv DEF WorkerScans, WorkerEnds, Ticks, Clock
<1>13. CASE Signal
  <2>1. CASE Die("killed")
    BY <2>1, DieKeepsInv
  <2>2. CASE ~Die("killed")
    BY <1>13, <2>2 DEF Signal, LifeInv, NoneServed
  <2> QED
    BY <2>1, <2>2
<1>14. CASE UNCHANGED vars
  BY <1>14, WorkerKeepsInv DEF vars
<1> QED
  BY <1>1, <1>2, <1>3, <1>4, <1>5, <1>6, <1>7, <1>8, <1>9, <1>10, <1>11, <1>12, <1>13, <1>14
  DEF Next, Main

-----------------------------------------------------------------------------
(* The order of main holds in every behaviour: what is open, whether the   *)
(* listener accepts and what handlers may still run is fixed by how far    *)
(* main has come, whatever signals, timeouts and panics there are          *)
(* (main.go:25-191).                                                       *)
THEOREM LifeTheorem == Spec => []LifeInv
  BY LifeInvInit, LifeInvNext, PTL DEF Spec

(* No handler runs on a closed store or audit log (main.go:32, :38,        *)
(* :186-191).                                                              *)
THEOREM HandlersTheorem == Spec => []HandlersHaveStoreAndLog
<1>1. LifeInv => HandlersHaveStoreAndLog
  BY DEF LifeInv, HandlersHaveStoreAndLog, Starting, Stopping, OpenAt, NoneServed
<1> QED
  BY <1>1, LifeTheorem, PTL

(* A process that reports success has answered what it accepted, has       *)
(* stopped accepting and has closed both files (main.go:189).              *)
THEOREM CleanExitTheorem == Spec => []CleanExit
<1>1. LifeInv => CleanExit
  BY DEF LifeInv, CleanExit, Stopping, OpenAt, NoneServed
<1> QED
  BY <1>1, LifeTheorem, PTL

-----------------------------------------------------------------------------
(* The worker.  The times it compares are times of the past, and it is     *)
(* started once.                                                           *)

BeforeWorker == {"open log", "open store", "seed", "start worker"}

ScanInv ==
    /\ clock \in Nat /\ listedAt \in 0 .. clock
    /\ updatedAt \in [Users -> (0 .. clock) \cup {None}]
    /\ \A c \in users \cup reported : c.updatedAt \in Int
    /\ main \in BeforeWorker => worker = "none"
    /\ ReportsAreRight

LEMMA ScanInvInit == Init => ScanInv
<1> SUFFICES ASSUME Init PROVE ScanInv
  OBVIOUS
<1>1. /\ clock = 0 /\ listedAt = 0 /\ updatedAt \in [Users -> {0, None}]
      /\ worker = "none" /\ users = {} /\ reported = {}
  BY DEF Init, WorkerInit
<1>2. \A u \in Users : updatedAt[u] # None => ~(listedAt - updatedAt[u] > StaleAfter)
  BY <1>1, AgesAssumption
<1>3. ReportsAreRight
  BY <1>1, <1>2 DEF ReportsAreRight
<1> QED
  BY <1>1, <1>3 DEF ScanInv

(* Steps that touch neither the rows nor what the scan has found, and do   *)
(* not leave its loop.                                                     *)
LEMMA ScanUntouched ==
    ASSUME ScanInv, UNCHANGED <<clock, updatedAt, users, listedAt, reported>>,
           worker = "report" => worker' = "report",
           main' \in BeforeWorker => main \in BeforeWorker /\ worker' = worker
    PROVE  ScanInv'
  BY DEF ScanInv, ReportsAreRight, Copy

(* The five ways in which the worker's data moves. *)
LEMMA ListUsersKeeps ==
    ASSUME ScanInv, NEW isOpen, ListUsers(isOpen), UNCHANGED main
    PROVE  ScanInv'
<1>1. /\ users' = {Copy(u) : u \in {v \in Users : updatedAt[v] # None}}
      /\ worker = "list" /\ worker' = "report" /\ listedAt' = clock
      /\ UNCHANGED <<clock, updatedAt, reported>>
  BY DEF ListUsers, rowVars
<1>2. \A c \in users' : c.updatedAt \in Int
  <2>1. \A u \in Users : updatedAt[u] \in Int
    BY DEF ScanInv, None
  <2>2. \A u \in Users : Copy(u).updatedAt = updatedAt[u]
    BY DEF Copy
  <2> QED
    BY <1>1, <2>1, <2>2
<1>3. \A u \in Users : updatedAt[u] # None => Copy(u)' \in users'
  BY <1>1 DEF Copy
<1>4. ReportsAreRight'
  BY <1>1, <1>3 DEF ScanInv, ReportsAreRight, None
<1>5. main' \notin BeforeWorker
  BY <1>1 DEF ScanInv
<1>6. clock' \in Nat /\ listedAt' \in 0 .. clock'
  BY <1>1 DEF ScanInv
<1>7. \A c \in users' \cup reported' : c.updatedAt \in Int
  BY <1>1, <1>2 DEF ScanInv
<1> QED
  BY <1>1, <1>4, <1>5, <1>6, <1>7 DEF ScanInv

LEMMA ExamineKeeps ==
    ASSUME ScanInv, NEW c \in users, Examine(c), UNCHANGED main
    PROVE  ScanInv'
<1>1. /\ users' = users \ {c}
      /\ reported' = IF clock - c.updatedAt > StaleAfter THEN reported \cup {c} ELSE reported
      /\ UNCHANGED <<clock, updatedAt, worker, listedAt>> /\ worker = "report"
  BY DEF Examine, rowVars
<1>2. clock \in Nat /\ listedAt \in 0 .. clock /\ c.updatedAt \in Int
  BY DEF ScanInv
<1>3. ASSUME NEW u \in Users, updatedAt[u] # None, listedAt - updatedAt[u] > StaleAfter
      PROVE  Copy(u) \in reported' \/ Copy(u) \in users'
  <2>1. CASE Copy(u) = c
    <3>1. c.updatedAt = updatedAt[u]
      BY <2>1 DEF Copy
    <3>2. clock - c.updatedAt > StaleAfter
      BY <1>2, <1>3, <3>1, AgesAssumption
    <3> QED
      BY <1>1, <2>1, <3>2
  <2>2. CASE Copy(u) # c
    BY <1>1, <1>3, <2>2 DEF ScanInv, ReportsAreRight
  <2> QED
    BY <2>1, <2>2
<1>4. \A d \in reported' : clock - d.updatedAt > StaleAfter
  BY <1>1 DEF ScanInv, ReportsAreRight
<1>5. ReportsAreRight'
  BY <1>1, <1>3, <1>4 DEF ReportsAreRight, Copy
<1> QED
  BY <1>1, <1>5 DEF ScanInv

LEMMA EndScanKeeps ==
    ASSUME ScanInv, EndScan, UNCHANGED main
    PROVE  ScanInv'
  BY DEF EndScan, rowVars, scanVars, ScanInv, ReportsAreRight, Copy, BeforeWorker

LEMMA WriteUserKeeps ==
    ASSUME ScanInv, NEW u \in Users, NEW t \in {clock, None}, WriteUser(u, t), UNCHANGED main
    PROVE  ScanInv'
<1>1. /\ \A v \in Users : updatedAt'[v] = IF v = u THEN t ELSE updatedAt[v]
      /\ UNCHANGED <<clock, worker, users, listedAt, reported>>
      /\ clock \in Nat /\ listedAt \in 0 .. clock
  BY DEF WriteUser, scanVars, ScanInv
<1>2. updatedAt' \in [Users -> (0 .. clock) \cup {None}]
  BY <1>1 DEF WriteUser, ScanInv
<1>3. ASSUME NEW v \in Users, updatedAt'[v] # None, listedAt - updatedAt'[v] > StaleAfter
      PROVE  v # u /\ Copy(v)' = Copy(v)
  BY <1>1, <1>3, AgesAssumption DEF Copy
<1>4. ReportsAreRight'
  BY <1>1, <1>3 DEF ScanInv, ReportsAreRight
<1> QED
  BY <1>1, <1>2, <1>4 DEF ScanInv

LEMMA TimePassesKeeps ==
    ASSUME ScanInv, TimePasses, UNCHANGED main
    PROVE  ScanInv'
<1>1. /\ clock' = clock + 1 /\ UNCHANGED <<updatedAt, worker, users, listedAt, reported>>
      /\ clock \in Nat
  BY DEF TimePasses, rowVars, scanVars, ScanInv
<1>2. \A c \in reported : clock' - c.updatedAt > StaleAfter
  BY <1>1, AgesAssumption DEF ScanInv, ReportsAreRight
<1>3. ReportsAreRight'
  BY <1>1, <1>2 DEF ScanInv, ReportsAreRight, Copy
<1>4. updatedAt' \in [Users -> (0 .. clock') \cup {None}] /\ listedAt' \in 0 .. clock'
  BY <1>1 DEF ScanInv
<1> QED
  BY <1>1, <1>3, <1>4 DEF ScanInv

LEMMA ScanInvNext == ScanInv /\ [Next]_vars => ScanInv'
<1> SUFFICES ASSUME ScanInv, [Next]_vars PROVE ScanInv'
  OBVIOUS
<1> USE DEF rowVars, scanVars
<1>0. ASSUME UNCHANGED workerVars, main' \in BeforeWorker => main \in BeforeWorker
      PROVE  ScanInv'
  BY <1>0, ScanUntouched DEF workerVars
<1>1. ASSUME NEW how, Die(how) PROVE ScanInv'
  BY <1>0, <1>1 DEF Die
<1>2. CASE NewLogger \/ NewSQLiteStore \/ SeedAdmin
  BY <1>0, <1>2 DEF NewLogger, NewSQLiteStore, Open, SeedAdmin, MainGoes, BeforeWorker
<1>3. CASE StartWorker
  <2>1. worker # "report" /\ main' \notin BeforeWorker
    BY <1>3 DEF StartWorker, MainGoes, ScanInv, BeforeWorker
  <2> QED
    BY <1>3, <2>1, ScanUntouched DEF StartWorker
<1>4. CASE StartListener \/ ShutdownReturns \/ CloseStore \/ CloseLog
  BY <1>0, <1>4 DEF StartListener, ShutdownReturns, CloseStore, CloseLog, CloseDeferred,
                    MainGoes, BeforeWorker
<1>5. CASE BeginShutdown
  <2>1. main' \notin BeforeWorker
    BY <1>5 DEF BeginShutdown, MainGoes, BeforeWorker
  <2> QED
    BY <1>5, <2>1, ScanUntouched DEF BeginShutdown
<1>6. CASE Return \/ StartFails \/ ShutdownTimesOut
  BY <1>1, <1>6 DEF Return, StartFails, ShutdownTimesOut
<1>7. CASE ListenAndServe \/ Signal
  BY <1>0, <1>1, <1>7 DEF ListenAndServe, Signal
<1>8. ASSUME NEW r \in Requests, Accept(r) PROVE ScanInv'
  BY <1>0, <1>8 DEF Accept
<1>9. ASSUME NEW r \in Requests, Answer(r) PROVE ScanInv'
  <2>1. HandlerWrites /\ UNCHANGED main
    BY <1>9 DEF Answer
  <2>2. ASSUME NEW s, NEW t, WriteSession(s, t) PROVE ScanInv'
    BY <2>1, <2>2, ScanUntouched DEF WriteSession
  <2> QED
    BY <1>0, <2>1, <2>2, WriteUserKeeps DEF HandlerWrites
<1>10. CASE WorkerStarts
  <2>1. ASSUME NewTicker, UNCHANGED mainVars PROVE ScanInv'
    BY <2>1, ScanUntouched DEF NewTicker, mainVars, ScanInv
  <2> QED
    BY <1>1, <1>10, <2>1 DEF WorkerStarts
<1>11. CASE WorkerScans
  <2>1. UNCHANGED main
    BY <1>11 DEF WorkerScans, mainVars
  <2>2. ASSUME BeginScan \/ ListUsersFails("store" \in open) PROVE ScanInv'
    BY <2>1, <2>2, ScanUntouched DEF BeginScan, ListUsersFails, ScanInv
  <2> QED
    BY <1>11, <2>1, <2>2, ListUsersKeeps, ExamineKeeps, EndScanKeeps DEF WorkerScans, Scan
<1>12. CASE WorkerEnds \/ Ticks
  BY <1>12, ScanUntouched DEF WorkerEnds, WorkerStops, Ticks, TickerFires, mainVars, ScanInv
<1>13. CASE Clock
  BY <1>13, TimePassesKeeps DEF Clock, mainVars
<1>14. CASE UNCHANGED vars
  BY <1>0, <1>14 DEF vars, mainVars
<1> QED
  BY <1>2, <1>3, <1>4, <1>5, <1>6, <1>7, <1>8, <1>9, <1>10, <1>11, <1>12, <1>13, <1>14
  DEF Next, Main

(* For any accounts and age: a scan overlooks no account that was stale    *)
(* when it listed them, however handlers write and time passes meanwhile,  *)
(* and what is reported is stale (worker/cleanup.go:32-42).                *)
THEOREM ReportsTheorem == Spec => []ReportsAreRight
<1>1. ScanInv => ReportsAreRight
  BY DEF ScanInv
<1> QED
  BY <1>1, ScanInvInit, ScanInvNext, PTL DEF Spec
=============================================================================
