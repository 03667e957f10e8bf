------------------------------- MODULE Server -------------------------------
(***************************************************************************)
(* The life of the auth-service process (cmd/server/main.go): the main     *)
(* goroutine opens the audit log and the store, starts the cleanup worker  *)
(* (module CleanupWorker) and the listener, waits for a signal and shuts   *)
(* down within five seconds.  log.Fatal ends the process without running   *)
(* deferred calls; a return from main runs them, newest first.             *)
(*                                                                         *)
(* The five seconds may pass at any moment.  net/http is modelled by its   *)
(* contract: Shutdown stops the listener and returns once no request is    *)
(* being served, or when its context expires.                              *)
(***************************************************************************)
EXTENDS CleanupWorker

CONSTANTS
    Requests,
    CleanupIntervals,   \* what CLEANUP_INTERVAL may be set to
    MaxSignals          \* bound on the signals sent

ASSUME IntervalsAssumption ==
    CleanupIntervals \subseteq {"unset", "unparsable", "positive", "not positive"}

VARIABLES
    main,       \* the next step of the main goroutine
    exit,       \* how the process ended, "running" while it has not
    open,       \* which of the audit log and the store are open
    env,        \* CLEANUP_INTERVAL
    listener,
    request,    \* what becomes of each request
    caught,     \* TRUE iff signals are caught rather than deadly
    ctxDone,    \* TRUE iff a signal was caught
    signals

procVars == <<exit, env>>
netVars == <<listener, request>>
signalVars == <<caught, ctxDone, signals>>
mainVars == <<main, exit, open, env, listener, request, caught, ctxDone, signals>>
vars == <<mainVars, workerVars>>

Alive == exit = "running"

(* The process ends at once, with what it holds as it is. *)
Die(how) ==
    /\ exit' = how
    /\ UNCHANGED <<main, open, env, workerVars, netVars, signalVars>>

MainGoes(from, to) == Alive /\ main = from /\ main' = to /\ UNCHANGED procVars

-----------------------------------------------------------------------------
(* Starting.  Each of these ends the process if it fails. *)

Open(what, from, to) ==
    /\ MainGoes(from, to)
    /\ open' = open \cup {what}
    /\ UNCHANGED <<workerVars, netVars, signalVars>>

NewLogger == Open("log", "open log", "open store")
NewSQLiteStore == Open("store", "open store", "seed")

(* An admin account that is already there is no error. *)
SeedAdmin ==
    /\ MainGoes("seed", "start worker")
    /\ UNCHANGED <<open, workerVars, netVars, signalVars>>

StartFails ==
    /\ Alive /\ main \in {"open log", "open store", "seed"}
    /\ Die("fatal")

CleanupInterval == IF env \in {"unset", "unparsable"} THEN "positive" ELSE env

StartWorker ==
    /\ MainGoes("start worker", "listen")
    /\ worker' = "starting"
    /\ UNCHANGED <<clock, rowVars, tick, done, scanVars, failures>>
    /\ UNCHANGED <<open, netVars, signalVars>>

StartListener ==
    /\ MainGoes("listen", "wait")
    /\ caught' = TRUE
    /\ listener' = "starting"
    /\ UNCHANGED <<open, workerVars, request, ctxDone, signals>>

-----------------------------------------------------------------------------
(* Serving. *)

ListenAndServe ==
    /\ Alive /\ listener = "starting"
    /\ \/ Die("fatal")
       \/ /\ listener' = "serving"
          /\ UNCHANGED <<main, procVars, open, workerVars, request, signalVars>>

Accept(r) ==
    /\ Alive /\ listener = "serving" /\ request[r] = "none"
    /\ request' = [request EXCEPT ![r] = "served"]
    /\ UNCHANGED <<main, procVars, open, workerVars, listener, signalVars>>

(* What a handler may do to the rows, None standing for a deleted one. *)
HandlerWrites ==
    \/ \E u \in Users, t \in {clock, None} : WriteUser(u, t)
    \/ \E s \in Sessions, t \in {clock + SessionTTL, None} : WriteSession(s, t)
    \/ UNCHANGED workerVars

Answer(r) ==
    /\ Alive /\ request[r] = "served"
    /\ request' = [request EXCEPT ![r] = "answered"]
    /\ HandlerWrites
    /\ UNCHANGED <<main, procVars, open, listener, signalVars>>

-----------------------------------------------------------------------------
(* The cleanup goroutine.  A panic in it ends the process. *)

WorkerStarts ==
    /\ Alive
    /\ \/ CleanupInterval # "not positive" /\ NewTicker /\ UNCHANGED mainVars
       \/ CleanupInterval = "not positive" /\ worker = "starting" /\ Die("panic")

WorkerScans == Alive /\ Scan("store" \in open) /\ UNCHANGED mainVars
WorkerEnds == Alive /\ WorkerStops /\ UNCHANGED mainVars
Ticks == Alive /\ TickerFires /\ UNCHANGED mainVars
Clock == Alive /\ TimePasses /\ UNCHANGED mainVars

-----------------------------------------------------------------------------
(* Stopping. *)

Signal ==
    /\ Alive /\ signals < MaxSignals
    /\ IF caught
       THEN /\ ctxDone' = TRUE /\ signals' = signals + 1
            /\ UNCHANGED <<main, procVars, open, workerVars, netVars, caught>>
       ELSE Die("killed")

(* <-ctx.Done(), stop(), close(workerDone) and Shutdown's first steps. *)
BeginShutdown ==
    /\ ctxDone /\ MainGoes("wait", "shutdown")
    /\ caught' = FALSE
    /\ done' = TRUE
    /\ listener' = "closed"
    /\ UNCHANGED <<clock, rowVars, tick, worker, scanVars, failures>>
    /\ UNCHANGED <<open, request, ctxDone, signals>>

ShutdownReturns ==
    /\ MainGoes("shutdown", "close store")
    /\ \A r \in Requests : request[r] # "served"
    /\ UNCHANGED <<open, workerVars, netVars, signalVars>>

(* mutants: the error is logged and main returns; Shutdown has no deadline. *)
ShutdownErrorIgnored ==
    /\ MainGoes("shutdown", "close store")
    /\ UNCHANGED <<open, workerVars, netVars, signalVars>>

ShutdownUnbounded == FALSE /\ UNCHANGED vars

ShutdownTimesOut == Alive /\ main = "shutdown" /\ Die("fatal")

(* The deferred calls; the mutant leaves the store out. *)
CloseDeferred(what, from, to) ==
    /\ MainGoes(from, to)
    /\ open' = open \ {what}
    /\ UNCHANGED <<workerVars, netVars, signalVars>>

CloseStoreForgotten ==
    /\ MainGoes("close store", "close log")
    /\ UNCHANGED <<open, workerVars, netVars, signalVars>>

CloseStore == CloseDeferred("store", "close store", "close log")
CloseLog == CloseDeferred("log", "close log", "return")

Return == Alive /\ main = "return" /\ Die("success")

-----------------------------------------------------------------------------
Init ==
    /\ main = "open log" /\ exit = "running" /\ open = {}
    /\ env \in CleanupIntervals
    /\ WorkerInit
    /\ listener = "none"
    /\ request = [r \in Requests |-> "none"]
    /\ caught = FALSE /\ ctxDone = FALSE /\ signals = 0

Main ==
    \/ NewLogger \/ NewSQLiteStore \/ SeedAdmin \/ StartWorker \/ StartListener
    \/ BeginShutdown \/ ShutdownReturns \/ CloseStore \/ CloseLog \/ Return

Next ==
    \/ Main \/ StartFails \/ ShutdownTimesOut
    \/ ListenAndServe
    \/ \E r \in Requests : Accept(r) \/ Answer(r)
    \/ WorkerStarts \/ WorkerScans \/ WorkerEnds \/ Ticks \/ Clock
    \/ Signal

Spec == Init /\ [][Next]_vars

(***************************************************************************)
(* The main goroutine and the worker's are scheduled, the ticker fires     *)
(* again and the five seconds pass.  Nothing is assumed of the handlers:   *)
(* bcrypt or a slow client may keep one busy.                              *)
(***************************************************************************)
FairSpec ==
    /\ Spec
    /\ WF_vars(Main) /\ WF_vars(ShutdownTimesOut)
    /\ WF_vars(WorkerStarts) /\ WF_vars(WorkerScans) /\ WF_vars(Ticks)

-----------------------------------------------------------------------------
(* A handler never meets a closed store or audit log, whatever the order   *)
(* in which the listener, the signals, the handlers and the deferred calls *)
(* of main run (main.go:32, :38, :186-191).                                *)
HandlersHaveStoreAndLog ==
    Alive /\ (\E r \in Requests : request[r] = "served") => open = {"log", "store"}

(* The process reports success only after everything accepted is answered, *)
(* nothing is accepted any more and both files are closed (main.go:189).   *)
CleanExit ==
    exit = "success" =>
        /\ \A r \in Requests : request[r] # "served"
        /\ listener = "closed" /\ open = {}

(* A signal that was caught ends the process, even if a handler never      *)
(* returns (main.go:181-191).                                              *)
SignalEndsProcess == ctxDone ~> ~Alive

(* An account nobody writes to is reported by some scan after it becomes   *)
(* stale, unless the server is stopped first: neither an error of          *)
(* ListUsers, nor a handler writing during the scan, nor a tick dropped    *)
(* while a scan runs makes the worker miss it for good                     *)
(* (worker/cleanup.go:29-42).                                              *)
StaleIsReported ==
    \A u \in Users : IsStale(u) ~> (~IsStale(u) \/ Copy(u) \in reported \/ done \/ ~Alive)

(* The worker performs periodic session cleanup: the row of an expired     *)
(* session goes away while the server runs (worker/cleanup.go:32).         *)
ExpiredIsSwept ==
    \A s \in Sessions : IsExpired(s) ~> (~IsExpired(s) \/ done \/ ~Alive)
=============================================================================
