----------------------------- MODULE LifeCycle -----------------------------
(***************************************************************************)
(* main.go: the main goroutine serves until the listener is closed and     *)
(* then returns, which ends the process; another goroutine waits for       *)
(* SIGINT or SIGTERM, stops the worker and calls server.Shutdown with ten  *)
(* seconds for the requests in progress. A server that cannot listen at    *)
(* all (log.Fatalf) is left out.                                           *)
(***************************************************************************)
EXTENDS Naturals

CONSTANTS
    Request,    \* requests in the course of the process's life
    Grace       \* the timeout of Shutdown's context, in ticks

VARIABLES
    main,       \* the main goroutine: "serving" or "exited", the process with it
    stopper,    \* the goroutine of the signals
    worker,     \* runAutoResetCredits
    listening,  \* the server accepts connections
    request,    \* "expected", "active", "answered", "cut"
    elapsed     \* time since Shutdown was called

vars == <<main, stopper, worker, listening, request, elapsed>>

TypeOK ==
    /\ main \in {"serving", "exited"}
    /\ stopper \in {"waiting", "signalled", "stopping", "shuttingDown", "done"}
    /\ worker \in {"off", "running", "cancelled", "returned", "killed"}
    /\ listening \in BOOLEAN
    /\ request \in [Request -> {"expected", "active", "answered", "cut"}]
    /\ elapsed \in 0..Grace

Init ==
    /\ main = "serving"
    /\ stopper = "waiting"
    /\ worker \in {"off", "running"}
    /\ listening = TRUE
    /\ request = [r \in Request |-> "expected"]
    /\ elapsed = 0

Alive == main = "serving"

Arrive(r) ==
    /\ Alive /\ listening
    /\ request[r] = "expected"
    /\ request' = [request EXCEPT ![r] = "active"]
    /\ UNCHANGED <<main, stopper, worker, listening, elapsed>>

Respond(r) ==
    /\ Alive
    /\ request[r] = "active"
    /\ request' = [request EXCEPT ![r] = "answered"]
    /\ UNCHANGED <<main, stopper, worker, listening, elapsed>>

Signal ==
    /\ Alive /\ stopper = "waiting"
    /\ stopper' = "signalled"
    /\ UNCHANGED <<main, worker, listening, request, elapsed>>

StopWorkers ==
    /\ Alive /\ stopper = "signalled"
    /\ stopper' = "stopping"
    /\ worker' = IF worker = "running" THEN "cancelled" ELSE worker
    /\ UNCHANGED <<main, listening, request, elapsed>>

WorkerReturns ==
    /\ Alive /\ worker = "cancelled"
    /\ worker' = "returned"
    /\ UNCHANGED <<main, stopper, listening, request, elapsed>>

(* server.Shutdown closes the listener and begins to wait.                 *)
Shutdown ==
    /\ Alive /\ stopper = "stopping"
    /\ stopper' = "shuttingDown"
    /\ listening' = FALSE
    /\ UNCHANGED <<main, worker, request, elapsed>>

Tick ==
    /\ Alive /\ stopper = "shuttingDown"
    /\ elapsed < Grace
    /\ elapsed' = elapsed + 1
    /\ UNCHANGED <<main, stopper, worker, listening, request>>

(* It returns when no request is in progress or its context is done.       *)
ShutdownReturns ==
    /\ Alive /\ stopper = "shuttingDown"
    /\ elapsed = Grace \/ \A r \in Request : request[r] # "active"
    /\ stopper' = "done"
    /\ UNCHANGED <<main, worker, listening, request, elapsed>>

(* ListenAndServe returns ErrServerClosed as soon as the listener is       *)
(* closed, main returns, and everything that is still running ends.        *)
MainReturns ==
    /\ Alive /\ ~listening
    /\ main' = "exited"
    /\ request' = [r \in Request |-> IF request[r] = "active" THEN "cut" ELSE request[r]]
    /\ worker' = IF worker \in {"running", "cancelled"} THEN "killed" ELSE worker
    /\ UNCHANGED <<stopper, listening, elapsed>>

Next ==
    \/ \E r \in Request : Arrive(r) \/ Respond(r)
    \/ Signal \/ StopWorkers \/ WorkerReturns \/ Shutdown \/ Tick \/ ShutdownReturns
    \/ MainReturns

Spec == Init /\ [][Next]_vars

(* What main.go's goroutine intends and its log message "graceful shutdown *)
(* failed" presupposes: a request in progress when the process is told to  *)
(* stop is answered, unless it takes longer than the timeout.              *)
GracefulShutdown == \A r \in Request : request[r] = "cut" => elapsed = Grace

=============================================================================
