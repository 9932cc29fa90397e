-------------------------- MODULE EmbeddingDaemon --------------------------
(***************************************************************************)
(* The model daemon of daemon/server.py, as main() runs it: the port is    *)
(* bound, the models are warmed up in a thread while requests are already  *)
(* answered, and the serving loop ends on a signal or when the warmup did  *)
(* not reach the ready state.  Several processes compete for the port, as  *)
(* they do when a new daemon is installed over a running one; the          *)
(* installer asks daemon/client.py whether the process it started is the   *)
(* one that is ready.                                                      *)
(***************************************************************************)
EXTENDS Naturals, FiniteSets

CONSTANTS
    Daemons,      \* processes
    NoDaemon,     \* the port is free
    MaxRequests   \* bound: inference requests of each process

ASSUME DaemonAssumption == NoDaemon \notin Daemons /\ MaxRequests \in Nat

VARIABLES
    proc,         \* where main() and _serve_forever stand
    code,         \* the exit code of a process that has ended
    port,         \* the process bound to the port
    warming,      \* the runtime initialization thread
    errors,       \* the components whose warmup failed
    memory,       \* the models in memory
    health,       \* _health_state
    startupFailed,\* _startup_failed
    terminated,   \* a signal has requested the shutdown
    observing,    \* the daemon's watcher runs
    handling,     \* request threads past _require_ready
    asked,        \* inference requests received
    reported      \* processes the installer has reported as ready

daemonState == <<proc, code, port, warming, errors, memory, health,
                 startupFailed, terminated, observing, handling, asked,
                 reported>>

Models == {"embed", "rerank"}

Running(p) == proc[p] \notin {"off", "exited"}
Exited(p) == proc[p] = "exited"

DaemonInit ==
    /\ proc = [p \in Daemons |-> "off"] /\ code = [p \in Daemons |-> 0]
    /\ port = NoDaemon
    /\ warming = [p \in Daemons |-> "none"]
    /\ errors = [p \in Daemons |-> {}]
    /\ memory = [p \in Daemons |-> {}]
    /\ health = [p \in Daemons |-> "starting"]
    /\ startupFailed = [p \in Daemons |-> FALSE]
    /\ terminated = [p \in Daemons |-> FALSE]
    /\ observing = [p \in Daemons |-> FALSE]
    /\ handling = [p \in Daemons |-> 0] /\ asked = [p \in Daemons |-> 0]
    /\ reported = {}

\* The threads of a process end with it.
Exit(p, status) ==
    /\ proc' = [proc EXCEPT ![p] = "exited"]
    /\ code' = [code EXCEPT ![p] = status]
    /\ warming' = [warming EXCEPT ![p] = "none"]
    /\ observing' = [observing EXCEPT ![p] = FALSE]
    /\ handling' = [handling EXCEPT ![p] = 0]
    /\ memory' = [memory EXCEPT ![p] = {}]

-----------------------------------------------------------------------------

\* start(): the port is bound and the initialization thread started,
BindPort(p) ==
    /\ proc[p] = "off" /\ port = NoDaemon
    /\ port' = p
    /\ proc' = [proc EXCEPT ![p] = "serving"]
    /\ warming' = [warming EXCEPT ![p] = "warmup"]
    /\ UNCHANGED <<code, errors, memory, health, startupFailed, terminated,
                   observing, handling, asked, reported>>

\* or the port is in use and the process ends without loading a model.
BindFails(p) ==
    /\ proc[p] = "off" /\ port # NoDaemon
    /\ health' = [health EXCEPT ![p] = "failed"]
    /\ Exit(p, 1)
    /\ UNCHANGED <<port, errors, startupFailed, terminated, asked, reported>>

\* warmup() loads each model or records its error.
Warmup(p) ==
    /\ warming[p] = "warmup"
    /\ warming' = [warming EXCEPT ![p] = "warmed"]
    /\ \E failed \in SUBSET Models :
          /\ errors' = [errors EXCEPT ![p] = failed]
          /\ memory' = [memory EXCEPT ![p] = @ \cup (Models \ failed)]
    /\ UNCHANGED <<proc, code, port, health, startupFailed, terminated,
                   observing, handling, asked, reported>>

WarmupState(failed, inMemory) ==
    IF failed = Models THEN "failed"
    ELSE IF failed # {} \/ inMemory # Models THEN "degraded" ELSE "ready"

\* _initialize_runtime derives the health; a start that is not ready ends
\* the serving loop.
SetHealth(p) ==
    /\ warming[p] = "warmed"
    /\ LET state == WarmupState(errors[p], memory[p]) IN
          /\ health' = [health EXCEPT ![p] = state]
          /\ startupFailed' = [startupFailed EXCEPT ![p] = state # "ready"]
          /\ warming' = [warming EXCEPT
                           ![p] = IF state = "ready" THEN "watcher" ELSE "done"]
    /\ UNCHANGED <<proc, code, port, errors, memory, terminated, observing,
                   handling, asked, reported>>

\* _start_watcher, without a vault or with an error: no watcher.
StartWatcher(p) ==
    /\ warming[p] = "watcher"
    /\ warming' = [warming EXCEPT ![p] = "done"]
    /\ \E started \in BOOLEAN :
          observing' = [observing EXCEPT ![p] = started]
    /\ UNCHANGED <<proc, code, port, errors, memory, health, startupFailed,
                   terminated, handling, asked, reported>>

\* SIGTERM or SIGINT.
Terminate(p) ==
    /\ Running(p) /\ ~terminated[p]
    /\ terminated' = [terminated EXCEPT ![p] = TRUE]
    /\ UNCHANGED <<proc, code, port, warming, errors, memory, health,
                   startupFailed, observing, handling, asked, reported>>

\* Defect: the loop looks only at the signal.
LeaveOnSignal(p) ==
    /\ proc[p] = "serving" /\ terminated[p]
    /\ proc' = [proc EXCEPT ![p] = "closing"]
    /\ observing' = [observing EXCEPT ![p] = FALSE]
    /\ UNCHANGED <<code, port, warming, errors, memory, health,
                   startupFailed, terminated, handling, asked, reported>>

\* The serving loop ends, and a watcher that has been started is stopped.
LeaveLoop(p) ==
    /\ proc[p] = "serving" /\ (terminated[p] \/ startupFailed[p])
    /\ proc' = [proc EXCEPT ![p] = "closing"]
    /\ observing' = [observing EXCEPT ![p] = FALSE]
    /\ UNCHANGED <<code, port, warming, errors, memory, health,
                   startupFailed, terminated, handling, asked, reported>>

\* server_close.
ClosePort(p) ==
    /\ proc[p] = "closing"
    /\ port' = NoDaemon
    /\ proc' = [proc EXCEPT ![p] = "joining"]
    /\ UNCHANGED <<code, warming, errors, memory, health, startupFailed,
                   terminated, observing, handling, asked, reported>>

\* The initialization thread is waited for, at most 5 s, the models are
\* released and start() returns or raises; main() turns the exception into
\* exit code 1.
FinishServing(p) ==
    /\ proc[p] = "joining"
    /\ Exit(p, IF startupFailed[p] THEN 1 ELSE 0)
    /\ UNCHANGED <<port, errors, health, startupFailed, terminated, asked,
                   reported>>

-----------------------------------------------------------------------------
(* Requests.                                                               *)

\* health_snapshot.
Status(p) ==
    IF health[p] = "ready" /\ memory[p] # Models THEN "degraded"
    ELSE health[p]

\* Defect: a daemon that is still starting lets requests through.
AdmitStarting(p) == Status(p) \in {"starting", "ready"}

\* _require_ready.
Admits(p) == Status(p) = "ready"

Request(p) ==
    /\ proc[p] = "serving" /\ asked[p] < MaxRequests
    /\ asked' = [asked EXCEPT ![p] = @ + 1]
    /\ handling' = [handling EXCEPT ![p] = IF Admits(p) THEN @ + 1 ELSE @]
    /\ UNCHANGED <<proc, code, port, warming, errors, memory, health,
                   startupFailed, terminated, observing, reported>>

\* A request thread runs its inference; the models it needs are loaded if
\* a shutdown has released them.
Infer(p) ==
    /\ Running(p) /\ handling[p] > 0
    /\ handling' = [handling EXCEPT ![p] = @ - 1]
    /\ \E used \in Models : memory' = [memory EXCEPT ![p] = @ \cup {used}]
    /\ UNCHANGED <<proc, code, port, warming, errors, health, startupFailed,
                   terminated, observing, asked, reported>>

\* Defect: the answer of any ready daemon is accepted.
AnyHealthIsReady(p) == port # NoDaemon /\ Status(port) = "ready"

\* _health_is_ready with an expected PID: the answer comes from whichever
\* process holds the port.
HealthIsReady(p) ==
    port # NoDaemon /\ Status(port) = "ready" /\ port = p

\* The installer polls is_daemon_running for the process it started.
Report(p) ==
    /\ p \notin reported /\ HealthIsReady(p)
    /\ reported' = reported \cup {p}
    /\ UNCHANGED <<proc, code, port, warming, errors, memory, health,
                   startupFailed, terminated, observing, handling, asked>>

DaemonStep(p) ==
    \/ Warmup(p) \/ SetHealth(p) \/ StartWatcher(p) \/ LeaveLoop(p)
    \/ ClosePort(p) \/ FinishServing(p)

DaemonNext ==
    \E p \in Daemons :
        \/ BindPort(p) \/ BindFails(p) \/ DaemonStep(p) \/ Terminate(p)
        \/ Request(p) \/ Infer(p) \/ Report(p)

DaemonFairness ==
    \A p \in Daemons :
        /\ WF_daemonState(LeaveLoop(p)) /\ WF_daemonState(ClosePort(p))
        /\ WF_daemonState(FinishServing(p)) /\ WF_daemonState(SetHealth(p))

DaemonSpec == DaemonInit /\ [][DaemonNext]_daemonState /\ DaemonFairness

-----------------------------------------------------------------------------

\* The installer reports a process as ready only if that very process has
\* become ready, not because another daemon still holds the port.
LaunchIsOurs == \A p \in reported : health[p] = "ready"

\* No inference is running on a daemon that has not completed its warmup.
InferenceNeedsReady == \A p \in Daemons : handling[p] > 0 => health[p] = "ready"

\* Readiness means the same to launchers and to requests: a launcher reports
\* its own ready daemon, and only a ready one runs inferences.
DaemonSound == LaunchIsOurs /\ InferenceNeedsReady

\* A daemon that was told to stop, or whose warmup did not reach the ready
\* state, ends; one that ends without a signal does so with an error code.
DaemonEnds ==
    <>[](\A p \in Daemons :
            /\ terminated[p] \/ startupFailed[p] => Exited(p)
            /\ Exited(p) /\ ~terminated[p] => code[p] = 1)
=============================================================================
