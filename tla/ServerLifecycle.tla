-------------------------- MODULE ServerLifecycle --------------------------
(***************************************************************************)
(* The life of the server process: main() of server/mcp.py with its two    *)
(* initialization threads, and the shutdown of utils/shutdown.py, which a  *)
(* signal starts in a thread of its own and the end of the interpreter     *)
(* starts through atexit.  The services are kept as running or not; what   *)
(* they do while they run is the matter of their own modules.              *)
(***************************************************************************)
EXTENDS Naturals, Sequences, FiniteSets

CONSTANTS
    MaxSignals,   \* bound: SIGTERM and SIGINT received
    Raising       \* the callbacks that may raise, each once

ASSUME LifecycleAssumption ==
    MaxSignals \in Nat /\ Raising \subseteq {"watcher", "models"}

VARIABLES
    main,         \* where main() stands
    initThreads,  \* _init_threads, the threads a shutdown waits for
    data,         \* the next step of _init_data_services
    catalogReady, \* what _init_catalog returned
    warm,         \* the thread of _init_model_warmup
    inProgress,   \* _shutdown_in_progress
    signals,      \* signals received
    calls,        \* the calls of ShutdownManager.shutdown, one per caller
    todo,         \* what the callbacks thread of each call has left to run
    joining,      \* the initialization threads it still has to join
    waited,       \* the initialization threads it saw finished
    attempted,    \* the callbacks that have been called, in order
    raised,       \* the callbacks that raised
    watching,     \* the watcher's observer runs
    reconciling,  \* the catalog's reconciliation thread is alive
    reconcileStop,\* the catalog's _stop_event
    loaded        \* the warmup left the models in memory

startVars == <<main, initThreads, data, catalogReady, warm>>
stopVars == <<inProgress, signals, calls, todo, joining, waited, attempted,
              raised>>
serviceVars == <<watching, reconciling, reconcileStop, loaded>>
lifecycleVars == <<startVars, stopVars, serviceVars>>

\* The callers of shutdown(): the thread of each signal, and atexit.
Callers == 1..MaxSignals \cup {0}
Atexit == 0

\* Defect: the wait for the initialization threads is registered first.
InitRegisteredFirst ==
    <<"init", "jobs", "queue", "watcher", "catalog", "models">>

\* The callbacks in the order they are registered: the two of crud_tools
\* when the tools are registered, the four of mcp.py in main().
Registered == <<"jobs", "queue", "watcher", "catalog", "models", "init">>

\* The callbacks in the order run_callbacks takes them.
Lifo == [i \in 1..Len(Registered) |-> Registered[Len(Registered) + 1 - i]]

Alive == main # "dead"

LifecycleInit ==
    /\ main = "registered" /\ initThreads = {} /\ data = "none"
    /\ catalogReady = FALSE /\ warm = "none"
    /\ inProgress = FALSE /\ signals = 0
    /\ calls = [c \in Callers |-> "none"]
    /\ todo = [c \in Callers |-> <<>>]
    /\ joining = {} /\ waited = {} /\ attempted = <<>> /\ raised = {}
    /\ watching = FALSE /\ reconciling = FALSE /\ reconcileStop = FALSE
    /\ loaded = FALSE

-----------------------------------------------------------------------------
(* The main thread.  A thread is listed only after it has been started.    *)

StartThreads ==
    /\ \/ /\ main = "registered" /\ main' = "dataStarted"
          /\ data' = "catalog" /\ UNCHANGED <<initThreads, warm>>
       \/ /\ main = "dataStarted" /\ main' = "warmStarted"
          /\ initThreads' = initThreads \cup {"data"}
          /\ warm' = "running" /\ UNCHANGED data
       \/ /\ main = "warmStarted" /\ main' = "serving"
          /\ initThreads' = initThreads \cup {"warmup"}
          /\ UNCHANGED <<data, warm>>
    /\ UNCHANGED <<catalogReady, stopVars, serviceVars>>

\* mcp.run returns: the client has closed the standard input.
ServeEnds ==
    /\ main = "serving"
    /\ main' = "exiting"
    /\ UNCHANGED <<initThreads, data, catalogReady, warm, stopVars,
                   serviceVars>>

-----------------------------------------------------------------------------
(* The initialization threads.                                             *)

\* _init_data_services: without a data directory the thread ends; every
\* later step is entered whatever the one before it met.  The
\* synchronization of the index and the prewarming of the searcher start no
\* service and are part of the first step.
DataStep ==
    /\ Alive
    /\ \/ /\ data = "catalog" /\ data' \in {"reconcile", "done"}
          /\ catalogReady' \in {FALSE, data' # "done"}
          /\ UNCHANGED serviceVars
       \/ /\ data = "reconcile" /\ data' = "watcher"
          /\ \/ /\ catalogReady /\ ~reconciling
                /\ reconciling' = TRUE /\ reconcileStop' = FALSE
             \/ UNCHANGED <<reconciling, reconcileStop>>
          /\ UNCHANGED <<catalogReady, watching, loaded>>
       \/ /\ data = "watcher" /\ data' = "done"
          /\ watching' \in {watching, TRUE}
          /\ UNCHANGED <<catalogReady, reconciling, reconcileStop, loaded>>
    /\ UNCHANGED <<main, initThreads, warm, stopVars>>

\* warmup() loads the models, or fails and is only logged.
WarmStep ==
    /\ Alive /\ warm = "running" /\ warm' = "done"
    /\ loaded' \in {loaded, TRUE}
    /\ UNCHANGED <<main, initThreads, data, catalogReady, stopVars, watching,
                   reconciling, reconcileStop>>

\* The reconciliation loop sees its stop event.
ReconcilerEnds ==
    /\ Alive /\ reconciling /\ reconcileStop
    /\ reconciling' = FALSE
    /\ UNCHANGED <<startVars, stopVars, watching, reconcileStop, loaded>>

-----------------------------------------------------------------------------
(* Signals and the end of the interpreter.                                 *)

\* Defect: the handler records the signal and starts no shutdown.
UnheededSignal ==
    /\ Alive /\ signals < MaxSignals
    /\ signals' = signals + 1
    /\ UNCHANGED <<startVars, inProgress, calls, todo, joining, waited,
                   attempted, raised, serviceVars>>

\* _signal_handler, on the main thread: a thread for shutdown(), or
\* SystemExit when a shutdown is already in progress.  In the atexit handler
\* that exception ends the wait for the callbacks.
Signal ==
    /\ Alive /\ signals < MaxSignals
    /\ signals' = signals + 1
    /\ IF inProgress
       THEN /\ main' = IF main = "atexit" THEN "dead" ELSE "exiting"
            /\ UNCHANGED calls
       ELSE /\ calls' = [calls EXCEPT ![signals'] = "entered"]
            /\ UNCHANGED main
    /\ UNCHANGED <<initThreads, data, catalogReady, warm, inProgress, todo,
                   joining, waited, attempted, raised, serviceVars>>

\* _atexit_handler, and the end of the process with its daemon threads.
InterpreterExit ==
    /\ \/ /\ main = "exiting" /\ inProgress
          /\ main' = "dead" /\ UNCHANGED calls
       \/ /\ main = "exiting" /\ ~inProgress
          /\ main' = "atexit"
          /\ calls' = [calls EXCEPT ![Atexit] = "entered"]
       \/ /\ main = "atexit" /\ calls[Atexit] \in {"done", "timeout"}
          /\ main' = "dead" /\ UNCHANGED calls
    /\ UNCHANGED <<initThreads, data, catalogReady, warm, inProgress,
                   signals, todo, joining, waited, attempted, raised,
                   serviceVars>>

\* Defect: the callers do not exclude one another.
UnguardedShutdown(c) ==
    /\ Alive /\ calls[c] = "entered"
    /\ inProgress' = TRUE
    /\ calls' = [calls EXCEPT ![c] = "joining"]
    /\ todo' = [todo EXCEPT ![c] = Lifo]
    /\ UNCHANGED <<startVars, signals, joining, waited, attempted, raised,
                   serviceVars>>

\* shutdown() up to the start of its callbacks thread.
ShutdownStarts(c) ==
    /\ Alive /\ calls[c] = "entered"
    /\ IF inProgress
       THEN /\ calls' = [calls EXCEPT ![c] = "done"]
            /\ UNCHANGED <<inProgress, todo>>
       ELSE /\ inProgress' = TRUE
            /\ calls' = [calls EXCEPT ![c] = "joining"]
            /\ todo' = [todo EXCEPT ![c] = Lifo]
    /\ UNCHANGED <<startVars, signals, joining, waited, attempted, raised,
                   serviceVars>>

\* Defect: shutdown() does not wait for its callbacks thread.
UnawaitedCallbacks(c) ==
    /\ Alive /\ calls[c] = "joining"
    /\ calls' = [calls EXCEPT ![c] = "done"]
    /\ UNCHANGED <<startVars, inProgress, signals, todo, joining, waited,
                   attempted, raised, serviceVars>>

\* The join of the callbacks thread succeeds or times out after 30 s.
ShutdownReturns(c) ==
    /\ Alive /\ calls[c] = "joining"
    /\ calls' = [calls EXCEPT
                   ![c] = IF todo[c] = <<>> THEN "done" ELSE "timeout"]
    /\ UNCHANGED <<startVars, inProgress, signals, todo, joining, waited,
                   attempted, raised, serviceVars>>

-----------------------------------------------------------------------------
(* The callbacks thread.                                                   *)

Called(c, callback) ==
    /\ Alive /\ todo[c] # <<>> /\ Head(todo[c]) = callback
    /\ todo' = [todo EXCEPT ![c] = Tail(@)]
    /\ attempted' = Append(attempted, callback)

\* _shutdown_init_threads joins the listed threads one by one, each for at
\* most 5 s; a thread listed meanwhile is joined too.
JoinInitThread(c) ==
    /\ Alive /\ todo[c] # <<>> /\ Head(todo[c]) = "init"
    /\ \E t \in initThreads \ joining :
          /\ t = "data" \/ "data" \in joining
          /\ joining' = joining \cup {t}
          /\ waited' = IF (t = "data" /\ data = "done")
                             \/ (t = "warmup" /\ warm = "done")
                       THEN waited \cup {t} ELSE waited
    /\ UNCHANGED <<startVars, inProgress, signals, calls, todo, attempted,
                   raised, serviceVars>>

InitCallback(c) ==
    /\ Called(c, "init") /\ initThreads \subseteq joining
    /\ UNCHANGED <<startVars, inProgress, signals, calls, joining, waited,
                   raised, serviceVars>>

ModelsCallback(c) ==
    /\ Called(c, "models")
    /\ loaded' = FALSE
    /\ UNCHANGED <<startVars, inProgress, signals, calls, joining, waited,
                   raised, watching, reconciling, reconcileStop>>

\* stop_reconciliation sets the event and waits at most 5 s.
CatalogCallback(c) ==
    /\ Called(c, "catalog")
    /\ reconcileStop' = TRUE
    /\ UNCHANGED <<startVars, inProgress, signals, calls, joining, waited,
                   raised, watching, reconciling, loaded>>

WatcherCallback(c) ==
    /\ Called(c, "watcher")
    /\ watching' = FALSE
    /\ UNCHANGED <<startVars, inProgress, signals, calls, joining, waited,
                   raised, reconciling, reconcileStop, loaded>>

\* ReindexQueue.stop and FrontmatterEnrichmentJobManager.stop.
DrainCallback(c) ==
    /\ Called(c, "queue") \/ Called(c, "jobs")
    /\ UNCHANGED <<startVars, inProgress, signals, calls, joining, waited,
                   raised, serviceVars>>

\* The watcher's stop or the release of the models raises before it has
\* done anything; run_callbacks logs the exception and goes on.
CallbackRaises(c) ==
    /\ \E callback \in Raising \ raised :
          /\ Called(c, callback)
          /\ raised' = raised \cup {callback}
    /\ UNCHANGED <<startVars, inProgress, signals, calls, joining, waited,
                   serviceVars>>

Callback(c) ==
    \/ JoinInitThread(c) \/ InitCallback(c) \/ ModelsCallback(c)
    \/ CatalogCallback(c) \/ WatcherCallback(c) \/ DrainCallback(c)

LifecycleNext ==
    \/ StartThreads \/ ServeEnds
    \/ DataStep \/ WarmStep \/ ReconcilerEnds
    \/ Signal \/ InterpreterExit
    \/ \E c \in Callers : ShutdownStarts(c) \/ ShutdownReturns(c)
                          \/ Callback(c) \/ CallbackRaises(c)

LifecycleFairness ==
    /\ WF_lifecycleVars(StartThreads)
    /\ WF_lifecycleVars(InterpreterExit)
    /\ \A c \in Callers : /\ WF_lifecycleVars(ShutdownStarts(c))
                          /\ WF_lifecycleVars(ShutdownReturns(c))
                          /\ WF_lifecycleVars(Callback(c))

LifecycleSpec ==
    LifecycleInit /\ [][LifecycleNext]_lifecycleVars /\ LifecycleFairness

-----------------------------------------------------------------------------

\* Every registered callback has been called.
AllAttempted == Len(attempted) = Len(Registered)

CallbacksFinished == inProgress /\ \A c \in Callers : todo[c] = <<>>

\* Whatever the signals and the atexit handler do at the same time, each
\* callback is called at most once, in reverse order of registration, and a
\* callback that raises keeps none of the later ones from being called.
CallbacksOnceInOrder ==
    /\ Len(attempted) <= Len(Registered)
    /\ \A i \in DOMAIN attempted :
          attempted[i] = Registered[Len(Registered) + 1 - i]
    /\ CallbacksFinished => AllAttempted

\* Once the callbacks have run, and the data initialization was seen to end
\* before them, the watcher is stopped and the reconciliation is told to
\* stop, and a warmup seen to end has left no model behind: nothing is
\* started behind the callback that stops it.
NothingRestarts ==
    CallbacksFinished /\ "data" \in waited =>
        /\ watching => "watcher" \in raised
        /\ reconciling => reconcileStop
        /\ loaded /\ "warmup" \in waited => "models" \in raised

\* A process that ends because its client left, and not by a signal, has
\* called every callback or has waited for them until the timeout.
CleanExit ==
    main = "dead" /\ signals = 0 =>
        AllAttempted \/ calls[Atexit] = "timeout"

\* GracefulShutdown: its callbacks run once, in reverse order, and nothing
\* they stopped runs again; the process does not end before them.
ShutdownSound == CallbacksOnceInOrder /\ NothingRestarts /\ CleanExit

\* A signal leads to every callback being called, or to the process ending.
SignalHeeded == signals > 0 ~> (AllAttempted \/ main = "dead")
=============================================================================
