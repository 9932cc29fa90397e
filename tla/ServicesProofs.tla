--------------------------- MODULE ServicesProofs ---------------------------
(***************************************************************************)
(* Theorems about the services of the server and the daemon, each for any  *)
(* number of threads, calls, jobs, signals and processes: the graceful     *)
(* shutdown, the enrichment jobs, the catalog's reconciliation threads,    *)
(* the model manager and the embedding daemon.  Every part has an          *)
(* inductive invariant, one lemma per group of actions, and the theorem.   *)
(***************************************************************************)
EXTENDS ServerLifecycle, EnrichmentJobs, NotesCatalog, ModelService,
        EmbeddingDaemon, TLAPS, FiniteSetTheorems, SequenceTheorems,
        WellFoundedInduction, NaturalsInduction

(***************************************************************************)
(* The start and the shutdown of the server                                *)
(***************************************************************************)

CallStates == {"none", "entered", "joining", "done", "timeout"}

CallbackNames == {"jobs", "queue", "watcher", "catalog", "models", "init"}

LifeType ==
    /\ main \in {"registered", "dataStarted", "warmStarted", "serving",
                 "exiting", "atexit", "dead"}
    /\ data \in {"none", "catalog", "reconcile", "watcher", "done"}
    /\ warm \in {"none", "running", "done"}
    /\ inProgress \in BOOLEAN /\ signals \in 0..MaxSignals
    /\ calls \in [Callers -> CallStates]
    /\ todo \in [Callers -> Seq(CallbackNames)] /\ attempted \in Seq(CallbackNames)
    /\ watching \in BOOLEAN /\ reconciling \in BOOLEAN
    /\ reconcileStop \in BOOLEAN /\ loaded \in BOOLEAN

\* The callers that have come: the threads of the signals received, and
\* atexit once the interpreter is ending.
CallersArrived ==
    /\ \A c \in Callers : calls[c] # "none" => c =< signals
    /\ calls[Atexit] # "none" => main \in {"atexit", "dead"}

\* Caller o runs the callbacks: those it has left are the ones after those
\* attempted, and it returns "done" only when none is left.
RunsCallbacks(o) ==
    /\ calls[o] \in {"joining", "done", "timeout"}
    /\ Len(todo[o]) = 6 - Len(attempted)
    /\ \A i \in 1..Len(todo[o]) : todo[o][i] = Lifo[Len(attempted) + i]
    /\ calls[o] = "done" => Len(attempted) = 6
    /\ \A c \in Callers \ {o} :
          todo[c] = <<>> /\ calls[c] \in {"none", "entered", "done"}

\* One caller at most runs the callbacks, in reverse order of registration.
OneRunner ==
    /\ Len(attempted) =< 6
    /\ \A i \in 1..Len(attempted) : attempted[i] = Lifo[i]
    /\ inProgress => \E o \in Callers : RunsCallbacks(o)
    /\ ~inProgress =>
          /\ attempted = <<>>
          /\ \A c \in Callers : todo[c] = <<>> /\ calls[c] \in {"none", "entered"}

\* What each callback has stopped stays stopped once the thread that starts
\* it was seen to end.
StoppedStays ==
    /\ "data" \in waited => data = "done"
    /\ "warmup" \in waited => warm = "done"
    /\ Len(attempted) >= 2 /\ "warmup" \in waited /\ loaded =>
          "models" \in raised
    /\ Len(attempted) >= 3 /\ "data" \in waited /\ reconciling =>
          reconcileStop
    /\ Len(attempted) >= 4 /\ "data" \in waited /\ watching =>
          "watcher" \in raised

\* Only a thread that is listed is waited for, and none is listed before it
\* was started.
ThreadsListed ==
    /\ waited \subseteq initThreads
    /\ main \in {"registered", "dataStarted"} => initThreads = {}
    /\ main = "warmStarted" => initThreads = {"data"}

LifeInv ==
    /\ LifeType /\ ThreadsListed /\ CallersArrived /\ OneRunner /\ StoppedStays /\ CleanExit

-----------------------------------------------------------------------------

\* The callbacks in the order run_callbacks takes them.
LEMMA LifoOrder ==
    /\ Len(Registered) = 6 /\ Lifo = [i \in 1..6 |-> Registered[7 - i]]
    /\ Lifo[1] = "init" /\ Lifo[2] = "models" /\ Lifo[3] = "catalog"
    /\ Lifo[4] = "watcher" /\ Lifo[5] = "queue" /\ Lifo[6] = "jobs"
    /\ Lifo \in Seq(CallbackNames) /\ Len(Lifo) = 6
<1>1. Len(Registered) = 6
  BY DEF Registered
<1>2. Lifo = [i \in 1..6 |-> Registered[7 - i]]
  BY <1>1 DEF Lifo
<1>3. \A i \in 1..6 : Lifo[i] = Registered[7 - i]
  BY <1>2
<1>4. /\ Lifo[1] = Registered[6] /\ Lifo[2] = Registered[5]
      /\ Lifo[3] = Registered[4] /\ Lifo[4] = Registered[3]
      /\ Lifo[5] = Registered[2] /\ Lifo[6] = Registered[1]
  BY <1>3
<1>5. /\ Registered[1] = "jobs" /\ Registered[2] = "queue"
      /\ Registered[3] = "watcher" /\ Registered[4] = "catalog"
      /\ Registered[5] = "models" /\ Registered[6] = "init"
  BY DEF Registered
<1>6. \A i \in 1..6 : Lifo[i] \in CallbackNames
  <2>1. \A i \in 1..6 : i = 1 \/ i = 2 \/ i = 3 \/ i = 4 \/ i = 5 \/ i = 6
    OBVIOUS
  <2>. QED
    BY <1>4, <1>5, <2>1 DEF CallbackNames
<1>7. Lifo \in Seq(CallbackNames) /\ Len(Lifo) = 6
  <2>1. Lifo \in [1..6 -> CallbackNames]
    BY <1>2, <1>6
  <2>2. Lifo \in Seq(CallbackNames)
    BY <2>1, SeqDef
  <2>3. Len(Lifo) \in Nat /\ 1..Len(Lifo) = 1..6
    BY <2>1, <2>2, LenProperties
  <2>4. 6 \in 1..6
    OBVIOUS
  <2>5. 6 \in 1..Len(Lifo)
    BY <2>3, <2>4, Zenon
  <2>6. Len(Lifo) \in 1..Len(Lifo)
    <3>1. \A n \in Nat : 6 \in 1..n => n \in 1..n
      OBVIOUS
    <3>. QED
      BY <2>3, <2>5, <3>1, Zenon
  <2>7. Len(Lifo) \in 1..6
    BY <2>3, <2>6, Zenon
  <2>8. \A n \in Nat : 6 \in 1..n /\ n \in 1..6 => n = 6
    OBVIOUS
  <2>. QED
    BY <2>2, <2>3, <2>5, <2>7, <2>8, Zenon
<1>. QED
  BY <1>1, <1>2, <1>4, <1>5, <1>7

LEMMA LifeInitInv == LifecycleInit => LifeInv
<1> SUFFICES ASSUME LifecycleInit PROVE LifeInv
  OBVIOUS
<1> USE DEF LifecycleInit, Callers, Atexit
<1>1. LifeType
  <2>1. calls \in [Callers -> CallStates] /\ todo \in [Callers -> Seq(CallbackNames)]
        /\ attempted \in Seq(CallbackNames)
    BY DEF CallStates
  <2>2. signals \in 0..MaxSignals
    BY LifecycleAssumption
  <2>. QED
    BY <2>1, <2>2 DEF LifeType
<1>2. CallersArrived /\ OneRunner /\ StoppedStays /\ CleanExit
  BY DEF CallersArrived, OneRunner, StoppedStays, CleanExit
<1>3. ThreadsListed
  BY DEF ThreadsListed
<1>. QED
  BY <1>1, <1>2, <1>3 DEF LifeInv

\* The main thread's steps before the end touch no shutdown.
LEMMA StartKeeps ==
    ASSUME LifeInv, StartThreads \/ ServeEnds
    PROVE  LifeInv'
<1> USE DEF LifeInv
<1>1. UNCHANGED <<stopVars, serviceVars>> /\ main # "dead" /\ main' # "dead"
      /\ main \notin {"atexit"}
  BY DEF StartThreads, ServeEnds
<1>2. LifeType'
  BY <1>1 DEF LifeType, StartThreads, ServeEnds, stopVars, serviceVars
<1>3. CallersArrived'
  BY <1>1 DEF CallersArrived, stopVars
<1>4. OneRunner'
  BY <1>1 DEF OneRunner, RunsCallbacks, stopVars
<1>5. StoppedStays'
  BY <1>1 DEF StoppedStays, ThreadsListed, stopVars, serviceVars,
     StartThreads, ServeEnds
<1>7. ThreadsListed'
  BY <1>1 DEF ThreadsListed, stopVars, StartThreads, ServeEnds
<1>6. CleanExit'
  BY <1>1 DEF CleanExit
<1>. QED
  BY <1>2, <1>3, <1>4, <1>5, <1>6, <1>7

LEMMA InitThreadKeeps ==
    ASSUME LifeInv, DataStep \/ WarmStep \/ ReconcilerEnds
    PROVE  LifeInv'
<1> USE DEF LifeInv
<1>1. UNCHANGED <<stopVars, main, initThreads>> /\ main # "dead"
  BY DEF DataStep, WarmStep, ReconcilerEnds, startVars, Alive
<1>2. LifeType'
  <2>1. UNCHANGED <<main, inProgress, signals, calls, todo, attempted>>
    BY <1>1 DEF stopVars
  <2>2. data' \in {"none", "catalog", "reconcile", "watcher", "done"}
        /\ warm' \in {"none", "running", "done"}
    BY DEF LifeType, DataStep, WarmStep, ReconcilerEnds, startVars
  <2>3. watching' \in BOOLEAN /\ loaded' \in BOOLEAN
    BY DEF LifeType, DataStep, WarmStep, ReconcilerEnds, serviceVars
  <2>4. reconciling' \in BOOLEAN /\ reconcileStop' \in BOOLEAN
    BY DEF LifeType, DataStep, WarmStep, ReconcilerEnds, serviceVars
  <2>. QED
    BY <2>1, <2>2, <2>3, <2>4 DEF LifeType
<1>3. CallersArrived' /\ ThreadsListed' /\ CleanExit'
  BY <1>1 DEF CallersArrived, ThreadsListed, CleanExit, stopVars
<1>4. OneRunner'
  BY <1>1 DEF OneRunner, RunsCallbacks, stopVars
<1>5. StoppedStays'
  <2>1. CASE DataStep
    <3>1. "data" \notin waited
      BY <2>1 DEF StoppedStays, DataStep
    <3>2. UNCHANGED <<warm, loaded, waited, attempted, raised>>
      BY <2>1 DEF DataStep, stopVars, serviceVars
    <3>. QED
      BY <3>1, <3>2 DEF StoppedStays
  <2>2. CASE WarmStep
    BY <2>2, <1>1 DEF StoppedStays, WarmStep, stopVars
  <2>3. CASE ReconcilerEnds
    BY <2>3, <1>1 DEF StoppedStays, ReconcilerEnds, stopVars, startVars
  <2>. QED
    BY <2>1, <2>2, <2>3
<1>. QED
  BY <1>2, <1>3, <1>4, <1>5

\* A signal's thread is a new caller; a second signal ends the main thread.
LEMMA SignalKeeps == ASSUME LifeInv, Signal PROVE LifeInv'
<1> USE DEF LifeInv
<1>1. /\ UNCHANGED <<initThreads, data, catalogReady, warm, inProgress, todo,
                     joining, waited, attempted, raised, serviceVars>>
      /\ signals' = signals + 1 /\ signals < MaxSignals /\ main # "dead"
      /\ signals \in Nat /\ MaxSignals \in Nat /\ signals' # 0
  BY LifecycleAssumption DEF Signal, Alive, LifeType
<1>2. signals' \in Callers /\ signals' # Atexit /\ calls[signals'] = "none"
      /\ Atexit \in Callers
  BY <1>1 DEF Callers, Atexit, CallersArrived
<1>3. CASE inProgress
  <2>1. calls' = calls /\ main' = IF main = "atexit" THEN "dead" ELSE "exiting"
    BY <1>3 DEF Signal
  <2>2. LifeType'
    BY <1>1, <2>1 DEF LifeType, serviceVars
  <2>3. CallersArrived'
    <3>1. \A c \in Callers : c \in Nat
      BY <1>1 DEF Callers
    <3>2. calls[Atexit] # "none" => main = "atexit"
      BY <1>1 DEF CallersArrived
    <3>. QED
      BY <1>1, <2>1, <3>1, <3>2 DEF CallersArrived
  <2>4. OneRunner'
    BY <1>1, <2>1 DEF OneRunner, RunsCallbacks
  <2>5. StoppedStays' /\ ThreadsListed' /\ CleanExit'
    BY <1>1, <2>1 DEF StoppedStays, ThreadsListed, CleanExit, serviceVars
  <2>. QED
    BY <2>2, <2>3, <2>4, <2>5
<1>4. CASE ~inProgress
  <2>1. calls' = [calls EXCEPT ![signals'] = "entered"] /\ main' = main
    BY <1>4 DEF Signal
  <2>2. /\ calls'[signals'] = "entered"
        /\ \A c \in Callers : c # signals' => calls'[c] = calls[c]
        /\ calls' \in [Callers -> CallStates]
    BY <2>1, <1>2 DEF LifeType, CallStates
  <2>3. LifeType'
    BY <1>1, <2>1, <2>2 DEF LifeType, serviceVars
  <2>4. CallersArrived'
    <3>1. \A c \in Callers : c \in Nat
      BY <1>1 DEF Callers
    <3>2. calls'[Atexit] = calls[Atexit]
      BY <1>2, <2>2
    <3>3. \A c \in Callers : calls'[c] # "none" => c =< signals'
      BY <3>1, <2>2, <1>1 DEF CallersArrived
    <3>. QED
      BY <2>1, <3>2, <3>3 DEF CallersArrived
  <2>5. OneRunner'
    BY <1>1, <1>4, <2>2 DEF OneRunner
  <2>6. StoppedStays' /\ ThreadsListed' /\ CleanExit'
    BY <1>1, <2>1 DEF StoppedStays, ThreadsListed, CleanExit, serviceVars
  <2>. QED
    BY <2>3, <2>4, <2>5, <2>6
<1>. QED
  BY <1>3, <1>4

\* The interpreter ends: without a shutdown in progress atexit becomes a
\* caller, and the process is dead once that call has returned.
LEMMA ExitKeeps == ASSUME LifeInv, InterpreterExit PROVE LifeInv'
<1> USE DEF LifeInv
<1>1. /\ UNCHANGED <<initThreads, data, catalogReady, warm, inProgress,
                     signals, todo, joining, waited, attempted, raised,
                     serviceVars>>
      /\ main \in {"exiting", "atexit"} /\ main' \in {"atexit", "dead"}
      /\ Atexit \in Callers /\ Atexit = 0
      /\ signals \in Nat /\ \A c \in Callers : c \in Nat
  BY LifecycleAssumption DEF InterpreterExit, Callers, Atexit, LifeType
<1>2. StoppedStays' /\ ThreadsListed'
  BY <1>1 DEF StoppedStays, ThreadsListed, serviceVars
<1>3. CASE main = "exiting" /\ ~inProgress
  <2>1. main' = "atexit" /\ calls' = [calls EXCEPT ![Atexit] = "entered"]
    BY <1>3 DEF InterpreterExit
  <2>2. /\ calls'[Atexit] = "entered"
        /\ \A c \in Callers : c # Atexit => calls'[c] = calls[c]
        /\ calls' \in [Callers -> CallStates]
    BY <2>1, <1>1 DEF LifeType, CallStates
  <2>3. LifeType'
    BY <1>1, <2>1, <2>2 DEF LifeType, serviceVars
  <2>4. CallersArrived'
    BY <1>1, <2>1, <2>2 DEF CallersArrived
  <2>5. OneRunner'
    BY <1>1, <1>3, <2>2 DEF OneRunner
  <2>6. CleanExit'
    BY <2>1 DEF CleanExit
  <2>. QED
    BY <1>2, <2>3, <2>4, <2>5, <2>6
<1>4. CASE ~(main = "exiting" /\ ~inProgress)
  <2>1. main' = "dead" /\ calls' = calls
        /\ \/ main = "exiting" /\ inProgress
           \/ main = "atexit" /\ calls[Atexit] \in {"done", "timeout"}
    BY <1>4 DEF InterpreterExit
  <2>2. LifeType' /\ CallersArrived'
    BY <1>1, <2>1 DEF LifeType, CallersArrived, serviceVars
  <2>3. OneRunner'
    BY <1>1, <2>1 DEF OneRunner, RunsCallbacks
  <2>4. CleanExit'
    <3> SUFFICES ASSUME signals = 0, calls[Atexit] # "timeout"
                 PROVE  Len(attempted) = Len(Registered)
      BY <1>1, <2>1 DEF CleanExit, AllAttempted
    <3>1. \A c \in Callers : c # Atexit => calls[c] = "none"
      BY <1>1 DEF CallersArrived
    <3>2. inProgress
      BY <1>1, <2>1 DEF OneRunner
    <3>3. PICK o \in Callers : RunsCallbacks(o)
      BY <3>2 DEF OneRunner
    <3>4. o = Atexit
      BY <3>1, <3>3 DEF RunsCallbacks
    <3>5. main = "atexit" /\ calls[Atexit] = "done"
      BY <2>1, <3>3, <3>4 DEF CallersArrived, RunsCallbacks
    <3>. QED
      BY <3>3, <3>4, <3>5, LifoOrder DEF RunsCallbacks
  <2>. QED
    BY <1>2, <2>2, <2>3, <2>4
<1>. QED
  BY <1>3, <1>4

\* Of several callers only the first runs the callbacks, from the last
\* registered.
LEMMA ShutdownStartsKeeps ==
    ASSUME LifeInv, NEW c \in Callers, ShutdownStarts(c)
    PROVE  LifeInv'
<1> USE DEF LifeInv
<1>1. /\ UNCHANGED <<startVars, signals, joining, waited, attempted, raised,
                     serviceVars>>
      /\ calls[c] = "entered" /\ main # "dead" /\ Atexit \in Callers
  BY DEF ShutdownStarts, Alive, Callers, Atexit
<1>2. StoppedStays' /\ ThreadsListed' /\ CleanExit'
  BY <1>1 DEF StoppedStays, ThreadsListed, CleanExit, serviceVars, startVars
<1>3. CASE inProgress
  <2>1. /\ calls' = [calls EXCEPT ![c] = "done"]
        /\ UNCHANGED <<inProgress, todo>>
    BY <1>3 DEF ShutdownStarts
  <2>2. /\ calls'[c] = "done"
        /\ \A d \in Callers : d # c => calls'[d] = calls[d]
        /\ calls' \in [Callers -> CallStates]
    BY <2>1 DEF LifeType, CallStates
  <2>3. LifeType'
    BY <1>1, <2>1, <2>2 DEF LifeType, serviceVars, startVars
  <2>4. CallersArrived'
    BY <1>1, <2>2 DEF CallersArrived, startVars
  <2>5. OneRunner'
    <3>1. PICK o \in Callers : RunsCallbacks(o)
      BY <1>3 DEF OneRunner
    <3>2. c # o
      BY <1>1, <3>1 DEF RunsCallbacks
    <3>3. RunsCallbacks(o)'
      BY <1>1, <2>1, <2>2, <3>1, <3>2 DEF RunsCallbacks
    <3>. QED
      BY <1>1, <1>3, <2>1, <3>3 DEF OneRunner
  <2>. QED
    BY <1>2, <2>3, <2>4, <2>5
<1>4. CASE ~inProgress
  <2>1. /\ inProgress' = TRUE
        /\ calls' = [calls EXCEPT ![c] = "joining"]
        /\ todo' = [todo EXCEPT ![c] = Lifo]
    BY <1>4 DEF ShutdownStarts
  <2>2. /\ calls'[c] = "joining" /\ todo'[c] = Lifo
        /\ \A d \in Callers : d # c => calls'[d] = calls[d] /\ todo'[d] = todo[d]
        /\ calls' \in [Callers -> CallStates]
        /\ todo' \in [Callers -> Seq(CallbackNames)]
    BY <2>1, LifoOrder DEF LifeType, CallStates
  <2>3. LifeType'
    BY <1>1, <2>1, <2>2 DEF LifeType, serviceVars, startVars
  <2>4. CallersArrived'
    BY <1>1, <2>2 DEF CallersArrived, startVars
  <2>5. OneRunner'
    <3>1. Len(attempted) = 0
      BY <1>4 DEF OneRunner
    <3>2. RunsCallbacks(c)'
      <4>1. \A d \in Callers : calls[d] \in {"none", "entered"}
                              /\ todo[d] = <<>>
        BY <1>4 DEF OneRunner
      <4>2. Len(attempted') = 0
        BY <1>1, <3>1
      <4>. QED
        BY <4>1, <4>2, <2>2, LifoOrder DEF RunsCallbacks
    <3>. QED
      BY <1>1, <2>1, <3>2 DEF OneRunner
  <2>. QED
    BY <1>2, <2>3, <2>4, <2>5
<1>. QED
  BY <1>3, <1>4

LEMMA ShutdownReturnsKeeps ==
    ASSUME LifeInv, NEW c \in Callers, ShutdownReturns(c)
    PROVE  LifeInv'
<1> USE DEF LifeInv
<1>1. /\ UNCHANGED <<startVars, inProgress, signals, todo, joining, waited,
                     attempted, raised, serviceVars>>
      /\ calls[c] = "joining" /\ main # "dead"
      /\ calls' = [calls EXCEPT
                     ![c] = IF todo[c] = <<>> THEN "done" ELSE "timeout"]
  BY DEF ShutdownReturns, Alive
<1>2. StoppedStays' /\ ThreadsListed' /\ CleanExit'
  BY <1>1 DEF StoppedStays, ThreadsListed, CleanExit, serviceVars, startVars
<1>3. /\ calls'[c] = IF todo[c] = <<>> THEN "done" ELSE "timeout"
      /\ \A d \in Callers : d # c => calls'[d] = calls[d]
      /\ calls' \in [Callers -> CallStates]
  BY <1>1 DEF LifeType, CallStates
<1>4. LifeType'
  BY <1>1, <1>3 DEF LifeType, serviceVars, startVars
<1>5. CallersArrived'
  BY <1>1, <1>3 DEF CallersArrived, startVars
<1>6. inProgress
  BY <1>1 DEF OneRunner
<1>7. PICK o \in Callers : RunsCallbacks(o)
  BY <1>6 DEF OneRunner
<1>8. c = o
  BY <1>1, <1>7 DEF RunsCallbacks
<1>9. todo[c] = <<>> => Len(attempted) = 6
  <2>1. Len(attempted) \in Nat
    BY DEF LifeType
  <2>2. todo[c] = <<>> => Len(todo[c]) = 0
    OBVIOUS
  <2>. QED
    BY <2>1, <2>2, <1>7, <1>8 DEF RunsCallbacks
<1>10. RunsCallbacks(c)'
  BY <1>1, <1>3, <1>7, <1>8, <1>9 DEF RunsCallbacks
<1>11. OneRunner'
  BY <1>1, <1>6, <1>10 DEF OneRunner
<1>. QED
  BY <1>2, <1>4, <1>5, <1>11

-----------------------------------------------------------------------------

\* A callback that is called is the next of the reverse order: it leaves the
\* list of the one caller that runs them and joins those attempted.
LEMMA CalledIsNext ==
    ASSUME LifeInv, NEW c \in Callers, NEW callback, Called(c, callback),
           UNCHANGED <<startVars, inProgress, signals, calls>>
    PROVE  /\ inProgress /\ main # "dead" /\ Len(attempted) \in 0..5
           /\ Len(attempted') = Len(attempted) + 1
           /\ callback = Lifo[Len(attempted')]
           /\ attempted' \in Seq(CallbackNames)
           /\ todo' \in [Callers -> Seq(CallbackNames)]
           /\ OneRunner' /\ CallersArrived'
<1> USE DEF LifeInv
<1>1. /\ todo[c] # <<>> /\ Head(todo[c]) = callback /\ main # "dead"
      /\ todo' = [todo EXCEPT ![c] = Tail(todo[c])]
      /\ attempted' = Append(attempted, callback)
      /\ todo[c] \in Seq(CallbackNames) /\ attempted \in Seq(CallbackNames)
      /\ calls' = calls /\ main' = main
  BY DEF Called, Alive, LifeType, startVars
<1>2. /\ Len(todo[c]) \in Nat \ {0} /\ callback = todo[c][1]
      /\ callback \in CallbackNames /\ Len(attempted) \in Nat
      /\ Tail(todo[c]) \in Seq(CallbackNames)
      /\ Len(Tail(todo[c])) = Len(todo[c]) - 1
      /\ \A i \in 1..Len(Tail(todo[c])) : Tail(todo[c])[i] = todo[c][i + 1]
  BY <1>1, HeadTailProperties, EmptySeq
<1>3. /\ attempted' \in Seq(CallbackNames)
      /\ Len(attempted') = Len(attempted) + 1
      /\ attempted'[Len(attempted) + 1] = callback
      /\ \A i \in 1..Len(attempted) : attempted'[i] = attempted[i]
  BY <1>1, <1>2
<1>4. inProgress
  BY <1>1 DEF OneRunner
<1>5. PICK o \in Callers : RunsCallbacks(o)
  BY <1>4 DEF OneRunner
<1>6. c = o
  BY <1>1, <1>5 DEF RunsCallbacks
<1>7. Len(attempted) \in 0..5 /\ callback = Lifo[Len(attempted) + 1]
  <2>1. Len(todo[c]) = 6 - Len(attempted) /\ todo[c][1] = Lifo[Len(attempted) + 1]
    <3>1. 1 \in 1..Len(todo[c])
      BY <1>2
    <3>. QED
      BY <1>5, <1>6, <3>1 DEF RunsCallbacks
  <2>2. \A m \in Nat \ {0}, k \in Nat : m = 6 - k => k \in 0..5
    OBVIOUS
  <2>. QED
    BY <1>2, <2>1, <2>2, Zenon
<1>8. /\ todo' \in [Callers -> Seq(CallbackNames)]
      /\ todo'[c] = Tail(todo[c])
      /\ \A d \in Callers : d # c => todo'[d] = todo[d]
  BY <1>1, <1>2 DEF LifeType
<1>9. RunsCallbacks(c)'
  <2>1. Len(todo'[c]) = 6 - Len(attempted')
    BY <1>2, <1>3, <1>5, <1>6, <1>8 DEF RunsCallbacks
  <2>2. \A i \in 1..Len(todo'[c]) : todo'[c][i] = Lifo[Len(attempted') + i]
    <3> SUFFICES ASSUME NEW i \in 1..Len(todo'[c])
                 PROVE  todo'[c][i] = Lifo[Len(attempted') + i]
      OBVIOUS
    <3>1. i + 1 \in 1..Len(todo[c]) /\ todo'[c][i] = todo[c][i + 1]
      BY <1>2, <1>8
    <3>2. todo[c][i + 1] = Lifo[Len(attempted) + (i + 1)]
      BY <3>1, <1>5, <1>6 DEF RunsCallbacks
    <3>3. Len(attempted) + (i + 1) = Len(attempted') + i
      BY <1>2, <1>3
    <3>. QED
      BY <3>1, <3>2, <3>3
  <2>3. calls[c] = "done" => Len(attempted') = 6
    <3>1. calls[c] = "done" => Len(attempted) = 6
      BY <1>5, <1>6 DEF RunsCallbacks
    <3>2. 6 \notin 0..5
      OBVIOUS
    <3>. QED
      BY <1>7, <3>1, <3>2, Zenon
  <2>4. /\ calls'[c] \in {"joining", "done", "timeout"}
        /\ \A d \in Callers \ {c} :
              todo'[d] = <<>> /\ calls'[d] \in {"none", "entered", "done"}
    BY <1>1, <1>5, <1>6, <1>8 DEF RunsCallbacks
  <2>. QED
    BY <2>1, <2>2, <2>3, <2>4, <1>1 DEF RunsCallbacks
<1>10. OneRunner'
  <2>1. \A i \in 1..Len(attempted') : attempted'[i] = Lifo[i]
    <3>1. \A i \in 1..Len(attempted') :
             i = Len(attempted) + 1 \/ i \in 1..Len(attempted)
      BY <1>2, <1>3
    <3>. QED
      BY <3>1, <1>3, <1>7 DEF OneRunner
  <2>2. Len(attempted') =< 6
    BY <1>3, <1>7
  <2>. QED
    BY <2>1, <2>2, <1>4, <1>9 DEF OneRunner
<1>11. CallersArrived'
  BY <1>1 DEF CallersArrived
<1>. QED
  BY <1>1, <1>3, <1>4, <1>7, <1>8, <1>10, <1>11

\* The callback's own effect, at its place in the order.
LEMMA CallbackKeeps ==
    ASSUME LifeInv, NEW c \in Callers,
           \/ InitCallback(c) \/ ModelsCallback(c) \/ CatalogCallback(c)
           \/ WatcherCallback(c) \/ DrainCallback(c) \/ CallbackRaises(c)
    PROVE  LifeInv'
<1> USE DEF LifeInv
<1>1. /\ UNCHANGED <<startVars, inProgress, signals, calls, joining, waited>>
      /\ UNCHANGED <<main, initThreads, data, warm>>
  BY DEF InitCallback, ModelsCallback, CatalogCallback, WatcherCallback,
     DrainCallback, CallbackRaises, startVars
<1>2. PICK callback : Called(c, callback)
  BY DEF InitCallback, ModelsCallback, CatalogCallback, WatcherCallback,
     DrainCallback, CallbackRaises
<1>3. /\ inProgress /\ main # "dead" /\ Len(attempted) \in 0..5
      /\ Len(attempted') = Len(attempted) + 1
      /\ callback = Lifo[Len(attempted')]
      /\ attempted' \in Seq(CallbackNames)
      /\ todo' \in [Callers -> Seq(CallbackNames)]
      /\ OneRunner' /\ CallersArrived'
  BY <1>1, <1>2, CalledIsNext
<1>4. LifeType'
  <2>1. /\ watching' \in BOOLEAN /\ reconciling' \in BOOLEAN
        /\ reconcileStop' \in BOOLEAN /\ loaded' \in BOOLEAN
    BY DEF InitCallback, ModelsCallback, CatalogCallback, WatcherCallback,
       DrainCallback, CallbackRaises, serviceVars, LifeType
  <2>. QED
    BY <1>1, <1>3, <2>1 DEF LifeType
<1>5. ThreadsListed' /\ CleanExit'
  BY <1>1, <1>3 DEF ThreadsListed, CleanExit
<1>6. StoppedStays'
  <2>1. \A other : Called(c, other) => other = callback
    BY <1>2 DEF Called
  <2>2. Lifo[1] # "models" /\ Len(attempted') # 0
    BY <1>3, LifoOrder
  <2>3. /\ callback = "models" <=> Len(attempted') = 2
        /\ callback = "catalog" <=> Len(attempted') = 3
        /\ callback = "watcher" <=> Len(attempted') = 4
    <3>1. \A k \in 0..5 : \A n : n = k + 1 => n \in 1..6
      OBVIOUS
    <3>2. \A n \in 1..6 : /\ Lifo[n] = "models" <=> n = 2
                          /\ Lifo[n] = "catalog" <=> n = 3
                          /\ Lifo[n] = "watcher" <=> n = 4
      BY LifoOrder
    <3>. QED
      BY <1>3, <3>1, <3>2, Zenon
  <2>4. /\ raised \subseteq raised'
        /\ loaded' => loaded /\ (callback = "models" => "models" \in raised')
    BY <2>1 DEF InitCallback, ModelsCallback, CatalogCallback,
       WatcherCallback, DrainCallback, CallbackRaises, serviceVars
  <2>5. /\ watching' => watching /\ (callback = "watcher" => "watcher" \in raised')
    BY <2>1 DEF InitCallback, ModelsCallback, CatalogCallback,
       WatcherCallback, DrainCallback, CallbackRaises, serviceVars
  <2>6. /\ reconciling' = reconciling /\ (reconcileStop => reconcileStop')
        /\ callback = "catalog" => reconcileStop'
    BY <2>1, LifecycleAssumption DEF InitCallback, ModelsCallback,
       CatalogCallback, WatcherCallback, DrainCallback, CallbackRaises,
       serviceVars
  <2>. QED
    BY <1>1, <1>3, <2>3, <2>4, <2>5, <2>6 DEF StoppedStays
<1>. QED
  BY <1>3, <1>4, <1>5, <1>6

LEMMA JoinKeeps ==
    ASSUME LifeInv, NEW c \in Callers, JoinInitThread(c)
    PROVE  LifeInv'
<1> USE DEF LifeInv
<1>1. /\ UNCHANGED <<startVars, inProgress, signals, calls, todo, attempted,
                     raised, serviceVars>>
      /\ todo[c] # <<>> /\ Head(todo[c]) = "init" /\ main # "dead"
  BY DEF JoinInitThread, Alive
<1>2. LifeType' /\ CallersArrived' /\ CleanExit'
  BY <1>1 DEF LifeType, CallersArrived, CleanExit, startVars, serviceVars
<1>3. OneRunner'
  BY <1>1 DEF OneRunner, RunsCallbacks
<1>4. Len(attempted) = 0
  <2>1. PICK o \in Callers : RunsCallbacks(o)
    BY <1>1 DEF OneRunner
  <2>2. c = o
    BY <1>1, <2>1 DEF RunsCallbacks
  <2>3. /\ Len(todo[c]) \in Nat \ {0} /\ 1 \in 1..Len(todo[c])
        /\ todo[c][1] = "init" /\ Len(attempted) \in Nat
    BY <1>1, EmptySeq DEF LifeType
  <2>4. Len(todo[c]) = 6 - Len(attempted) /\ Lifo[Len(attempted) + 1] = "init"
    BY <2>1, <2>2, <2>3 DEF RunsCallbacks
  <2>5. \A m \in Nat \ {0}, k \in Nat : m = 6 - k => k \in 0..5
    OBVIOUS
  <2>6. \A k \in 0..5 : Lifo[k + 1] = "init" => k = 0
    BY LifoOrder
  <2>. QED
    BY <2>3, <2>4, <2>5, <2>6, Zenon
<1>5. ThreadsListed'
  BY <1>1 DEF ThreadsListed, JoinInitThread, startVars
<1>6. StoppedStays'
  BY <1>1, <1>4 DEF StoppedStays, JoinInitThread, startVars
<1>. QED
  BY <1>2, <1>3, <1>5, <1>6

LEMMA LifeStutter == LifeInv /\ UNCHANGED lifecycleVars => LifeInv'
BY DEF LifeInv, LifeType, ThreadsListed, CallersArrived, OneRunner,
   RunsCallbacks, StoppedStays, CleanExit, AllAttempted, lifecycleVars,
   startVars, stopVars, serviceVars

LEMMA InvGivesShutdownSound == LifeInv => ShutdownSound
<1> SUFFICES ASSUME LifeInv PROVE ShutdownSound
  OBVIOUS
<1> USE DEF LifeInv
<1>1. attempted \in Seq(CallbackNames) /\ DOMAIN attempted = 1..Len(attempted)
      /\ Len(attempted) \in Nat
  BY DEF LifeType
<1>2. CallbacksFinished => Len(attempted) = 6
  <2> SUFFICES ASSUME CallbacksFinished PROVE Len(attempted) = 6
    OBVIOUS
  <2>1. PICK o \in Callers : RunsCallbacks(o)
    BY DEF OneRunner, CallbacksFinished
  <2>2. Len(todo[o]) = 0
    BY DEF CallbacksFinished
  <2>. QED
    BY <1>1, <2>1, <2>2 DEF RunsCallbacks
<1>3. \A i \in 1..Len(attempted) : attempted[i] = Registered[7 - i]
  <2>1. \A i \in 1..Len(attempted) : i \in 1..6 /\ attempted[i] = Lifo[i]
    BY <1>1 DEF OneRunner
  <2>2. \A i \in 1..6 : Lifo[i] = Registered[7 - i]
    BY LifoOrder
  <2>. QED
    BY <2>1, <2>2, Zenon
<1>4. CallbacksOnceInOrder
  BY <1>1, <1>2, <1>3, LifoOrder DEF CallbacksOnceInOrder, OneRunner,
     AllAttempted
<1>5. NothingRestarts
  BY <1>2, SMTT(20) DEF NothingRestarts, StoppedStays
<1>. QED
  BY <1>4, <1>5 DEF ShutdownSound

\* For any number of signals: the callbacks run once, in reverse order, what
\* they stopped stays stopped, and the process does not end before them.
THEOREM ShutdownAlwaysSound == LifecycleSpec => []ShutdownSound
<1>1. LifeInv /\ [LifecycleNext]_lifecycleVars => LifeInv'
  BY StartKeeps, InitThreadKeeps, SignalKeeps, ExitKeeps,
     ShutdownStartsKeeps, ShutdownReturnsKeeps, CallbackKeeps, JoinKeeps,
     LifeStutter DEF LifecycleNext, Callback
<1>. QED
  BY <1>1, LifeInitInv, InvGivesShutdownSound, PTL DEF LifecycleSpec

(***************************************************************************)
(* The enrichment jobs                                                     *)
(***************************************************************************)

Statuses == {"queued", "running"} \cup Terminal

JobRecord ==
    [status : Statuses, total : Nat, processed : Nat, succeeded : Nat,
     failed : Nat, returned : Nat, truncated : Nat]

\* Tables of jobs: finitely many, named by the rank of their creation.
IsTable(table) ==
    /\ DOMAIN table \subseteq Nat \ {0} /\ IsFiniteSet(DOMAIN table)
    /\ table \in [DOMAIN table -> JobRecord]

JobsType ==
    /\ created \in Nat /\ asking \in [Clients -> Nat]
    /\ pending \in Seq(Nat \ {0}) /\ IsTable(jobs)
    /\ accepting \in BOOLEAN /\ stopSet \in BOOLEAN
    /\ worker \in {"none", "alive", "ended"} /\ running \in Nat
    /\ stopping \in {"no", "refusing", "joining", "drained", "timeout"}

\* An id is given once: to a job in the table or to one call of enqueue
\* that has not entered its job yet.
FreshIds ==
    /\ \A j \in DOMAIN jobs : j =< created
    /\ \A c \in Clients : asking[c] =< created /\ asking[c] \notin DOMAIN jobs
    /\ \A c, d \in Clients : c # d /\ asking[c] # NoJob => asking[c] # asking[d]

\* A record says "queued" when its job is in the queue, once, and "running"
\* when the worker has it.
StatusTellsPlace ==
    /\ \A i, k \in 1..Len(pending) : pending[i] = pending[k] => i = k
    /\ \A i \in 1..Len(pending) :
          /\ pending[i] \in DOMAIN jobs
          /\ jobs[pending[i]].status = "queued"
    /\ \A j \in DOMAIN jobs :
          jobs[j].status = "queued" => \E i \in 1..Len(pending) : pending[i] = j
    /\ running # NoJob =>
          running \in DOMAIN jobs /\ jobs[running].status = "running"
    /\ \A j \in DOMAIN jobs : jobs[j].status = "running" => j = running

\* The worker thread starts with the first job and ends after stop(), with
\* nothing left to run.
WorkerLife ==
    /\ accepting <=> stopping = "no"
    /\ stopSet <=> stopping \notin {"no", "refusing"}
    /\ worker = "ended" => stopSet
    /\ worker # "alive" => pending = <<>> /\ running = NoJob
    /\ stopping = "drained" => worker # "alive"

\* ReportsAddUp of one record.
RecordAddsUp(record) ==
    /\ record.processed = record.succeeded + record.failed
    /\ record.processed = record.returned + record.truncated
    /\ record.returned <= MaxResults
    /\ record.status \in {"completed", "completed_with_errors"} =>
         record.processed = record.total
    /\ record.status = "completed" => record.failed = 0

JobsInv ==
    /\ JobsType /\ FreshIds /\ StatusTellsPlace /\ WorkerLife
    /\ HistoryBounded /\ ReportsAddUp

-----------------------------------------------------------------------------

\* Pruning the oldest k of a finite set of ranks leaves at most the rest.
LEMMA OldestLeavesRest ==
    ASSUME NEW S \in SUBSET Nat, IsFiniteSet(S), NEW k \in Nat,
           k =< Cardinality(S)
    PROVE  /\ IsFiniteSet(S \ Oldest(S, k))
           /\ Cardinality(S \ Oldest(S, k)) =< Cardinality(S) - k
<1> DEFINE R == S \ Oldest(S, k)
           Below(m) == {i \in S : i < m}
<1>1. IsFiniteSet(R) /\ Cardinality(R) \in Nat /\ Cardinality(S) \in Nat
  BY FS_Subset, FS_CardinalityType
<1>2. CASE R = {}
  BY <1>1, <1>2, FS_EmptySet
<1>3. CASE R # {}
  <2>1. PICK m \in R : \A r \in R : ~(<<r, m>> \in OpToRel(<, Nat))
    <3>1. R \subseteq Nat
      OBVIOUS
    <3>. QED
      BY <1>3, <3>1, NatLessThanWellFounded, WFMin, Zenon
  <2>2. \A r \in R : ~(r < m)
    <3>1. \A r \in Nat : r < m => <<r, m>> \in OpToRel(<, Nat)
      BY DEF OpToRel
    <3>. QED
      BY <2>1, <3>1
  <2>3. /\ IsFiniteSet(Below(m)) /\ Cardinality(Below(m)) \in Nat
        /\ Cardinality(Below(m)) >= k
    <3>1. IsFiniteSet(Below(m)) /\ Cardinality(Below(m)) \in Nat
      BY FS_Subset, FS_CardinalityType
    <3>2. ~(Cardinality(Below(m)) < k)
      BY <2>1 DEF Oldest
    <3>. QED
      BY <3>1, <3>2
  <2>4. R \subseteq S \ Below(m)
    BY <2>2
  <2>5. /\ IsFiniteSet(S \ Below(m))
        /\ Cardinality(S \ Below(m)) = Cardinality(S) - Cardinality(S \cap Below(m))
    BY FS_Difference
  <2>6. S \cap Below(m) = Below(m)
    OBVIOUS
  <2>7. Cardinality(R) =< Cardinality(S \ Below(m))
    BY <2>4, <2>5, FS_Subset
  <2>. QED
    BY <1>1, <2>3, <2>5, <2>6, <2>7
<1>. QED
  BY <1>2, <1>3

\* What _prune_terminal_jobs_locked does: records go, none changes, only
\* terminal ones go, and at most _max_history of these are left.
LEMMA PruneKeeps ==
    ASSUME NEW table, IsTable(table)
    PROVE  /\ IsTable(PruneTerminalJobs(table))
           /\ DOMAIN PruneTerminalJobs(table) \subseteq DOMAIN table
           /\ \A j \in DOMAIN PruneTerminalJobs(table) :
                 PruneTerminalJobs(table)[j] = table[j]
           /\ \A j \in DOMAIN table : table[j].status \notin Terminal =>
                 j \in DOMAIN PruneTerminalJobs(table)
           /\ Cardinality(TerminalJobs(PruneTerminalJobs(table))) =< MaxHistory
<1> DEFINE T == TerminalJobs(table)
           n == Cardinality(T)
           kept == DOMAIN PruneTerminalJobs(table)
<1>1. IsFiniteSet(T) /\ n \in Nat /\ T \subseteq Nat /\ T \subseteq DOMAIN table
  BY FS_Subset, FS_CardinalityType DEF TerminalJobs, IsTable
<1>2. MaxHistory \in Nat
  BY JobsAssumption
<1>3. PruneTerminalJobs(table) = [j \in kept |-> table[j]]
  BY DEF PruneTerminalJobs
<1>4. kept = IF n - MaxHistory =< 0 THEN DOMAIN table
             ELSE DOMAIN table \ Oldest(T, n - MaxHistory)
  BY DEF PruneTerminalJobs
<1>5. Oldest(T, n - MaxHistory) \subseteq T
  BY DEF Oldest
<1>6. kept \subseteq DOMAIN table
  BY <1>4
<1>7. IsTable(PruneTerminalJobs(table))
  <2>1. IsFiniteSet(kept)
    BY <1>6, FS_Subset DEF IsTable
  <2>. HIDE DEF kept
  <2>. QED
    BY <2>1, <1>3, <1>6 DEF IsTable
<1>8. \A j \in DOMAIN table : table[j].status \notin Terminal => j \in kept
  BY <1>4, <1>5 DEF TerminalJobs
<1>9. TerminalJobs(PruneTerminalJobs(table)) = T \cap kept
  BY <1>3, <1>6 DEF TerminalJobs
<1>10. Cardinality(T \cap kept) =< MaxHistory
  <2>1. CASE n - MaxHistory =< 0
    <3>1. T \cap kept = T
      BY <1>1, <1>4, <2>1
    <3>. HIDE DEF kept, T, n
    <3>. QED
      BY <3>1, <2>1, <1>1, <1>2 DEF n
  <2>2. CASE ~(n - MaxHistory =< 0)
    <3>1. T \cap kept = T \ Oldest(T, n - MaxHistory)
      BY <1>1, <1>4, <2>2
    <3>2. n - MaxHistory \in Nat /\ n - MaxHistory =< n
      BY <1>1, <1>2, <2>2
    <3>3. Cardinality(T \ Oldest(T, n - MaxHistory)) =< n - (n - MaxHistory)
      BY <3>2, <1>1, OldestLeavesRest
    <3>4. n - (n - MaxHistory) = MaxHistory
      BY <1>1, <1>2
    <3>. QED
      BY <3>1, <3>3, <3>4, Zenon
  <2>. QED
    BY <2>1, <2>2
<1>. HIDE DEF kept, T
<1>. QED
  BY <1>3, <1>6, <1>7, <1>8, <1>9, <1>10 DEF kept

-----------------------------------------------------------------------------

LEMMA JobsInitInv == JobsInit => JobsInv
<1> SUFFICES ASSUME JobsInit PROVE JobsInv
  OBVIOUS
<1> USE DEF JobsInit, NoJob
<1>1. DOMAIN jobs = {} /\ IsFiniteSet(DOMAIN jobs)
  BY FS_EmptySet
<1>2. JobsType
  <2>1. IsTable(jobs)
    BY <1>1 DEF IsTable
  <2>. HIDE DEF JobsInit
  <2>2. pending \in Seq(Nat \ {0}) /\ asking \in [Clients -> Nat]
    BY DEF JobsInit
  <2>. QED
    BY <2>1, <2>2 DEF JobsType, JobsInit
<1>3. TerminalJobs(jobs) = {} /\ Cardinality(TerminalJobs(jobs)) = 0
  BY <1>1, FS_EmptySet DEF TerminalJobs
<1>4. HistoryBounded
  BY <1>3, JobsAssumption DEF HistoryBounded
<1>5. FreshIds /\ StatusTellsPlace /\ WorkerLife /\ ReportsAddUp
  BY <1>1 DEF FreshIds, StatusTellsPlace, WorkerLife, ReportsAddUp
<1>. QED
  BY <1>2, <1>4, <1>5 DEF JobsInv

LEMMA AskKeeps ==
    ASSUME JobsInv, NEW c \in Clients, Ask(c)
    PROVE  JobsInv'
<1> USE DEF JobsInv, Ask, NoJob
<1>1. JobsType'
  BY DEF JobsType
<1>2. FreshIds'
  BY DEF FreshIds, JobsType, IsTable
<1>3. (StatusTellsPlace /\ WorkerLife /\ HistoryBounded /\ ReportsAddUp)'
  BY DEF StatusTellsPlace, WorkerLife, HistoryBounded, ReportsAddUp,
         TerminalJobs
<1>. QED
  BY <1>1, <1>2, <1>3

\* The records of the two tables agree but for what the action changed.
LEMMA EnqueueKeeps ==
    ASSUME JobsInv, NEW c \in Clients, Enqueue(c)
    PROVE  JobsInv'
<1> USE DEF JobsInv, NoJob
<1>1. CASE ~accepting \/ Len(pending) >= MaxPending
  <2>1. UNCHANGED <<pending, jobs, worker, created, accepting, stopSet,
                    running, stopping>>
        /\ asking' = [asking EXCEPT ![c] = NoJob]
    BY <1>1 DEF Enqueue
  <2>2. JobsType'
    BY <2>1 DEF JobsType
  <2>3. FreshIds'
    BY <2>1 DEF FreshIds, JobsType, IsTable
  <2>4. (StatusTellsPlace /\ WorkerLife /\ HistoryBounded /\ ReportsAddUp)'
    BY <2>1 DEF StatusTellsPlace, WorkerLife, HistoryBounded, ReportsAddUp,
       TerminalJobs
  <2>. QED
    BY <2>2, <2>3, <2>4
<1>2. CASE accepting /\ ~(Len(pending) >= MaxPending)
  <2>1. PICK total \in 1..MaxPaths :
          /\ pending' = Append(pending, asking[c])
          /\ jobs' = PruneTerminalJobs(
               [j \in DOMAIN jobs \cup {asking[c]} |->
                  IF j = asking[c] THEN NewJob(total) ELSE jobs[j]])
          /\ worker' = "alive"
    BY <1>2 DEF Enqueue, EnsureWorker
  <2> DEFINE a == asking[c]
             table == [j \in DOMAIN jobs \cup {a} |->
                         IF j = a THEN NewJob(total) ELSE jobs[j]]
  <2>2. /\ a \in Nat \ {0} /\ a \notin DOMAIN jobs /\ a =< created
        /\ asking' = [asking EXCEPT ![c] = NoJob]
        /\ UNCHANGED <<created, accepting, stopSet, running, stopping>>
        /\ total \in Nat
    BY <1>2, JobsAssumption DEF Enqueue, JobsType, FreshIds
  <2>3. IsTable(table)
    <3>1. IsFiniteSet(DOMAIN jobs \cup {a})
      BY FS_AddElement DEF JobsType, IsTable
    <3>2. NewJob(total) \in JobRecord
      BY <2>2 DEF NewJob, JobRecord, Statuses
    <3>. QED
      BY <2>2, <3>1, <3>2 DEF JobsType, IsTable
  <2>4. /\ IsTable(jobs')
        /\ DOMAIN jobs' \subseteq DOMAIN jobs \cup {a}
        /\ \A j \in DOMAIN jobs' : jobs'[j] = table[j]
        /\ \A j \in DOMAIN jobs \cup {a} : table[j].status \notin Terminal =>
              j \in DOMAIN jobs'
        /\ Cardinality(TerminalJobs(jobs')) =< MaxHistory
    BY <2>1, <2>3, PruneKeeps
  <2>5. /\ a \in DOMAIN jobs' /\ jobs'[a] = NewJob(total)
        /\ jobs'[a].status = "queued"
    <3>1. table[a] = NewJob(total) /\ NewJob(total).status = "queued"
      BY DEF NewJob
    <3>2. NewJob(total).status \notin Terminal
      BY <3>1 DEF Terminal
    <3>. HIDE DEF table, a
    <3>. QED
      BY <2>4, <3>1, <3>2
  <2>6. \A j \in DOMAIN jobs : jobs[j].status \notin Terminal =>
           j \in DOMAIN jobs'
    BY <2>2, <2>4
  <2>7. \A j \in DOMAIN jobs' : j = a \/ (j \in DOMAIN jobs /\ jobs'[j] = jobs[j])
    BY <2>2, <2>4
  <2>. HIDE DEF a, table
  <2>8. JobsType'
    BY <2>1, <2>2, <2>4 DEF JobsType, a
  <2>9. FreshIds'
    <3>1. \A j \in DOMAIN jobs' : j =< created'
      BY <2>2, <2>7 DEF FreshIds
    <3>2. \A d \in Clients : asking'[d] = IF d = c THEN NoJob ELSE asking[d]
      BY <2>2 DEF JobsType
    <3>3. \A d \in Clients : asking'[d] =< created'
      BY <3>2, <2>2 DEF FreshIds, JobsType
    <3>4. \A d \in Clients : asking'[d] \notin DOMAIN jobs'
      BY <3>2, <2>2, <2>4, <2>7 DEF FreshIds, IsTable, a
    <3>5. \A d, e \in Clients :
             d # e /\ asking'[d] # NoJob => asking'[d] # asking'[e]
      BY <3>2 DEF FreshIds
    <3>. QED
      BY <3>1, <3>3, <3>4, <3>5 DEF FreshIds
  <2>10. StatusTellsPlace'
    <3>1. pending \in Seq(Nat \ {0}) /\ Len(pending) \in Nat
      BY DEF JobsType
    <3>2. /\ Len(pending') = Len(pending) + 1
          /\ \A i \in 1..Len(pending) : pending'[i] = pending[i]
          /\ pending'[Len(pending) + 1] = a
      BY <3>1, <2>1, <2>2 DEF a
    <3>3. \A i \in 1..Len(pending) :
            /\ pending[i] \in DOMAIN jobs' /\ pending[i] # a
            /\ jobs'[pending[i]].status = "queued"
      BY <2>2, <2>6, <2>7 DEF StatusTellsPlace, Terminal
    <3>4. running # NoJob =>
            running \in DOMAIN jobs' /\ jobs'[running].status = "running"
      BY <2>2, <2>6, <2>7 DEF StatusTellsPlace, Terminal
    <3>5. \A i \in 1..Len(pending') :
             i = Len(pending) + 1 \/ i \in 1..Len(pending)
      BY <3>1, <3>2
    <3>6. \A j \in DOMAIN jobs' : jobs'[j].status = "queued" =>
             \E i \in 1..Len(pending') : pending'[i] = j
      BY <3>1, <3>2, <2>7, SMTT(20) DEF StatusTellsPlace
    <3>7. \A i, k \in 1..Len(pending') : pending'[i] = pending'[k] => i = k
      BY <3>1, <3>2, <3>3, <3>5 DEF StatusTellsPlace
    <3>8. \A i \in 1..Len(pending') :
            /\ pending'[i] \in DOMAIN jobs'
            /\ jobs'[pending'[i]].status = "queued"
      BY <3>1, <3>2, <3>3, <3>5, <2>5
    <3>9. \A j \in DOMAIN jobs' : jobs'[j].status = "running" => j = running
      BY <2>5, <2>7 DEF StatusTellsPlace
    <3>. QED
      BY <3>4, <3>6, <3>7, <3>8, <3>9, <2>2 DEF StatusTellsPlace
  <2>11. WorkerLife'
    BY <1>2, <2>1, <2>2 DEF WorkerLife
  <2>12. HistoryBounded'
    BY <2>4 DEF HistoryBounded, TerminalJobs
  <2>13. ReportsAddUp'
    <3>1. \A j \in DOMAIN jobs' : jobs'[j] = NewJob(total) \/
             (j \in DOMAIN jobs /\ jobs'[j] = jobs[j])
      BY <2>5, <2>7
    <3>. QED
      BY <3>1, <2>2, JobsAssumption DEF ReportsAddUp, NewJob
  <2>. QED
    BY <2>8, <2>9, <2>10, <2>11, <2>12, <2>13
<1>. QED
  BY <1>1, <1>2 DEF WorkerLife, JobsType

\* A new status leaves the counts of a record alone.
LEMMA SetStatus ==
    ASSUME NEW r \in JobRecord, NEW s \in Statuses
    PROVE  /\ [r EXCEPT !.status = s] \in JobRecord
           /\ [r EXCEPT !.status = s].status = s
           /\ [r EXCEPT !.status = s].total = r.total
           /\ [r EXCEPT !.status = s].processed = r.processed
           /\ [r EXCEPT !.status = s].succeeded = r.succeeded
           /\ [r EXCEPT !.status = s].failed = r.failed
           /\ [r EXCEPT !.status = s].returned = r.returned
           /\ [r EXCEPT !.status = s].truncated = r.truncated
BY DEF JobRecord

\* A job that is taken leaves the queue and is marked as running; no other
\* record changes.
LEMMA TakeKeeps == ASSUME JobsInv, Take PROVE JobsInv'
<1> USE DEF JobsInv, NoJob
<1> DEFINE h == Head(pending)
<1>1. /\ pending \in Seq(Nat \ {0}) /\ Len(pending) \in Nat \ {0}
      /\ 1 \in 1..Len(pending) /\ h = pending[1] /\ h \in Nat \ {0}
      /\ running' = h /\ pending' = Tail(pending) /\ running = NoJob
      /\ h \in DOMAIN jobs /\ jobs[h].status = "queued"
  <2>1. pending \in Seq(Nat \ {0}) /\ pending # <<>>
    BY DEF JobsType, Take
  <2>2. Len(pending) \in Nat \ {0} /\ 1 \in 1..Len(pending) /\ h = pending[1]
        /\ h \in Nat \ {0}
    BY <2>1
  <2>. QED
    BY <2>1, <2>2 DEF StatusTellsPlace, Take
<1>. HIDE DEF h
<1>2. /\ jobs' = [jobs EXCEPT ![h].status = "running"]
      /\ UNCHANGED <<created, asking, accepting, stopSet, worker, stopping>>
      /\ worker = "alive"
  BY <1>1 DEF Take
<1>3. /\ DOMAIN jobs' = DOMAIN jobs
      /\ jobs'[h] = [jobs[h] EXCEPT !.status = "running"]
      /\ \A j \in DOMAIN jobs : j # h => jobs'[j] = jobs[j]
  BY <1>1, <1>2 DEF JobsType, IsTable
<1>4. jobs[h] \in JobRecord /\ jobs'[h] \in JobRecord
      /\ jobs'[h].status = "running"
  <2>1. jobs[h] \in JobRecord
    BY <1>1 DEF JobsType, IsTable
  <2>. QED
    BY <1>3, <2>1, SetStatus DEF Statuses
<1>5. IsTable(jobs')
  BY <1>1, <1>2, <1>3, <1>4 DEF JobsType, IsTable
<1>6. /\ pending' \in Seq(Nat \ {0}) /\ Len(pending') = Len(pending) - 1
      /\ \A i \in 1..Len(pending') : pending'[i] = pending[i + 1]
  BY <1>1
<1>7. JobsType'
  BY <1>1, <1>2, <1>5, <1>6 DEF JobsType
<1>8. FreshIds'
  BY <1>2, <1>3 DEF FreshIds
<1>9. StatusTellsPlace'
  <2>1. \A i \in 1..Len(pending') : i + 1 \in 1..Len(pending) /\ pending'[i] # h
    BY <1>1, <1>6 DEF StatusTellsPlace
  <2>2. \A i, k \in 1..Len(pending') : pending'[i] = pending'[k] => i = k
    BY <1>1, <1>6, <2>1 DEF StatusTellsPlace
  <2>3. \A i \in 1..Len(pending') :
            /\ pending'[i] \in DOMAIN jobs'
            /\ jobs'[pending'[i]].status = "queued"
    BY <1>3, <1>6, <2>1 DEF StatusTellsPlace
  <2>4. \A j \in DOMAIN jobs' : jobs'[j].status = "queued" =>
             \E i \in 1..Len(pending') : pending'[i] = j
    <3> SUFFICES ASSUME NEW j \in DOMAIN jobs', jobs'[j].status = "queued"
                 PROVE  \E i \in 1..Len(pending') : pending'[i] = j
      OBVIOUS
    <3>1. j # h /\ j \in DOMAIN jobs /\ jobs[j].status = "queued"
      BY <1>3, <1>4
    <3>2. PICK i \in 1..Len(pending) : pending[i] = j
      BY <3>1 DEF StatusTellsPlace
    <3>3. i # 1 /\ i - 1 \in 1..Len(pending')
      BY <3>1, <3>2, <1>1, <1>6
    <3>4. pending'[i - 1] = j
      BY <3>2, <3>3, <1>1, <1>6
    <3>. QED
      BY <3>3, <3>4
  <2>5. \A j \in DOMAIN jobs' : jobs'[j].status = "running" => j = h
    BY <1>1, <1>3, JobsAssumption DEF StatusTellsPlace, JobsType, IsTable
  <2>. QED
    BY <2>2, <2>3, <2>4, <2>5, <1>1, <1>3, <1>4 DEF StatusTellsPlace
<1>10. WorkerLife'
  BY <1>2 DEF WorkerLife
<1>11. HistoryBounded'
  <2>1. TerminalJobs(jobs)' = TerminalJobs(jobs)
    BY <1>1, <1>3, <1>4 DEF TerminalJobs, Terminal
  <2>. QED
    BY <2>1 DEF HistoryBounded
<1>12. ReportsAddUp'
  <2>1. /\ jobs'[h].processed = jobs[h].processed
        /\ jobs'[h].succeeded = jobs[h].succeeded
        /\ jobs'[h].failed = jobs[h].failed
        /\ jobs'[h].returned = jobs[h].returned
        /\ jobs'[h].truncated = jobs[h].truncated
    BY <1>3, <1>4, SetStatus DEF Statuses
  <2>. QED
    <3> SUFFICES ASSUME NEW j \in DOMAIN jobs'
                 PROVE  RecordAddsUp(jobs'[j])
      BY DEF ReportsAddUp, RecordAddsUp
    <3>1. RecordAddsUp(jobs[j])
      BY <1>3 DEF ReportsAddUp, RecordAddsUp
    <3>2. CASE j = h
      BY <3>1, <3>2, <1>4, <2>1 DEF RecordAddsUp
    <3>. QED
      BY <3>1, <3>2, <1>3
<1>. QED
  BY <1>7, <1>8, <1>9, <1>10, <1>11, <1>12

LEMMA ProcessKeeps ==
    ASSUME JobsInv, NEW ok \in BOOLEAN, Process(ok)
    PROVE  JobsInv'
<1> USE DEF JobsInv, NoJob
<1> DEFINE old == jobs[running]
           new == jobs'[running]
<1>1. /\ running # NoJob /\ running \in DOMAIN jobs
      /\ UNCHANGED <<created, asking, pending, accepting, stopSet, worker,
                     running, stopping>>
  BY DEF Process
<1>2. /\ DOMAIN jobs' = DOMAIN jobs
      /\ jobs' \in [DOMAIN jobs -> JobRecord]
      /\ \A j \in DOMAIN jobs : j # running => jobs'[j] = jobs[j]
      /\ old \in JobRecord /\ new \in JobRecord
      /\ new.status = old.status /\ new.total = old.total
      /\ new.processed = old.processed + 1
      /\ new.succeeded = IF ok THEN old.succeeded + 1 ELSE old.succeeded
      /\ new.failed = IF ok THEN old.failed ELSE old.failed + 1
      /\ new.returned = IF old.returned < MaxResults THEN old.returned + 1
                        ELSE old.returned
      /\ new.truncated = IF old.returned < MaxResults THEN old.truncated
                         ELSE old.truncated + 1
  <2>1. old \in JobRecord /\ jobs \in [DOMAIN jobs -> JobRecord]
    BY <1>1 DEF JobsType, IsTable
  <2>2. /\ DOMAIN jobs' = DOMAIN jobs
        /\ \A j \in DOMAIN jobs : j # running => jobs'[j] = jobs[j]
    BY <1>1 DEF Process
  <2>3. new = [status |-> old.status, total |-> old.total,
               processed |-> old.processed + 1,
               succeeded |-> IF ok THEN old.succeeded + 1 ELSE old.succeeded,
               failed |-> IF ok THEN old.failed ELSE old.failed + 1,
               returned |-> IF old.returned < MaxResults THEN old.returned + 1
                            ELSE old.returned,
               truncated |-> IF old.returned < MaxResults THEN old.truncated
                             ELSE old.truncated + 1]
    BY <1>1, <2>1 DEF Process, JobRecord
  <2>. HIDE DEF old, new
  <2>4. new \in JobRecord
    BY <2>1, <2>3, JobsAssumption DEF JobRecord
  <2>5. jobs' \in [DOMAIN jobs -> JobRecord]
    <3>1. \A j \in DOMAIN jobs : jobs'[j] \in JobRecord
      BY <2>1, <2>2, <2>4 DEF new
    <3>2. jobs' = [j \in DOMAIN jobs |-> jobs'[j]]
      BY <1>1, <2>1 DEF Process
    <3>. QED
      BY <3>1, <3>2
  <2>. QED
    BY <2>1, <2>2, <2>3, <2>4, <2>5
<1>3. old.status = "running"
  BY <1>1 DEF StatusTellsPlace
<1>4. JobsType' /\ FreshIds' /\ WorkerLife'
  BY <1>1, <1>2 DEF JobsType, IsTable, FreshIds, WorkerLife
<1>5. \A j \in DOMAIN jobs : jobs'[j].status = jobs[j].status
  BY <1>2
<1>6. StatusTellsPlace'
  BY <1>1, <1>2, <1>5 DEF StatusTellsPlace
<1>7. HistoryBounded'
  <2>1. TerminalJobs(jobs)' = TerminalJobs(jobs)
    BY <1>2, <1>5 DEF TerminalJobs
  <2>. QED
    BY <2>1 DEF HistoryBounded
<1>8. ReportsAddUp'
  <2>1. /\ new.processed = new.succeeded + new.failed
        /\ new.processed = new.returned + new.truncated
        /\ new.returned =< MaxResults
    <3>1. /\ old.processed = old.succeeded + old.failed
          /\ old.processed = old.returned + old.truncated
          /\ old.returned =< MaxResults
      BY <1>1 DEF ReportsAddUp
    <3>2. /\ {old.processed, old.succeeded, old.failed, old.returned,
              old.truncated} \subseteq Nat
          /\ MaxResults \in Nat
      BY <1>2, JobsAssumption DEF JobRecord
    <3>. HIDE DEF old, new
    <3>. QED
      BY <3>1, <3>2, <1>2
  <2>2. new.status \notin {"completed", "completed_with_errors"}
    BY <1>2, <1>3
  <2>. HIDE DEF new, old
  <2>3. \A j \in DOMAIN jobs' : jobs'[j] = new \/ jobs'[j] = jobs[j]
    BY <1>2 DEF new
  <2>4. \A j \in DOMAIN jobs' : j = running \/ jobs'[j] = jobs[j]
    BY <1>2
  <2>5. \A j \in DOMAIN jobs' : j = running => jobs'[j] = new
    BY DEF new
  <2>. QED
    BY <2>1, <2>2, <2>4, <2>5, <1>2 DEF ReportsAddUp
<1>. QED
  BY <1>4, <1>6, <1>7, <1>8

\* A job that ends keeps its counts and gets a terminal status that is true
\* of them; then the history is pruned.
LEMMA EndKeeps ==
    ASSUME JobsInv, running # NoJob,
           NEW s \in Terminal,
           s \in {"completed", "completed_with_errors"} =>
              jobs[running].processed = jobs[running].total,
           s = "completed" => jobs[running].failed = 0,
           jobs' = PruneTerminalJobs([jobs EXCEPT ![running].status = s]),
           running' = NoJob,
           UNCHANGED <<created, asking, pending, accepting, stopSet, worker,
                       stopping>>
    PROVE  JobsInv'
<1> USE DEF JobsInv, NoJob
<1> DEFINE table == [jobs EXCEPT ![running].status = s]
<1>1. running \in DOMAIN jobs /\ jobs[running].status = "running"
  BY DEF StatusTellsPlace
<1>2. /\ DOMAIN table = DOMAIN jobs
      /\ table[running] = [jobs[running] EXCEPT !.status = s]
      /\ \A j \in DOMAIN jobs : j # running => table[j] = jobs[j]
      /\ jobs[running] \in JobRecord
  BY <1>1 DEF JobsType, IsTable
<1>3. /\ table[running] \in JobRecord /\ table[running].status = s
      /\ table[running].processed = jobs[running].processed
      /\ table[running].total = jobs[running].total
      /\ table[running].succeeded = jobs[running].succeeded
      /\ table[running].failed = jobs[running].failed
      /\ table[running].returned = jobs[running].returned
      /\ table[running].truncated = jobs[running].truncated
  <2>1. s \in Statuses
    BY DEF Statuses
  <2>. HIDE DEF table
  <2>. QED
    BY <1>2, <2>1, SetStatus
<1>4. IsTable(table)
  <2>1. table = [j \in DOMAIN jobs |-> table[j]]
    BY DEF JobsType, IsTable
  <2>2. \A j \in DOMAIN jobs : table[j] \in JobRecord
    BY <1>2, <1>3 DEF JobsType, IsTable
  <2>. HIDE DEF table
  <2>. QED
    BY <1>2, <2>1, <2>2 DEF JobsType, IsTable
<1>. HIDE DEF table
<1>5. /\ IsTable(jobs')
      /\ DOMAIN jobs' \subseteq DOMAIN jobs
      /\ \A j \in DOMAIN jobs' : jobs'[j] = table[j]
      /\ \A j \in DOMAIN jobs : table[j].status \notin Terminal =>
            j \in DOMAIN jobs'
      /\ Cardinality(TerminalJobs(jobs')) =< MaxHistory
  <2>1. jobs' = PruneTerminalJobs(table)
    BY DEF table
  <2>2. /\ IsTable(jobs')
        /\ DOMAIN jobs' \subseteq DOMAIN table
        /\ \A j \in DOMAIN jobs' : jobs'[j] = table[j]
        /\ \A j \in DOMAIN table : table[j].status \notin Terminal =>
              j \in DOMAIN jobs'
        /\ Cardinality(TerminalJobs(jobs')) =< MaxHistory
    BY <1>4, <2>1, PruneKeeps, Zenon
  <2>. QED
    BY <1>2, <2>2, Zenon
<1>6. \A j \in DOMAIN jobs :
         j # running /\ jobs[j].status \notin Terminal =>
            j \in DOMAIN jobs' /\ jobs'[j] = jobs[j]
  BY <1>2, <1>5
<1>7. JobsType'
  BY <1>5 DEF JobsType
<1>8. FreshIds'
  BY <1>5 DEF FreshIds
<1>9. StatusTellsPlace'
  <2>1. \A i \in 1..Len(pending) :
          /\ pending[i] \in DOMAIN jobs /\ jobs[pending[i]].status = "queued"
          /\ pending[i] # running
    BY <1>1 DEF StatusTellsPlace
  <2>2. \A i \in 1..Len(pending) :
          pending[i] \in DOMAIN jobs' /\ jobs'[pending[i]].status = "queued"
    BY <2>1, <1>6 DEF Terminal
  <2>3. \A j \in DOMAIN jobs' : j = running \/ jobs'[j] = jobs[j]
    BY <1>2, <1>5
  <2>4. running \in DOMAIN jobs' => jobs'[running].status \in Terminal
    BY <1>3, <1>5
  <2>5. \A j \in DOMAIN jobs' : jobs'[j].status = "queued" =>
            \E i \in 1..Len(pending) : pending[i] = j
    <3> SUFFICES ASSUME NEW j \in DOMAIN jobs', jobs'[j].status = "queued"
                 PROVE  \E i \in 1..Len(pending) : pending[i] = j
      OBVIOUS
    <3>1. j # running
      BY <2>4 DEF Terminal
    <3>2. j \in DOMAIN jobs /\ jobs[j].status = "queued"
      BY <3>1, <2>3, <1>5
    <3>. QED
      BY <3>2 DEF StatusTellsPlace
  <2>6. \A j \in DOMAIN jobs' : jobs'[j].status # "running"
    BY <2>3, <2>4, <1>5 DEF StatusTellsPlace, Terminal
  <2>. QED
    <3>1. \A i, k \in 1..Len(pending') : pending'[i] = pending'[k] => i = k
      BY DEF StatusTellsPlace
    <3>2. \A i \in 1..Len(pending') :
            /\ pending'[i] \in DOMAIN jobs'
            /\ jobs'[pending'[i]].status = "queued"
      BY <2>2
    <3>3. \A j \in DOMAIN jobs' : jobs'[j].status = "queued" =>
             \E i \in 1..Len(pending') : pending'[i] = j
      BY <2>5
    <3>. QED
      BY <2>6, <3>1, <3>2, <3>3, Zenon DEF StatusTellsPlace
<1>10. WorkerLife'
  BY DEF WorkerLife
<1>11. HistoryBounded'
  BY <1>5 DEF HistoryBounded, TerminalJobs
<1>12. ReportsAddUp'
  <2>1. \A j \in DOMAIN jobs' : j # running => jobs'[j] = jobs[j]
    BY <1>2, <1>5
  <2>2. running \in DOMAIN jobs' => jobs'[running] = table[running]
    BY <1>5
  <2>. QED
    <3> SUFFICES ASSUME NEW j \in DOMAIN jobs'
                 PROVE  RecordAddsUp(jobs'[j])
      BY DEF ReportsAddUp, RecordAddsUp
    <3>1. RecordAddsUp(jobs[j])
      BY <1>5 DEF ReportsAddUp, RecordAddsUp
    <3>2. CASE j = running
      <4>1. RecordAddsUp(table[running])
        BY <3>1, <3>2, <1>3 DEF RecordAddsUp
      <4>. QED
        BY <4>1, <3>2, <2>2
    <3>. QED
      BY <3>1, <3>2, <2>1
<1>. QED
  BY <1>7, <1>8, <1>9, <1>10, <1>11, <1>12

LEMMA FinishKeeps == ASSUME JobsInv, Finish PROVE JobsInv'
<1> DEFINE s == IF jobs[running].failed > 0 THEN "completed_with_errors"
                ELSE "completed"
<1>1. running # NoJob /\ running \in DOMAIN jobs
  BY DEF Finish, JobsInv, StatusTellsPlace
<1>2. s \in Terminal /\ (s = "completed" => jobs[running].failed = 0)
  <2>1. jobs[running].failed \in Nat
    BY <1>1 DEF JobsInv, JobsType, IsTable, JobRecord
  <2>. QED
    BY <2>1 DEF Terminal
<1>3. /\ jobs' = PruneTerminalJobs([jobs EXCEPT ![running].status = s])
      /\ jobs[running].processed = jobs[running].total
      /\ running' = NoJob
      /\ UNCHANGED <<created, asking, pending, accepting, stopSet, worker,
                     stopping>>
  BY <1>1 DEF Finish
<1>. HIDE DEF s
<1>. QED
  BY <1>1, <1>2, <1>3, EndKeeps

LEMMA RunRaisesKeeps == ASSUME JobsInv, RunRaises PROVE JobsInv'
<1>1. "failed" \in Terminal
  BY DEF Terminal
<1>. QED
  BY <1>1, EndKeeps DEF RunRaises

\* The steps that touch no job: the worker's end and the steps of stop().
LEMMA StopKeeps ==
    ASSUME JobsInv,
           \/ WorkerEndsLoop \/ StopAccepting \/ StopSignal \/ StopReturns
           \/ UNCHANGED jobsVars
    PROVE  JobsInv'
<1>1. UNCHANGED <<created, asking, pending, jobs, running>>
  BY DEF WorkerEndsLoop, StopAccepting, StopSignal, StopReturns, jobsVars
<1>2. JobsType'
  BY <1>1 DEF JobsInv, JobsType, WorkerEndsLoop, StopAccepting, StopSignal,
     StopReturns, jobsVars
<1>3. (FreshIds /\ StatusTellsPlace /\ HistoryBounded /\ ReportsAddUp)'
  BY <1>1 DEF JobsInv, FreshIds, StatusTellsPlace, HistoryBounded,
     ReportsAddUp, TerminalJobs
<1>4. WorkerLife'
  BY <1>1 DEF JobsInv, JobsType, WorkerLife, WorkerEndsLoop, StopAccepting,
     StopSignal, StopReturns, jobsVars
<1>. QED
  BY <1>2, <1>3, <1>4 DEF JobsInv

\* Where a record says its job is, is where it is: the jobs that are not
\* terminal are those of the queue and the worker's.
LEMMA InvGivesJobsSound == JobsInv => JobsSound
<1> SUFFICES ASSUME JobsInv PROVE JobsSound
  OBVIOUS
<1> USE DEF JobsInv, NoJob
<1>1. pending \in Seq(Nat \ {0}) /\ DOMAIN pending = 1..Len(pending)
  BY DEF JobsType
<1>2. Active \subseteq DOMAIN jobs \ TerminalJobs(jobs)
  BY <1>1 DEF Active, TerminalJobs, Terminal, StatusTellsPlace
<1>3. ASSUME NEW j \in DOMAIN jobs, jobs[j].status \notin Terminal
      PROVE  j \in Active
  <2>1. jobs[j].status \in {"queued", "running"} /\ j # 0
    BY <1>3 DEF JobsType, IsTable, JobRecord, Statuses
  <2>. QED
    BY <2>1, <1>1 DEF StatusTellsPlace, Active
<1>4. ActiveJobsRecorded
  BY <1>2, <1>3 DEF ActiveJobsRecorded, TerminalJobs
<1>5. StopDrained
  BY DEF StopDrained, WorkerLife, Active
<1>. QED
  BY <1>4, <1>5 DEF JobsSound

-----------------------------------------------------------------------------

\* For any number of clients and jobs and any limits: every job under way
\* has its record, the history is bounded, the reports add up, and a
\* drained manager has no job left.
THEOREM JobsAlwaysSound == JobsSpec => []JobsSound
<1>1. JobsInv /\ [JobsNext]_jobsVars => JobsInv'
  BY AskKeeps, EnqueueKeeps, TakeKeeps, ProcessKeeps, FinishKeeps,
     RunRaisesKeeps, StopKeeps DEF JobsNext, Worker
<1>. QED
  BY <1>1, JobsInitInv, InvGivesJobsSound, PTL DEF JobsSpec

(***************************************************************************)
(* The notes catalog                                                       *)
(***************************************************************************)

\* A reconciliation thread that is alive is the one _reconcile_thread names,
\* also after a stop that timed out.
OnlyTheNamedLoop ==
    /\ loop \in [Loops -> {"dead", "waiting", "scanning", "writing", "deleting"}]
    /\ \A l \in Loops : LoopAlive(l) => l = thread

LEMMA StartKeepsOneLoop ==
    ASSUME OnlyTheNamedLoop, NEW l \in Loops, StartReconciliation(l)
    PROVE  OnlyTheNamedLoop'
<1>1. \A k \in Loops : ~LoopAlive(k)
  BY CatalogAssumption DEF OnlyTheNamedLoop, StartReconciliation
<1>2. /\ loop' = [loop EXCEPT ![l] = "waiting"] /\ thread' = l
  BY DEF StartReconciliation
<1>. QED
  BY <1>1, <1>2 DEF OnlyTheNamedLoop, LoopAlive

LEMMA ReconcileKeepsOneLoop ==
    ASSUME OnlyTheNamedLoop, NEW l \in Loops,
           Reconcile(l) \/ ReconcileRaises(l)
    PROVE  OnlyTheNamedLoop'
<1>1. (UNCHANGED thread /\ LoopAlive(l)) \/ UNCHANGED <<loop, thread>>
  BY DEF Reconcile, ReconcileRaises, Wake, ReadRows, UpsertBatch,
     ReconcileEnds, ScanFile, DeleteRow, LoopAlive
<1>2. \/ UNCHANGED loop
      \/ \E to \in {"dead", "waiting", "scanning", "writing", "deleting"} :
            loop' = [loop EXCEPT ![l] = to]
  BY DEF Reconcile, ReconcileRaises, Wake, ReadRows, UpsertBatch,
     ReconcileEnds, ScanFile, DeleteRow
<1>. QED
  BY <1>1, <1>2 DEF OnlyTheNamedLoop, LoopAlive

\* At most one reconciliation thread is alive, for any number of starts and
\* of stops that time out.
THEOREM OneReconcilerAlways == CatalogSpec => []OneReconciler
<1>1. CatalogInit => OnlyTheNamedLoop
  BY DEF CatalogInit, OnlyTheNamedLoop, LoopAlive
<1>2. OnlyTheNamedLoop /\ [CatalogNext]_catalogVars => OnlyTheNamedLoop'
  <2> SUFFICES ASSUME OnlyTheNamedLoop, [CatalogNext]_catalogVars
               PROVE  OnlyTheNamedLoop'
    OBVIOUS
  <2>1. CASE UNCHANGED <<loop, thread>>
    BY <2>1 DEF OnlyTheNamedLoop, LoopAlive
  <2>2. CASE UNCHANGED catalogVars
    BY <2>1, <2>2 DEF catalogVars
  <2>3. CASE InitializeCatalog \/ StopReconciliation \/ WatcherUpsert
    BY <2>1, <2>3 DEF InitializeCatalog, StopReconciliation, WatcherUpsert,
       loopVars
  <2>4. ASSUME NEW n \in Notes, ChangeFile(n) \/ WatcherDelete(n) \/ WatcherStat(n)
        PROVE  OnlyTheNamedLoop'
    BY <2>1, <2>4 DEF ChangeFile, WatcherDelete, WatcherStat, loopVars
  <2>. QED
    BY <2>2, <2>3, <2>4, StartKeepsOneLoop, ReconcileKeepsOneLoop
       DEF CatalogNext
<1>3. OnlyTheNamedLoop => OneReconciler
  <2> SUFFICES ASSUME OnlyTheNamedLoop PROVE OneReconciler
    OBVIOUS
  <2> DEFINE alive == {l \in Loops : LoopAlive(l)}
  <2>1. alive \subseteq {thread}
    BY DEF OnlyTheNamedLoop
  <2>2. IsFiniteSet({thread}) /\ Cardinality({thread}) = 1
    BY FS_Singleton
  <2>3. Cardinality(alive) =< Cardinality({thread})
    BY <2>1, <2>2, FS_Subset
  <2>. QED
    BY <2>2, <2>3 DEF OneReconciler
<1>. QED
  BY <1>1, <1>2, <1>3, PTL DEF CatalogSpec

(***************************************************************************)
(* The model manager                                                       *)
(***************************************************************************)

BeforeGet == {"check", "probe", "use", "failed", "local", "get"}
Steps == {"idle", "done", "raised", "lock", "encode", "rerank"} \cup BeforeGet

CallRecord ==
    [step : Steps, kind : Kinds, ref : Nat, attempt : Nat,
     saved : {"default", "query", "corpus"}]

ServiceType ==
    /\ required \in BOOLEAN /\ call \in [Threads -> CallRecord]
    /\ model \in Nat /\ loads \in Nat
    /\ length \in [1..(MaxCalls + MaxFaults) -> {"default", "query", "corpus"}]
    /\ inference \in Threads \cup {NoThread}
    /\ faults \in 0..MaxFaults /\ callCount \in 0..MaxCalls

\* The calls that have not asked for a local model yet.
Unserved == {t \in Threads : call[t].step \in BeforeGet}

\* A call and a retried attempt load a model at most once.
LoadsCounted ==
    /\ IsFiniteSet(Unserved)
    /\ loads + Cardinality(Unserved) =< callCount + faults
    /\ model =< loads

\* The thread that encodes holds the inference lock, has an embedding model
\* that was loaded, and will put back the length every model started with.
LockHolders ==
    /\ \A t \in Threads : call[t].step \in {"lock", "encode"} =>
          call[t].kind \in Embeds /\ call[t].ref \in 1..loads
    /\ \A t \in Threads : call[t].step = "encode" <=> inference = t
    /\ \A t \in Threads : call[t].step = "encode" => call[t].saved = "default"

\* A required daemon: no call is past the point where local models are
\* refused.
NoneLocal ==
    required =>
        /\ loads = 0
        /\ \A t \in Threads :
              call[t].step \notin {"get", "lock", "encode", "rerank"}

ServiceInv ==
    /\ ServiceType /\ LoadsCounted /\ LockHolders /\ NoneLocal
    /\ EncodesAtItsLength

-----------------------------------------------------------------------------

LEMMA ServiceInitInv == ServiceInit => ServiceInv
<1> SUFFICES ASSUME ServiceInit PROVE ServiceInv
  OBVIOUS
<1>1. Resting \in CallRecord /\ Resting.step = "idle"
  BY DEF Resting, CallRecord, Steps, Kinds
<1>2. \A t \in Threads : call[t] = Resting
  BY DEF ServiceInit
<1>3. ServiceType
  BY <1>1, ServiceAssumption DEF ServiceInit, ServiceType
<1>4. LoadsCounted
  <2>1. Unserved = {}
    BY <1>1, <1>2 DEF Unserved, BeforeGet
  <2>. QED
    BY <2>1, FS_EmptySet DEF LoadsCounted, ServiceInit
<1>5. LockHolders /\ NoneLocal /\ EncodesAtItsLength
  BY <1>1, <1>2, ServiceAssumption DEF ServiceInit, LockHolders, NoneLocal,
     EncodesAtItsLength
<1>. QED
  BY <1>3, <1>4, <1>5 DEF ServiceInv

\* The set of calls without a model after one call moved.
LEMMA MovedCall ==
    ASSUME ServiceInv, NEW t \in Threads, NEW r \in CallRecord,
           call' = [call EXCEPT ![t] = r]
    PROVE  /\ call' \in [Threads -> CallRecord] /\ call'[t] = r
           /\ \A u \in Threads : u # t => call'[u] = call[u]
           /\ IsFiniteSet(Unserved') /\ Cardinality(Unserved') \in Nat
           /\ Cardinality(Unserved) \in Nat
           /\ r.step \notin BeforeGet => Cardinality(Unserved') =< Cardinality(Unserved)
           /\ r.step \notin BeforeGet /\ t \in Unserved =>
                 Cardinality(Unserved') = Cardinality(Unserved) - 1
           /\ t \in Unserved => Cardinality(Unserved') =< Cardinality(Unserved)
           /\ Cardinality(Unserved') =< Cardinality(Unserved) + 1
<1>1. /\ call' \in [Threads -> CallRecord] /\ call'[t] = r
      /\ \A u \in Threads : u # t => call'[u] = call[u]
  BY DEF ServiceInv, ServiceType
<1>2. IsFiniteSet(Unserved)
  BY DEF ServiceInv, LoadsCounted
<1>3. /\ r.step \in BeforeGet => Unserved' = Unserved \cup {t}
      /\ r.step \notin BeforeGet => Unserved' = Unserved \ {t}
  BY <1>1 DEF Unserved
<1>4. /\ IsFiniteSet(Unserved \cup {t}) /\ IsFiniteSet(Unserved \ {t})
      /\ Cardinality(Unserved \cup {t}) =
            IF t \in Unserved THEN Cardinality(Unserved)
            ELSE Cardinality(Unserved) + 1
      /\ Cardinality(Unserved \ {t}) =
            IF t \in Unserved THEN Cardinality(Unserved) - 1
            ELSE Cardinality(Unserved)
  BY <1>2, FS_AddElement, FS_RemoveElement
<1>5. Cardinality(Unserved) \in Nat
  BY <1>2, FS_CardinalityType
<1>6. Cardinality(Unserved \cup {t}) \in Nat /\ Cardinality(Unserved \ {t}) \in Nat
  BY <1>4, FS_CardinalityType
<1>7. CASE r.step \in BeforeGet
  <2>1. Unserved' = Unserved \cup {t}
    BY <1>3, <1>7
  <2>2. IsFiniteSet(Unserved') /\ Cardinality(Unserved') = Cardinality(Unserved \cup {t})
    BY <2>1, <1>4
  <2>. QED
    BY <1>1, <1>4, <1>5, <1>6, <1>7, <2>2
<1>8. CASE r.step \notin BeforeGet
  <2>1. Unserved' = Unserved \ {t}
    BY <1>3, <1>8
  <2>2. IsFiniteSet(Unserved') /\ Cardinality(Unserved') = Cardinality(Unserved \ {t})
    BY <2>1, <1>4
  <2>. QED
    BY <1>1, <1>4, <1>5, <1>6, <1>8, <2>2
<1>. QED
  BY <1>7, <1>8

\* A thread moves on outside the inference lock: to a step that needs no
\* local model, or out of the call.
LEMMA MoveKeeps ==
    ASSUME ServiceInv, NEW t \in Threads, NEW r \in CallRecord,
           call' = [call EXCEPT ![t] = r],
           call[t].step \in BeforeGet \cup {"rerank"},
           r.step \notin {"lock", "encode", "rerank"},
           r.step \in BeforeGet => call[t].step \in BeforeGet,
           required => r.step # "get",
           UNCHANGED <<required, model, loads, length, inference, callCount>>,
           faults' \in {faults, faults + 1}, faults' =< MaxFaults
    PROVE  ServiceInv'
<1>1. /\ call' \in [Threads -> CallRecord] /\ call'[t] = r
      /\ \A u \in Threads : u # t => call'[u] = call[u]
      /\ IsFiniteSet(Unserved') /\ Cardinality(Unserved') \in Nat
      /\ Cardinality(Unserved) \in Nat
      /\ r.step \notin BeforeGet => Cardinality(Unserved') =< Cardinality(Unserved)
      /\ t \in Unserved => Cardinality(Unserved') =< Cardinality(Unserved)
  BY MovedCall
<1>2. Cardinality(Unserved') =< Cardinality(Unserved)
  BY <1>1 DEF Unserved
<1>3. ServiceType'
  BY <1>1, ServiceAssumption DEF ServiceInv, ServiceType
<1>4. LoadsCounted'
  BY <1>1, <1>2, ServiceAssumption DEF ServiceInv, ServiceType, LoadsCounted
<1>5. call[t].step # "encode"
  BY DEF BeforeGet
<1>6. LockHolders'
  BY <1>1, <1>5 DEF ServiceInv, LockHolders
<1>7. NoneLocal'
  BY <1>1 DEF ServiceInv, NoneLocal
<1>8. EncodesAtItsLength'
  BY <1>1, <1>5 DEF ServiceInv, EncodesAtItsLength, ServiceType
<1>. QED
  BY <1>3, <1>4, <1>6, <1>7, <1>8 DEF ServiceInv

\* Goto moves to a record of a call.
LEMMA GotoMoves ==
    ASSUME ServiceInv, NEW t \in Threads, NEW step \in Steps, Goto(t, step)
    PROVE  \E r \in CallRecord :
              r.step = step /\ call' = [call EXCEPT ![t] = r]
<1> DEFINE r == [(IF step \in Ending THEN Resting ELSE call[t])
                   EXCEPT !.step = step]
<1>1. call[t] \in CallRecord /\ Resting \in CallRecord
  BY DEF ServiceInv, ServiceType, Resting, CallRecord, Steps, Kinds
<1>2. \A q \in CallRecord : /\ [q EXCEPT !.step = step] \in CallRecord
                            /\ [q EXCEPT !.step = step].step = step
  BY DEF CallRecord
<1>3. r \in CallRecord /\ r.step = step
  BY <1>1, <1>2
<1>. QED
  BY <1>3 DEF Goto

LEMMA RemoteKeeps ==
    ASSUME ServiceInv, NEW t \in Threads,
           \/ ReuseCheck(t) \/ DueCheck(t) \/ Probe(t) \/ UseDaemon(t)
           \/ DaemonFailed(t) \/ MayUseLocal(t) \/ Rerank(t)
    PROVE  ServiceInv'
<1>1. PICK step \in Steps \ {"lock", "encode", "rerank", "check"} :
          /\ Goto(t, step)
          /\ step = "get" => ~required
          /\ step \in BeforeGet => call[t].step \in BeforeGet
  BY DEF ReuseCheck, DueCheck, Probe, UseDaemon, DaemonFailed, MayUseLocal,
     Rerank, Steps, BeforeGet
<1>2. /\ call[t].step \in BeforeGet \cup {"rerank"}
      /\ UNCHANGED <<required, model, loads, length, inference, callCount>>
      /\ faults' \in {faults, faults + 1} /\ faults' =< MaxFaults
  <2>1. faults \in Nat /\ faults =< MaxFaults /\ MaxFaults \in Nat
    BY ServiceAssumption DEF ServiceInv, ServiceType
  <2>2. call[t].step \in BeforeGet \cup {"rerank"}
    BY DEF ReuseCheck, DueCheck, Probe, UseDaemon, DaemonFailed, MayUseLocal,
       Rerank, BeforeGet
  <2>3. UNCHANGED <<required, model, loads, length, inference, callCount>>
    BY DEF ReuseCheck, DueCheck, Probe, UseDaemon, DaemonFailed, MayUseLocal,
       Rerank, modelVars
  <2>4. \/ UNCHANGED faults
        \/ faults < MaxFaults /\ faults' = faults + 1
    BY DEF ReuseCheck, DueCheck, Probe, UseDaemon, DaemonFailed, MayUseLocal,
       Rerank
  <2>. QED
    BY <2>1, <2>2, <2>3, <2>4
<1>3. PICK r \in CallRecord : r.step = step /\ call' = [call EXCEPT ![t] = r]
  BY <1>1, GotoMoves
<1>. QED
  BY <1>1, <1>2, <1>3, MoveKeeps

\* The record with which a call, or another attempt of it, is entered.
LEMMA EnteredCall ==
    ASSUME NEW kind \in Kinds, NEW n \in Nat
    PROVE  /\ [Resting EXCEPT !.step = "check", !.kind = kind, !.attempt = n]
                 \in CallRecord
           /\ [Resting EXCEPT !.step = "check", !.kind = kind,
                              !.attempt = n].step = "check"
BY DEF Resting, CallRecord, Steps, Kinds, BeforeGet

\* A call begins: it counts as one that may still load a model.
LEMMA BeginCallKeeps ==
    ASSUME ServiceInv, NEW t \in Threads, BeginCall(t)
    PROVE  ServiceInv'
<1>1. PICK kind \in Kinds :
        call' = [call EXCEPT ![t] = [Resting EXCEPT !.step = "check",
                                                    !.kind = kind,
                                                    !.attempt = 1]]
  BY DEF BeginCall
<1> DEFINE r == [Resting EXCEPT !.step = "check", !.kind = kind, !.attempt = 1]
<1>2. r \in CallRecord /\ r.step = "check"
  BY EnteredCall
<1>3. call' = [call EXCEPT ![t] = r]
  BY <1>1
<1>. HIDE DEF r
<1>4. /\ call[t].step \in {"idle", "done", "raised"} /\ callCount < MaxCalls
      /\ callCount' = callCount + 1
      /\ UNCHANGED <<required, model, loads, length, inference, faults>>
  BY DEF BeginCall, modelVars
<1>5. /\ call' \in [Threads -> CallRecord] /\ call'[t] = r
      /\ \A u \in Threads : u # t => call'[u] = call[u]
      /\ IsFiniteSet(Unserved') /\ Cardinality(Unserved') \in Nat
      /\ Cardinality(Unserved) \in Nat
      /\ Cardinality(Unserved') =< Cardinality(Unserved) + 1
  BY <1>2, <1>3, MovedCall
<1>6. ServiceType'
  BY <1>4, <1>5, ServiceAssumption DEF ServiceInv, ServiceType
<1>7. LoadsCounted'
  BY <1>4, <1>5, ServiceAssumption DEF ServiceInv, ServiceType, LoadsCounted
<1>8. LockHolders' /\ NoneLocal'
  BY <1>2, <1>4, <1>5 DEF ServiceInv, LockHolders, NoneLocal
<1>9. EncodesAtItsLength'
  BY <1>2, <1>4, <1>5 DEF ServiceInv, EncodesAtItsLength, ServiceType
<1>. QED
  BY <1>6, <1>7, <1>8, <1>9 DEF ServiceInv

\* _get_embed_model: a model that is loaded is paid for by the call that
\* leaves the calls without one.
LEMMA GetModelKeeps ==
    ASSUME ServiceInv, NEW t \in Threads, GetModel(t)
    PROVE  ServiceInv'
<1> DEFINE r == [call[t] EXCEPT !.ref = model',
                   !.step = IF call[t].kind \in Embeds THEN "lock" ELSE "rerank"]
<1>1. /\ call[t].step = "get"
      /\ model' = IF model = 0 THEN loads + 1 ELSE model
      /\ loads' = IF model = 0 THEN loads + 1 ELSE loads
      /\ UNCHANGED <<required, length, inference, faults, callCount>>
  BY DEF GetModel
<1>2. /\ call[t] \in CallRecord /\ model \in Nat /\ loads \in Nat
      /\ model =< loads /\ faults \in Nat /\ callCount \in Nat
      /\ loads + Cardinality(Unserved) =< callCount + faults
      /\ t \in Unserved
  BY <1>1, ServiceAssumption
     DEF ServiceInv, ServiceType, LoadsCounted, Unserved, BeforeGet
<1>3. /\ model' \in Nat /\ loads' \in Nat /\ model' =< loads' /\ model' # 0
      /\ loads' >= loads /\ loads' =< loads + 1
  BY <1>1, <1>2
<1>4. /\ r \in CallRecord /\ r.ref = model' /\ r.kind = call[t].kind
      /\ r.step = IF call[t].kind \in Embeds THEN "lock" ELSE "rerank"
  BY <1>2, <1>3 DEF CallRecord, Steps
<1>5. call' = [call EXCEPT ![t] = r]
  <2>1. call \in [Threads -> CallRecord]
    BY DEF ServiceInv, ServiceType
  <2>. QED
    BY <1>2, <2>1 DEF GetModel, CallRecord
<1>. HIDE DEF r
<1>6. /\ call' \in [Threads -> CallRecord] /\ call'[t] = r
      /\ \A u \in Threads : u # t => call'[u] = call[u]
      /\ IsFiniteSet(Unserved') /\ Cardinality(Unserved') \in Nat
      /\ Cardinality(Unserved) \in Nat
      /\ r.step \notin BeforeGet /\ t \in Unserved =>
            Cardinality(Unserved') = Cardinality(Unserved) - 1
  BY <1>4, <1>5, MovedCall
<1>7. Cardinality(Unserved') = Cardinality(Unserved) - 1
  BY <1>2, <1>4, <1>6 DEF BeforeGet
<1>8. ServiceType'
  BY <1>1, <1>3, <1>6 DEF ServiceInv, ServiceType
<1>9. LoadsCounted'
  BY <1>1, <1>2, <1>3, <1>6, <1>7 DEF LoadsCounted
<1>10. LockHolders'
  <2>1. \A u \in Threads : call'[u].step \in {"lock", "encode"} =>
           call'[u].kind \in Embeds /\ call'[u].ref \in 1..loads'
    <3>1. call'[t].step \in {"lock", "encode"} => call'[t].kind \in Embeds
      BY <1>4, <1>6
    <3>2. call'[t].ref \in 1..loads'
      BY <1>3, <1>4, <1>6
    <3>3. \A u \in Threads : call[u].step \in {"lock", "encode"} =>
             call[u].kind \in Embeds /\ call[u].ref \in 1..loads'
      <4>1. \A k : k \in 1..loads => k \in 1..loads'
        BY <1>2, <1>3
      <4>. QED
        BY <4>1 DEF ServiceInv, LockHolders
    <3>. QED
      BY <3>1, <3>2, <3>3, <1>6
  <2>. QED
    BY <2>1, <1>1, <1>4, <1>6 DEF ServiceInv, LockHolders
<1>11. ~required
  BY <1>1 DEF ServiceInv, NoneLocal
<1>12. NoneLocal'
  BY <1>1, <1>11 DEF NoneLocal
<1>13. EncodesAtItsLength'
  BY <1>1, <1>4, <1>6 DEF ServiceInv, EncodesAtItsLength, ServiceType
<1>. QED
  BY <1>8, <1>9, <1>10, <1>12, <1>13 DEF ServiceInv

\* A loaded model has a place among the lengths.
LEMMA RefInRange ==
    ASSUME ServiceInv, NEW t \in Threads,
           call[t].step \in {"lock", "encode"}
    PROVE  call[t].ref \in 1..(MaxCalls + MaxFaults)
<1>1. /\ call[t].ref \in 1..loads
      /\ loads + Cardinality(Unserved) =< callCount + faults
  BY DEF ServiceInv, LockHolders, LoadsCounted
<1>2. Cardinality(Unserved) \in Nat
  BY FS_CardinalityType DEF ServiceInv, LoadsCounted
<1>. QED
  BY <1>1, <1>2, ServiceAssumption DEF ServiceInv, ServiceType

LEMMA BeginEncodeKeeps ==
    ASSUME ServiceInv, NEW t \in Threads, BeginEncode(t)
    PROVE  ServiceInv'
<1> DEFINE g == call[t].ref
           r == [call[t] EXCEPT !.step = "encode", !.saved = length[g]]
<1>1. /\ call[t].step = "lock" /\ inference = NoThread /\ inference' = t
      /\ length' = [length EXCEPT ![g] = call[t].kind]
      /\ UNCHANGED <<required, model, loads, faults, callCount>>
  BY DEF BeginEncode
<1>2. /\ g \in DOMAIN length /\ call[t] \in CallRecord
      /\ call[t].kind \in Embeds /\ g \in 1..loads
      /\ DOMAIN length = 1..(MaxCalls + MaxFaults)
  BY <1>1, RefInRange DEF ServiceInv, ServiceType, LockHolders
<1>3. \A u \in Threads : call[u].step # "encode"
  BY <1>1, ServiceAssumption DEF ServiceInv, LockHolders
<1>4. \A h \in DOMAIN length : length[h] = "default"
  BY <1>3 DEF ServiceInv, EncodesAtItsLength
<1>5. /\ r \in CallRecord /\ r.step = "encode" /\ r.saved = "default"
      /\ r.ref = g /\ r.kind = call[t].kind
  BY <1>2, <1>4 DEF CallRecord, Steps
<1>6. call' = [call EXCEPT ![t] = r]
  <2>1. call \in [Threads -> CallRecord]
    BY DEF ServiceInv, ServiceType
  <2>. QED
    BY <1>2, <2>1 DEF BeginEncode, CallRecord
<1>. HIDE DEF r, g
<1>7. /\ call' \in [Threads -> CallRecord] /\ call'[t] = r
      /\ \A u \in Threads : u # t => call'[u] = call[u]
      /\ IsFiniteSet(Unserved') /\ Cardinality(Unserved') \in Nat
      /\ Cardinality(Unserved) \in Nat
      /\ r.step \notin BeforeGet => Cardinality(Unserved') =< Cardinality(Unserved)
  BY <1>5, <1>6, MovedCall
<1>8. Cardinality(Unserved') =< Cardinality(Unserved)
  BY <1>5, <1>7 DEF BeforeGet
<1>9. /\ length' \in [1..(MaxCalls + MaxFaults) -> {"default", "query", "corpus"}]
      /\ length'[g] = call[t].kind
      /\ \A h \in DOMAIN length : h # g => length'[h] = "default"
      /\ DOMAIN length' = DOMAIN length
  BY <1>1, <1>2, <1>4 DEF ServiceInv, ServiceType, Embeds
<1>10. ServiceType'
  BY <1>1, <1>7, <1>9 DEF ServiceInv, ServiceType
<1>11. LoadsCounted'
  BY <1>1, <1>7, <1>8, ServiceAssumption
     DEF ServiceInv, ServiceType, LoadsCounted
<1>12. LockHolders'
  BY <1>1, <1>2, <1>3, <1>5, <1>7 DEF ServiceInv, LockHolders
<1>13. NoneLocal'
  BY <1>1 DEF ServiceInv, NoneLocal
<1>14. EncodesAtItsLength'
  BY <1>3, <1>5, <1>7, <1>9 DEF EncodesAtItsLength
<1>. QED
  BY <1>10, <1>11, <1>12, <1>13, <1>14 DEF ServiceInv

\* The end of an encoding, by an answer or by an exception.
LEMMA ReleaseKeeps ==
    ASSUME ServiceInv, NEW t \in Threads, NEW r \in CallRecord,
           call[t].step = "encode", Released(t),
           call' = [call EXCEPT ![t] = r],
           r.step \in {"done", "raised", "check"},
           UNCHANGED <<required, model, loads, callCount>>,
           faults' \in {faults, faults + 1}, faults' =< MaxFaults,
           r.step = "check" => faults' = faults + 1
    PROVE  ServiceInv'
<1> DEFINE g == call[t].ref
<1>1. /\ inference' = NoThread /\ inference = t
      /\ length' = [length EXCEPT ![g] = "default"]
      /\ g \in DOMAIN length /\ DOMAIN length = 1..(MaxCalls + MaxFaults)
  BY RefInRange DEF Released, ServiceInv, LockHolders, ServiceType
<1>2. \A u \in Threads : u # t => call[u].step # "encode"
  BY <1>1 DEF ServiceInv, LockHolders
<1>3. /\ call' \in [Threads -> CallRecord] /\ call'[t] = r
      /\ \A u \in Threads : u # t => call'[u] = call[u]
      /\ IsFiniteSet(Unserved') /\ Cardinality(Unserved') \in Nat
      /\ Cardinality(Unserved) \in Nat
      /\ r.step \notin BeforeGet => Cardinality(Unserved') =< Cardinality(Unserved)
      /\ Cardinality(Unserved') =< Cardinality(Unserved) + 1
  BY MovedCall
<1>4. faults \in Nat /\ faults' \in Nat /\ MaxFaults \in Nat /\ callCount \in Nat
      /\ loads \in Nat /\ loads + Cardinality(Unserved) =< callCount + faults
      /\ model =< loads
  BY ServiceAssumption DEF ServiceInv, ServiceType, LoadsCounted
<1>5. \A h \in DOMAIN length' : length'[h] = "default"
  BY <1>1, <1>2 DEF ServiceInv, EncodesAtItsLength
<1>. HIDE DEF g
<1>6. ServiceType'
  BY <1>1, <1>3, <1>4 DEF ServiceInv, ServiceType
<1>7. LoadsCounted'
  <2>1. CASE r.step = "check"
    BY <2>1, <1>3, <1>4 DEF LoadsCounted
  <2>2. CASE r.step # "check"
    <3>1. r.step \notin BeforeGet
      BY <2>2 DEF BeforeGet
    <3>. QED
      BY <3>1, <1>3, <1>4 DEF LoadsCounted
  <2>. QED
    BY <2>1, <2>2
<1>8. LockHolders'
  BY <1>1, <1>2, <1>3, ServiceAssumption DEF ServiceInv, LockHolders
<1>9. NoneLocal'
  BY <1>3 DEF ServiceInv, NoneLocal
<1>10. EncodesAtItsLength'
  BY <1>2, <1>3, <1>5 DEF EncodesAtItsLength
<1>. QED
  BY <1>6, <1>7, <1>8, <1>9, <1>10 DEF ServiceInv

LEMMA EncodeEndsKeeps ==
    ASSUME ServiceInv, NEW t \in Threads, EndEncode(t) \/ EncodeRaises(t)
    PROVE  ServiceInv'
<1>1. /\ call[t].step = "encode" /\ Released(t)
      /\ UNCHANGED <<required, model, loads, callCount>>
  BY DEF EndEncode, EncodeRaises
<1>2. faults \in Nat /\ MaxFaults \in Nat /\ faults =< MaxFaults
  BY ServiceAssumption DEF ServiceInv, ServiceType
<1>3. CASE EndEncode(t)
  <2>1. PICK r \in CallRecord :
           r.step = "done" /\ call' = [call EXCEPT ![t] = r]
    BY <1>3, GotoMoves DEF EndEncode, Steps
  <2>. QED
    BY <1>1, <1>2, <1>3, <2>1, ReleaseKeeps DEF EndEncode
<1>4. CASE EncodeRaises(t)
  <2>1. faults' = faults + 1 /\ faults' =< MaxFaults
    BY <1>2, <1>4 DEF EncodeRaises
  <2>2. CASE call[t].attempt < MaxAttempts
    <3> DEFINE r == [Resting EXCEPT !.step = "check", !.kind = call[t].kind,
                                    !.attempt = call[t].attempt + 1]
    <3>1. call[t] \in CallRecord
      BY DEF ServiceInv, ServiceType
    <3>2. r \in CallRecord /\ r.step = "check"
      <4>1. call[t].kind \in Kinds /\ call[t].attempt + 1 \in Nat
        BY <3>1 DEF CallRecord
      <4>. QED
        BY <4>1, EnteredCall
    <3>3. call' = [call EXCEPT ![t] = r]
      BY <1>4, <2>2 DEF EncodeRaises
    <3>. HIDE DEF r
    <3>. QED
      BY <1>1, <2>1, <3>2, <3>3, ReleaseKeeps, Zenon
  <2>3. CASE ~(call[t].attempt < MaxAttempts)
    <3>1. PICK r \in CallRecord :
             r.step = "raised" /\ call' = [call EXCEPT ![t] = r]
      BY <1>4, <2>3, GotoMoves DEF EncodeRaises, Steps
    <3>. QED
      BY <1>1, <2>1, <3>1, ReleaseKeeps
  <2>. QED
    BY <2>2, <2>3
<1>. QED
  BY <1>3, <1>4

\* The daemon's flips, the clock, the timer and the shutdown.
LEMMA TimerKeeps ==
    ASSUME ServiceInv,
           \/ DaemonFlips \/ TimePasses \/ TimerFires \/ CleanupModels
           \/ Cleanup \/ UNCHANGED serviceState
    PROVE  ServiceInv'
<1>1. /\ UNCHANGED <<required, call, loads, length, inference, faults,
                     callCount>>
      /\ model' \in {0, model}
  BY DEF DaemonFlips, TimePasses, TimerFires, CleanupModels, Cleanup,
     serviceState, modelVars
<1>2. Unserved' = Unserved
  BY <1>1 DEF Unserved
<1>3. ServiceType' /\ LoadsCounted'
  BY <1>1, <1>2 DEF ServiceInv, ServiceType, LoadsCounted
<1>4. LockHolders' /\ NoneLocal' /\ EncodesAtItsLength'
  BY <1>1 DEF ServiceInv, LockHolders, NoneLocal, EncodesAtItsLength
<1>. QED
  BY <1>3, <1>4 DEF ServiceInv

-----------------------------------------------------------------------------

\* For any number of threads, calls and faults: texts are encoded at the
\* length of their own call, and a required daemon is never bypassed.
THEOREM ModelsAlwaysSound == ServiceSpec => []ModelsSound
<1>1. ServiceInv /\ [ServiceNext]_serviceState => ServiceInv'
  BY BeginCallKeeps, RemoteKeeps, GetModelKeeps, BeginEncodeKeeps,
     EncodeEndsKeeps, TimerKeeps DEF ServiceNext, ThreadStep
<1>2. ServiceInv => ModelsSound
  BY DEF ServiceInv, NoneLocal, ModelsSound, RequiredStaysRemote
<1>. QED
  BY <1>1, <1>2, ServiceInitInv, PTL DEF ServiceSpec

\* Models go only after inactivity or at shutdown: a timer that fired before
\* a call touched them does not unload them.
THEOREM TouchedModelsStay == ServiceSpec => FreshModelsStay
<1>1. ServiceInv /\ [ServiceNext]_serviceState =>
         [model # 0 /\ model' = 0 => idle \/ shut' # shut]_serviceState
  <2> SUFFICES ASSUME ServiceInv, ServiceNext, model # 0, model' = 0
               PROVE  idle \/ shut' # shut
    BY DEF serviceState
  <2>1. ASSUME NEW t \in Threads, BeginCall(t) \/ ThreadStep(t) \/ EncodeRaises(t)
        PROVE  FALSE
    <3>1. loads \in Nat
      BY DEF ServiceInv, ServiceType
    <3>2. model' = model \/ model' = loads + 1
      BY <2>1 DEF BeginCall, ThreadStep, EncodeRaises, ReuseCheck, DueCheck,
         Probe, UseDaemon, DaemonFailed, MayUseLocal, GetModel, BeginEncode,
         EndEncode, Rerank, modelVars
    <3>. QED
      BY <3>1, <3>2
  <2>2. CASE DaemonFlips \/ TimePasses \/ TimerFires
    BY <2>2 DEF DaemonFlips, TimePasses, TimerFires, modelVars
  <2>3. CASE CleanupModels
    BY <2>3 DEF CleanupModels
  <2>4. CASE Cleanup
    BY <2>4 DEF Cleanup
  <2>. QED
    BY <2>1, <2>2, <2>3, <2>4 DEF ServiceNext
<1>2. ServiceInv /\ [ServiceNext]_serviceState => ServiceInv'
  BY BeginCallKeeps, RemoteKeeps, GetModelKeeps, BeginEncodeKeeps,
     EncodeEndsKeeps, TimerKeeps DEF ServiceNext, ThreadStep
<1>. QED
  BY <1>1, <1>2, ServiceInitInv, PTL DEF ServiceSpec, FreshModelsStay

(***************************************************************************)
(* The embedding daemon                                                    *)
(***************************************************************************)

DaemonType ==
    /\ proc \in [Daemons -> {"off", "serving", "closing", "joining", "exited"}]
    /\ warming \in [Daemons -> {"none", "warmup", "warmed", "watcher", "done"}]
    /\ health \in [Daemons -> {"starting", "degraded", "ready", "failed"}]
    /\ handling \in [Daemons -> Nat] /\ port \in Daemons \cup {NoDaemon}
    /\ reported \subseteq Daemons

\* The health of a process is set once: a process that is not started or
\* still warming up is "starting", and only a bound one is answered for.
HealthSetOnce ==
    /\ \A p \in Daemons : proc[p] = "off" \/ warming[p] \in {"warmup", "warmed"}
          => health[p] = "starting"
    /\ \A p \in Daemons : proc[p] = "off" => warming[p] = "none"
    /\ \A p \in Daemons : port = p => proc[p] # "off"
    /\ \A p \in reported : proc[p] # "off"

DaemonInv == DaemonType /\ HealthSetOnce /\ DaemonSound

LEMMA DaemonInitInv == DaemonInit => DaemonInv
BY DaemonAssumption DEF DaemonInit, DaemonInv, DaemonType, HealthSetOnce,
   DaemonSound, LaunchIsOurs, InferenceNeedsReady

\* The steps that change neither a health nor an admitted request.
LEMMA QuietDaemonKeeps ==
    ASSUME DaemonInv, UNCHANGED health,
           DaemonType', HealthSetOnce', UNCHANGED reported,
           \A p \in Daemons : handling'[p] > 0 => handling[p] > 0
    PROVE  DaemonInv'
BY DEF DaemonInv, DaemonSound, LaunchIsOurs, InferenceNeedsReady

LEMMA DaemonStepKeeps ==
    ASSUME DaemonInv, NEW p \in Daemons,
           \/ BindPort(p) \/ BindFails(p) \/ DaemonStep(p) \/ Terminate(p)
           \/ Request(p) \/ Infer(p) \/ Report(p)
    PROVE  DaemonInv'
<1> USE DEF DaemonInv
<1>1. CASE BindPort(p)
  <2>1. DaemonType' /\ HealthSetOnce'
    BY <1>1, DaemonAssumption DEF BindPort, DaemonType, HealthSetOnce
  <2>. QED
    BY <1>1, <2>1, QuietDaemonKeeps DEF BindPort
<1>2. CASE BindFails(p)
  <2>1. DaemonType' /\ HealthSetOnce'
    BY <1>2 DEF BindFails, Exit, DaemonType, HealthSetOnce
  <2>2. p \notin reported
    BY <1>2 DEF BindFails, HealthSetOnce
  <2>3. LaunchIsOurs'
    BY <1>2, <2>2 DEF BindFails, DaemonSound, LaunchIsOurs, DaemonType
  <2>4. InferenceNeedsReady'
    BY <1>2 DEF BindFails, Exit, DaemonSound, InferenceNeedsReady, DaemonType
  <2>. QED
    BY <2>1, <2>3, <2>4 DEF DaemonSound
<1>3. CASE Warmup(p)
  <2>1. DaemonType' /\ HealthSetOnce'
    BY <1>3 DEF Warmup, DaemonType, HealthSetOnce
  <2>. QED
    BY <1>3, <2>1, QuietDaemonKeeps DEF Warmup
<1>4. CASE SetHealth(p)
  <2>1. health[p] = "starting" /\ proc[p] # "off"
    BY <1>4 DEF SetHealth, HealthSetOnce
  <2>2. WarmupState(errors[p], memory[p]) \in {"failed", "degraded", "ready"}
    BY DEF WarmupState
  <2>3. DaemonType'
    BY <1>4, <2>2 DEF SetHealth, DaemonType
  <2>4. HealthSetOnce'
    BY <1>4, <2>1 DEF SetHealth, DaemonType, HealthSetOnce
  <2>5. p \notin reported /\ ~(handling[p] > 0)
    BY <2>1 DEF DaemonSound, LaunchIsOurs, InferenceNeedsReady
  <2>6. DaemonSound'
    BY <1>4, <2>5 DEF SetHealth, DaemonSound, LaunchIsOurs,
       InferenceNeedsReady, DaemonType
  <2>. QED
    BY <2>3, <2>4, <2>6
<1>5. CASE StartWatcher(p)
  <2>1. DaemonType' /\ HealthSetOnce'
    BY <1>5 DEF StartWatcher, DaemonType, HealthSetOnce
  <2>. QED
    BY <1>5, <2>1, QuietDaemonKeeps DEF StartWatcher
<1>6. CASE LeaveLoop(p)
  <2>1. DaemonType' /\ HealthSetOnce'
    BY <1>6 DEF LeaveLoop, DaemonType, HealthSetOnce
  <2>. QED
    BY <1>6, <2>1, QuietDaemonKeeps DEF LeaveLoop
<1>7. CASE ClosePort(p)
  <2>1. DaemonType' /\ HealthSetOnce'
    BY <1>7, DaemonAssumption DEF ClosePort, DaemonType, HealthSetOnce
  <2>. QED
    BY <1>7, <2>1, QuietDaemonKeeps DEF ClosePort
<1>8. CASE FinishServing(p)
  <2>1. DaemonType' /\ HealthSetOnce'
    BY <1>8 DEF FinishServing, Exit, DaemonType, HealthSetOnce
  <2>2. \A q \in Daemons : handling'[q] > 0 => handling[q] > 0
    BY <1>8 DEF FinishServing, Exit, DaemonType
  <2>. QED
    BY <1>8, <2>1, <2>2, QuietDaemonKeeps DEF FinishServing
<1>9. CASE Terminate(p)
  <2>1. DaemonType' /\ HealthSetOnce'
    BY <1>9 DEF Terminate, DaemonType, HealthSetOnce
  <2>. QED
    BY <1>9, <2>1, QuietDaemonKeeps DEF Terminate
<1>10. CASE Request(p)
  <2>1. DaemonType' /\ HealthSetOnce'
    BY <1>10 DEF Request, DaemonType, HealthSetOnce
  <2>2. Admits(p) => health[p] = "ready"
    BY DEF Admits, Status
  <2>3. DaemonSound'
    BY <1>10, <2>2 DEF Request, DaemonSound, LaunchIsOurs,
       InferenceNeedsReady, DaemonType
  <2>. QED
    BY <2>1, <2>3
<1>11. CASE Infer(p)
  <2>1. DaemonType' /\ HealthSetOnce'
    BY <1>11 DEF Infer, DaemonType, HealthSetOnce
  <2>2. \A q \in Daemons : handling'[q] > 0 => handling[q] > 0
    BY <1>11 DEF Infer, DaemonType
  <2>. QED
    BY <1>11, <2>1, <2>2, QuietDaemonKeeps DEF Infer
<1>12. CASE Report(p)
  <2>1. port = p /\ health[p] = "ready"
    BY <1>12 DEF Report, HealthIsReady, Status
  <2>2. DaemonType' /\ HealthSetOnce' /\ DaemonSound'
    BY <1>12, <2>1 DEF Report, DaemonType, HealthSetOnce, DaemonSound,
       LaunchIsOurs, InferenceNeedsReady
  <2>. QED
    BY <2>2
<1>. QED
  BY <1>1, <1>2, <1>3, <1>4, <1>5, <1>6, <1>7, <1>8, <1>9, <1>10, <1>11,
     <1>12 DEF DaemonStep

\* For any number of processes: the installer reports its own ready daemon
\* only, and only a ready daemon runs inferences.
THEOREM DaemonAlwaysSound == DaemonSpec => []DaemonSound
<1>1. DaemonInv /\ UNCHANGED daemonState => DaemonInv'
  BY DEF DaemonInv, DaemonType, HealthSetOnce, DaemonSound, LaunchIsOurs,
     InferenceNeedsReady, daemonState
<1>2. DaemonInv /\ [DaemonNext]_daemonState => DaemonInv'
  BY <1>1, DaemonStepKeeps DEF DaemonNext
<1>3. DaemonInv => DaemonSound
  BY DEF DaemonInv
<1>. QED
  BY <1>2, <1>3, DaemonInitInv, PTL DEF DaemonSpec

=============================================================================
