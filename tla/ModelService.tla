---------------------------- MODULE ModelService ----------------------------
(***************************************************************************)
(* The shared models of core/models.py: threads embed and rerank through   *)
(* the daemon when it answers, and otherwise through models that are       *)
(* loaded on demand, used under their locks and unloaded by a timer after  *)
(* inactivity.  Vectors and scores are left out.                           *)
(*                                                                         *)
(* A local model is the number of its load, so that a reference kept over  *)
(* an unload is told from the model loaded afterwards.  The reranker is    *)
(* loaded and unloaded together with the embedding model's rules and is    *)
(* not kept apart from it.                                                 *)
(***************************************************************************)
EXTENDS Naturals

CONSTANTS
    Threads,
    NoThread,     \* the inference lock is free
    MaxCalls,     \* bound: calls of all threads
    MaxFlips,     \* bound: times the daemon comes up or goes down
    MaxFaults,    \* bound: local inferences that raise
    MaxAttempts   \* RetryConfig.EMBEDDING_MAX_ATTEMPTS

ASSUME ServiceAssumption ==
    /\ NoThread \notin Threads
    /\ {MaxCalls, MaxFlips, MaxFaults, MaxAttempts} \subseteq Nat

VARIABLES
    required,     \* VAULT_SEARCH_REQUIRE_DAEMON=1
    up,           \* the daemon answers that it is ready
    client,       \* _daemon_client is set
    useDaemon,    \* _use_daemon
    lastCheck,    \* _last_daemon_check: "never", "zeroed" or "recorded"
    call,         \* what each thread is doing
    model,        \* _embed_model, 0 for None
    loads,        \* models loaded so far
    length,       \* max_seq_length of each loaded model
    inference,    \* the holder of _embedding_inference_lock
    idle,         \* MODEL_IDLE_TIMEOUT has passed since _last_use
    armed,        \* _cleanup_timer is waiting
    fired,        \* timers that fired and wait for the lock
    flips, faults, callCount, shut

serviceState == <<required, up, client, useDaemon, lastCheck, call, model,
                  loads, length, inference, idle, armed, fired, flips,
                  faults, callCount, shut>>

daemonVars == <<up, client, useDaemon, lastCheck, flips>>
modelVars == <<model, loads, length, inference, idle, armed, fired, shut>>

Kinds == {"query", "corpus", "rerank"}
Embeds == {"query", "corpus"}

Resting == [step |-> "idle", kind |-> "query", ref |-> 0, attempt |-> 0,
            saved |-> "default"]

ServiceInit ==
    /\ required \in BOOLEAN /\ up \in BOOLEAN
    /\ client = FALSE /\ useDaemon = FALSE /\ lastCheck = "never"
    /\ call = [t \in Threads |-> Resting]
    /\ model = 0 /\ loads = 0
    /\ length = [g \in 1..(MaxCalls + MaxFaults) |-> "default"]
    /\ inference = NoThread
    /\ idle = FALSE /\ armed = FALSE /\ fired = 0
    /\ flips = 0 /\ faults = 0 /\ callCount = 0 /\ shut = FALSE

Ending == {"done", "raised"}

\* The thread goes on to a step of its call, or leaves the call.
Goto(t, step) ==
    call' = [call EXCEPT ![t] =
               [(IF step \in Ending THEN Resting ELSE call[t])
                  EXCEPT !.step = step]]

\* The daemon becomes ready, or stops answering.
DaemonFlips ==
    /\ flips < MaxFlips /\ flips' = flips + 1 /\ up' = ~up
    /\ UNCHANGED <<required, client, useDaemon, lastCheck, call, modelVars,
                   faults, callCount>>

\* A tool thread enters embed_queries, embed_corpus or rerank.
BeginCall(t) ==
    /\ call[t].step \in {"idle", "done", "raised"} /\ callCount < MaxCalls
    /\ callCount' = callCount + 1
    /\ \E kind \in Kinds :
          call' = [call EXCEPT ![t] = [Resting EXCEPT !.step = "check",
                                                      !.kind = kind,
                                                      !.attempt = 1]]
    /\ UNCHANGED <<required, daemonVars, modelVars, faults>>

\* _check_daemon with a recent check: the last answer stands.
ReuseCheck(t) ==
    /\ call[t].step = "check" /\ lastCheck = "recorded"
    /\ Goto(t, IF useDaemon THEN "use" ELSE "local")
    /\ UNCHANGED <<required, daemonVars, modelVars, faults, callCount>>

\* _check_daemon when a check is due: the time is recorded before the probe.
DueCheck(t) ==
    /\ call[t].step = "check"
    /\ lastCheck' = "recorded"
    /\ Goto(t, "probe")
    /\ UNCHANGED <<required, up, client, useDaemon, flips, modelVars, faults,
                   callCount>>

\* The health request: a client that answers is kept, otherwise the state is
\* discarded without asking for an immediate retry.
Probe(t) ==
    /\ call[t].step = "probe"
    /\ client' = up /\ useDaemon' = up
    /\ Goto(t, IF up THEN "use" ELSE "local")
    /\ UNCHANGED <<required, up, lastCheck, flips, modelVars, faults,
                   callCount>>

\* The callback of _call_daemon dereferences _daemon_client: AttributeError
\* when another thread has discarded it, which nothing here catches.
UseDaemon(t) ==
    /\ call[t].step = "use"
    /\ Goto(t, IF ~client THEN "raised" ELSE IF up THEN "done" ELSE "failed")
    /\ UNCHANGED <<required, daemonVars, modelVars, faults, callCount>>

\* A failed request: _invalidate_daemon, and an error or the local models.
DaemonFailed(t) ==
    /\ call[t].step = "failed"
    /\ client' = FALSE /\ useDaemon' = FALSE /\ lastCheck' = "zeroed"
    /\ Goto(t, IF required THEN "raised" ELSE "local")
    /\ UNCHANGED <<required, up, flips, modelVars, faults, callCount>>

-----------------------------------------------------------------------------
(* Local models.                                                           *)

\* Defect: the local models are used whatever the configuration says.
AlwaysLocal(t) ==
    /\ call[t].step = "local"
    /\ Goto(t, "get")
    /\ UNCHANGED <<required, daemonVars, modelVars, faults, callCount>>

\* _raise_if_local_fallback_forbidden.
MayUseLocal(t) ==
    /\ call[t].step = "local"
    /\ Goto(t, IF required THEN "raised" ELSE "get")
    /\ UNCHANGED <<required, daemonVars, modelVars, faults, callCount>>

\* Defect: a timer that is already waiting is left as it is.
TouchOnce == idle' = FALSE /\ armed' = (armed \/ fired = 0) /\ UNCHANGED fired

\* _touch: the waiting timer is cancelled and a new one started.  One that
\* has fired can no longer be cancelled.
Touch == idle' = FALSE /\ armed' = TRUE /\ UNCHANGED fired

\* _get_embed_model and _get_reranker, under _lock.
GetModel(t) ==
    /\ call[t].step = "get"
    /\ IF model = 0 THEN model' = loads + 1 /\ loads' = loads + 1
       ELSE UNCHANGED <<model, loads>>
    /\ Touch
    /\ call' = [call EXCEPT ![t].ref = model',
                  ![t].step = IF call[t].kind \in Embeds THEN "lock"
                              ELSE "rerank"]
    /\ UNCHANGED <<required, daemonVars, length, inference, shut, faults,
                   callCount>>

\* Defect: the length is set without the inference lock.
EncodeUnlocked(t) ==
    /\ call[t].step = "lock"
    /\ length' = [length EXCEPT ![call[t].ref] = call[t].kind]
    /\ call' = [call EXCEPT ![t].step = "encode",
                            ![t].saved = length[call[t].ref]]
    /\ UNCHANGED <<required, daemonVars, model, loads, inference, idle,
                   armed, fired, shut, faults, callCount>>

\* The model's max_seq_length is set for the call under the inference lock.
BeginEncode(t) ==
    /\ call[t].step = "lock" /\ inference = NoThread
    /\ inference' = t
    /\ length' = [length EXCEPT ![call[t].ref] = call[t].kind]
    /\ call' = [call EXCEPT ![t].step = "encode",
                            ![t].saved = length[call[t].ref]]
    /\ UNCHANGED <<required, daemonVars, model, loads, idle, armed, fired,
                   shut, faults, callCount>>

\* Defect: the inference lock is kept.
KeptLock(t) ==
    /\ UNCHANGED inference
    /\ length' = [length EXCEPT ![call[t].ref] = call[t].saved]

\* The length is put back and the lock released, also after an exception.
Released(t) ==
    /\ inference' = NoThread
    /\ length' = [length EXCEPT ![call[t].ref] = call[t].saved]

EndEncode(t) ==
    /\ call[t].step = "encode"
    /\ Released(t) /\ Goto(t, "done")
    /\ UNCHANGED <<required, daemonVars, model, loads, idle, armed, fired,
                   shut, faults, callCount>>

\* encode raises: retry_embedding calls the method again from its start, at
\* most MaxAttempts times.
EncodeRaises(t) ==
    /\ call[t].step = "encode" /\ faults < MaxFaults /\ faults' = faults + 1
    /\ Released(t)
    /\ IF call[t].attempt < MaxAttempts
       THEN call' = [call EXCEPT
               ![t] = [Resting EXCEPT !.step = "check", !.kind = call[t].kind,
                                      !.attempt = call[t].attempt + 1]]
       ELSE Goto(t, "raised")
    /\ UNCHANGED <<required, daemonVars, model, loads, idle, armed, fired,
                   shut, callCount>>

\* predict returns scores, or raises: rerank is not retried.
Rerank(t) ==
    /\ call[t].step = "rerank"
    /\ \/ Goto(t, "done") /\ UNCHANGED faults
       \/ faults < MaxFaults /\ faults' = faults + 1 /\ Goto(t, "raised")
    /\ UNCHANGED <<required, daemonVars, modelVars, callCount>>

-----------------------------------------------------------------------------
(* The timer and the shutdown.                                             *)

\* MODEL_IDLE_TIMEOUT passes without a touch.
TimePasses ==
    /\ ~idle /\ model # 0 /\ idle' = TRUE
    /\ UNCHANGED <<required, daemonVars, call, model, loads, length,
                   inference, armed, fired, shut, faults, callCount>>

TimerFires ==
    /\ armed /\ idle
    /\ armed' = FALSE /\ fired' = fired + 1
    /\ UNCHANGED <<required, daemonVars, call, model, loads, length,
                   inference, idle, shut, faults, callCount>>

\* Defect: the models are unloaded without another look at the time.
UnloadAtOnce ==
    /\ fired > 0 /\ fired' = fired - 1
    /\ model' = 0
    /\ UNCHANGED <<required, daemonVars, call, loads, length, inference,
                   idle, armed, shut, faults, callCount>>

\* _cleanup_models, under _lock.
CleanupModels ==
    /\ fired > 0 /\ fired' = fired - 1
    /\ model' = IF idle THEN 0 ELSE model
    /\ UNCHANGED <<required, daemonVars, call, loads, length, inference,
                   idle, armed, shut, faults, callCount>>

\* cleanup(), called by the shutdown.
Cleanup ==
    /\ ~shut /\ shut' = TRUE
    /\ armed' = FALSE /\ model' = 0
    /\ UNCHANGED <<required, daemonVars, call, loads, length, inference,
                   idle, fired, faults, callCount>>

ThreadStep(t) ==
    \/ ReuseCheck(t) \/ DueCheck(t) \/ Probe(t) \/ UseDaemon(t)
    \/ DaemonFailed(t) \/ MayUseLocal(t) \/ GetModel(t)
    \/ BeginEncode(t) \/ EndEncode(t) \/ Rerank(t)

ServiceNext ==
    \/ DaemonFlips \/ TimePasses \/ TimerFires \/ CleanupModels \/ Cleanup
    \/ \E t \in Threads : BeginCall(t) \/ ThreadStep(t) \/ EncodeRaises(t)

ServiceFairness ==
    /\ WF_serviceState(TimePasses) /\ WF_serviceState(TimerFires)
    /\ WF_serviceState(CleanupModels)
    /\ \A t \in Threads : WF_serviceState(ThreadStep(t))

ServiceSpec == ServiceInit /\ [][ServiceNext]_serviceState /\ ServiceFairness

-----------------------------------------------------------------------------

InCall(t) == call[t].step \notin {"idle", "done", "raised"}

\* A text is encoded at the length of its own call although queries and
\* documents share one model, and the model keeps no length that a call
\* left behind, also when the encoding raised.
EncodesAtItsLength ==
    /\ \A t \in Threads : call[t].step = "encode" =>
          length[call[t].ref] = call[t].kind
    /\ \A g \in DOMAIN length : length[g] = "default" \/
          \E t \in Threads : call[t].step = "encode" /\ call[t].ref = g

\* With a required daemon no local model is ever loaded, whatever the daemon
\* does between a check and a request.
RequiredStaysRemote == required => loads = 0

\* What a call computes with: its own sequence length, and never a local
\* model where the daemon is required.
ModelsSound == EncodesAtItsLength /\ RequiredStaysRemote

\* A timer that fired before a call touched the models does not unload them
\* from under that call: models go only after inactivity or at shutdown.
FreshModelsStay ==
    [][model # 0 /\ model' = 0 => idle \/ shut' # shut]_serviceState

\* Models that nobody uses any more are unloaded.
IdleModelsUnloaded == <>[](model = 0)

\* Once no more calls come, every call has ended, with an answer or an
\* error: no thread is left waiting for a lock.
ModelCallsEnd == <>[](\A t \in Threads : ~InCall(t))

\* Models are unloaded when they are idle and only then, and no call hangs.
ModelsReleased == FreshModelsStay /\ IdleModelsUnloaded /\ ModelCallsEnd

=============================================================================
