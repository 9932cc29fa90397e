----------------------------- MODULE MCServices -----------------------------
(***************************************************************************)
(* The services of the server and the daemon, each explored on its own:    *)
(* the part a behaviour is about is chosen in its first state and the      *)
(* others stay where they begin.                                           *)
(***************************************************************************)
EXTENDS ServerLifecycle, EnrichmentJobs, NotesCatalog, ModelService,
        EmbeddingDaemon

CONSTANTS n1, n2, c1, c2, l1, l2, t1, t2, d1, d2

VARIABLE part

vars == <<part, lifecycleVars, jobsVars, catalogVars, serviceState,
          daemonState>>

\* One file is deleted and created again; the other only had another row in
\* an earlier run.
OneChangesTwice == [n \in Notes |-> IF n = n1 THEN 3 ELSE 1]

\* A part that is not the chosen one is at rest: the process is dead after
\* its signals, the catalog's reconciliation was stopped.  No step that its
\* fairness asks for is enabled there.
LifecycleRest ==
    /\ main = "dead" /\ signals = MaxSignals
    /\ initThreads = {} /\ data = "none" /\ catalogReady = FALSE
    /\ warm = "none" /\ inProgress = FALSE
    /\ calls = [c \in Callers |-> "none"] /\ todo = [c \in Callers |-> <<>>]
    /\ joining = {} /\ waited = {} /\ attempted = <<>> /\ raised = {}
    /\ watching = FALSE /\ reconciling = FALSE /\ reconcileStop = FALSE
    /\ loaded = FALSE

CatalogRest ==
    /\ initialized = TRUE /\ stops = MaxStops /\ reconcileEvent = TRUE
    /\ changes = [n \in Notes |-> 1]
    /\ file = [n \in Notes |-> Gone] /\ row = [n \in Notes |-> Gone]
    /\ event = [n \in Notes |-> "none"] /\ upserting = NoUpsert
    /\ loop = [l \in Loops |-> "dead"]
    /\ scan = [l \in Loops |-> Unscanned]
    /\ delta = [l \in Loops |-> Unscanned]
    /\ thread = NoLoop /\ failures = 0

ServiceRest == ServiceInit /\ ~required /\ ~up

Init ==
    /\ JobsInit /\ DaemonInit
    /\ \/ /\ part = "lifecycle" /\ LifecycleInit
          /\ CatalogRest /\ ServiceRest
       \/ /\ part = "catalog" /\ CatalogInit
          /\ LifecycleRest /\ ServiceRest
       \/ /\ part = "models" /\ ServiceInit
          /\ LifecycleRest /\ CatalogRest
       \/ /\ part \in {"jobs", "daemon"}
          /\ LifecycleRest /\ CatalogRest /\ ServiceRest

Next ==
    \/ /\ part = "lifecycle" /\ LifecycleNext
       /\ UNCHANGED <<part, jobsVars, catalogVars, serviceState, daemonState>>
    \/ /\ part = "jobs" /\ JobsNext
       /\ UNCHANGED <<part, lifecycleVars, catalogVars, serviceState,
                      daemonState>>
    \/ /\ part = "catalog" /\ CatalogNext
       /\ UNCHANGED <<part, lifecycleVars, jobsVars, serviceState,
                      daemonState>>
    \/ /\ part = "models" /\ ServiceNext
       /\ UNCHANGED <<part, lifecycleVars, jobsVars, catalogVars,
                      daemonState>>
    \/ /\ part = "daemon" /\ DaemonNext
       /\ UNCHANGED <<part, lifecycleVars, jobsVars, catalogVars,
                      serviceState>>

Spec ==
    /\ Init /\ [][Next]_vars
    /\ LifecycleFairness /\ JobsFairness /\ CatalogFairness
    /\ ServiceFairness /\ DaemonFairness

=============================================================================
