---------------------------- MODULE ReindexQueue ----------------------------
(***************************************************************************)
(* server/reindex_queue.py: the bounded, coalescing queue behind every     *)
(* mutating tool of the MCP server.  Tool threads change a note and then   *)
(* call _enqueue_key; one worker thread takes keys off a FIFO, runs the    *)
(* indexer outside the lock and, under the lock, compares the version it   *)
(* observed before the run with the version after it.                      *)
(*                                                                         *)
(* A key is a vault path or the reconciliation key "\0sync".  What the     *)
(* indexer reads for a key is abstracted to disk[k], a revision number     *)
(* that a tool thread increases when it changes what k stands for.         *)
(***************************************************************************)
EXTENDS Integers, Sequences, FiniteSets

CONSTANTS
    Keys,         \* the paths and the reconciliation key
    NoKey,        \* a local variable that was not assigned yet
    Clients,      \* threads that run mutating tools
    Workers,      \* identities of threads _ensure_worker_locked may create
    NoWorker,     \* _worker is None
    MaxPending,   \* max_pending, already raised to at least 1
    MaxEdits      \* bound: changes made to each key

ASSUME MaxPendingAssumption == MaxPending \in Nat \ {0}
ASSUME MaxEditsAssumption == MaxEdits \in [Keys -> Nat]
ASSUME NoKeyAssumption == NoKey \notin Keys
ASSUME WorkersAssumption == Workers # {} /\ NoWorker \notin Workers

VARIABLES
    disk,         \* disk[k]: revision of what the indexer would read for k
    versions,     \* _versions, where 0 stands for an absent key
    queue,        \* _queue
    accepting,    \* _accepting
    stopSet,      \* the event _stop
    worker,       \* _worker
    wpc,          \* wpc[w]: where thread w is in _worker_loop
    wkey,         \* wkey[w]: its local variable key
    observed,     \* observed[w]: its local variable observed_version
    readRev,      \* readRev[w]: the revision its indexer call has read
    indexed,      \* indexed[k]: the revision the index was last updated to
    cpc,          \* cpc[c]: where tool thread c is
    ckey,         \* ckey[c]: the key it has changed
    spc,          \* where the thread that calls stop is
    required,     \* history: newest revision covered by an accepted enqueue
    attempted     \* history: newest revision an indexer call has read

clientVars == <<disk, cpc, ckey>>
lockVars   == <<versions, queue, worker>>
flagVars   == <<accepting, stopSet, spc>>
loopVars   == <<wkey, observed, readRev>>
vars == <<clientVars, lockVars, flagVars, loopVars, wpc, indexed, required,
          attempted>>

Revisions == Nat

\* Positions of a worker thread that owns the key it took from the queue.
Owning == {"observe", "read", "commit", "finish"}
Alive(w) == wpc[w] \notin {"unborn", "exited"}
Pending == {k \in Keys : versions[k] # 0}

\* self._worker and self._worker.is_alive()
WorkerAlive == worker # NoWorker /\ Alive(worker)

Init ==
    /\ disk = [k \in Keys |-> 0]
    /\ versions = [k \in Keys |-> 0]
    /\ queue = <<>>
    /\ accepting = TRUE
    /\ stopSet = FALSE
    /\ worker = NoWorker
    /\ wpc = [w \in Workers |-> "unborn"]
    /\ wkey = [w \in Workers |-> NoKey]
    /\ observed = [w \in Workers |-> 0]
    /\ readRev = [w \in Workers |-> 0]
    /\ indexed = [k \in Keys |-> 0]
    /\ cpc = [c \in Clients |-> "idle"]
    /\ ckey = [c \in Clients |-> NoKey]
    /\ spc = "running"
    /\ required = [k \in Keys |-> 0]
    /\ attempted = [k \in Keys |-> 0]

(***************************************************************************)
(* Tool threads.                                                           *)
(***************************************************************************)

\* The mutation of a tool: durable before _safe_reindex is called.
Mutate(c, k) ==
    /\ cpc[c] = "idle"
    /\ disk[k] < MaxEdits[k]
    /\ disk' = [disk EXCEPT ![k] = @ + 1]
    /\ cpc' = [cpc EXCEPT ![c] = "mutated"]
    /\ ckey' = [ckey EXCEPT ![c] = k]
    /\ UNCHANGED <<lockVars, flagVars, loopVars, wpc, indexed, required,
                   attempted>>

\* Defect: a thread is created for every new key.
EnsureWorkerAlwaysStarts ==
    \E w \in Workers :
        /\ wpc[w] = "unborn"
        /\ worker' = w
        /\ wpc' = [wpc EXCEPT ![w] = "check"]

\* A live worker is kept; otherwise a thread is created and started.
EnsureWorker ==
    IF WorkerAlive
    THEN UNCHANGED <<worker, wpc>>
    ELSE \E w \in Workers :
            /\ wpc[w] = "unborn"
            /\ worker' = w
            /\ wpc' = [wpc EXCEPT ![w] = "check"]

\* The four outcomes of _enqueue_key, each one critical section of _lock.
RejectStopped(k) ==
    /\ ~accepting
    /\ UNCHANGED <<lockVars, wpc, required>>

\* Defect: a coalesced key is put in the FIFO once more.
CoalesceAndPut(k) ==
    /\ accepting
    /\ k \in Pending
    /\ versions' = [versions EXCEPT ![k] = @ + 1]
    /\ queue' = Append(queue, k)
    /\ required' = [required EXCEPT ![k] = disk[k]]
    /\ UNCHANGED <<worker, wpc>>

Coalesce(k) ==
    /\ accepting
    /\ k \in Pending
    /\ versions' = [versions EXCEPT ![k] = @ + 1]
    /\ required' = [required EXCEPT ![k] = disk[k]]
    /\ UNCHANGED <<queue, worker, wpc>>

RejectFull(k) ==
    /\ accepting
    /\ k \notin Pending
    /\ Cardinality(Pending) >= MaxPending
    /\ UNCHANGED <<lockVars, wpc, required>>

\* Defect: the bound admits one key too many.
QueueOneTooMany(k) ==
    /\ accepting
    /\ k \notin Pending
    /\ Cardinality(Pending) =< MaxPending
    /\ versions' = [versions EXCEPT ![k] = 1]
    /\ queue' = Append(queue, k)
    /\ EnsureWorker
    /\ required' = [required EXCEPT ![k] = disk[k]]

Queue(k) ==
    /\ accepting
    /\ k \notin Pending
    /\ Cardinality(Pending) < MaxPending
    /\ versions' = [versions EXCEPT ![k] = 1]
    /\ queue' = Append(queue, k)
    /\ EnsureWorker
    /\ required' = [required EXCEPT ![k] = disk[k]]

EnqueueKey(k) == RejectStopped(k) \/ Coalesce(k) \/ RejectFull(k) \/ Queue(k)

Enqueue(c) ==
    /\ cpc[c] = "mutated"
    /\ EnqueueKey(ckey[c])
    /\ cpc' = [cpc EXCEPT ![c] = "idle"]
    /\ ckey' = [ckey EXCEPT ![c] = NoKey]
    /\ UNCHANGED <<disk, flagVars, loopVars, indexed, attempted>>

(***************************************************************************)
(* The worker thread.                                                      *)
(***************************************************************************)

Goto(w, from, to) == wpc[w] = from /\ wpc' = [wpc EXCEPT ![w] = to]

\* Defect: the worker leaves as soon as the event is set.
LoopUntilStop == ~stopSet

\* Defect: the worker ignores the event.
LoopForever == TRUE

\* The loop condition.  Once _stop is set nobody else adds to the queue, so
\* reading the event and the queue is one step.
LoopOn == ~stopSet \/ queue # <<>>

WorkerContinue(w) ==
    /\ LoopOn
    /\ Goto(w, "check", "get")
    /\ UNCHANGED <<clientVars, lockVars, flagVars, loopVars, indexed, required,
                   attempted>>

WorkerExit(w) ==
    /\ ~LoopOn
    /\ Goto(w, "check", "exited")
    /\ UNCHANGED <<clientVars, lockVars, flagVars, loopVars, indexed, required,
                   attempted>>

\* get(timeout=0.1) returns the oldest key ...
WorkerGet(w) ==
    /\ queue # <<>>
    /\ Goto(w, "get", "observe")
    /\ wkey' = [wkey EXCEPT ![w] = Head(queue)]
    /\ queue' = Tail(queue)
    /\ UNCHANGED <<clientVars, versions, worker, flagVars, observed, readRev,
                   indexed, required, attempted>>

\* ... or raises queue.Empty.
WorkerGetTimeout(w) ==
    /\ queue = <<>>
    /\ Goto(w, "get", "check")
    /\ UNCHANGED <<clientVars, lockVars, flagVars, loopVars, indexed, required,
                   attempted>>

\* observed_version is read under the lock; a key without one is dropped.
WorkerObserve(w) ==
    /\ Goto(w, "observe", IF wkey[w] \in Pending THEN "read" ELSE "check")
    /\ observed' = [observed EXCEPT ![w] = versions[wkey[w]]]
    /\ UNCHANGED <<clientVars, lockVars, flagVars, wkey, readRev, indexed,
                   required, attempted>>

\* reindex_note or sync_check reads the vault at some point of the call ...
WorkerRead(w) ==
    /\ Goto(w, "read", "commit")
    /\ readRev' = [readRev EXCEPT ![w] = disk[wkey[w]]]
    /\ attempted' = [attempted EXCEPT ![wkey[w]] = disk[wkey[w]]]
    /\ UNCHANGED <<clientVars, lockVars, flagVars, wkey, observed, indexed,
                   required>>

\* ... and later updates the index, ...
WorkerCommit(w) ==
    /\ Goto(w, "commit", "finish")
    /\ indexed' = [indexed EXCEPT ![wkey[w]] = readRev[w]]
    /\ UNCHANGED <<clientVars, lockVars, flagVars, loopVars, required,
                   attempted>>

\* ... or returns a failure status or raises, which is logged and dropped.
WorkerFail(w) ==
    /\ Goto(w, "commit", "finish")
    /\ UNCHANGED <<clientVars, lockVars, flagVars, loopVars, indexed, required,
                   attempted>>

\* Defect: the key is dropped whatever was coalesced during the run.
FinishAlwaysPops(w) ==
    /\ Goto(w, "finish", "check")
    /\ versions' = [versions EXCEPT ![wkey[w]] = 0]
    /\ UNCHANGED <<clientVars, queue, worker, flagVars, loopVars, indexed,
                   required, attempted>>

\* Defect: a key that changed during the run is not put back.
FinishForgetsRequeue(w) ==
    /\ Goto(w, "finish", "check")
    /\ versions' = [versions EXCEPT ![wkey[w]] =
                        IF @ = observed[w] THEN 0 ELSE @]
    /\ UNCHANGED <<clientVars, queue, worker, flagVars, loopVars, indexed,
                   required, attempted>>

\* Defect: what is left of the version is computed the wrong way round.
FinishSubtracts(w) ==
    /\ Goto(w, "finish", "check")
    /\ versions' = [versions EXCEPT ![wkey[w]] = observed[w] - @]
    /\ UNCHANGED <<clientVars, queue, worker, flagVars, loopVars, indexed,
                   required, attempted>>

\* The finally block: done when nothing was coalesced during the run.
WorkerFinish(w) ==
    /\ Goto(w, "finish", "check")
    /\ LET k == wkey[w]
       IN  \/ /\ versions[k] = observed[w]
              /\ versions' = [versions EXCEPT ![k] = 0]
              /\ UNCHANGED queue
           \/ /\ versions[k] # observed[w]
              /\ queue' = IF k \in Pending THEN Append(queue, k) ELSE queue
              /\ UNCHANGED versions
    /\ UNCHANGED <<clientVars, worker, flagVars, loopVars, indexed, required,
                   attempted>>

WorkerStep(w) ==
    \/ WorkerContinue(w) \/ WorkerExit(w)
    \/ WorkerGet(w) \/ WorkerGetTimeout(w)
    \/ WorkerObserve(w) \/ WorkerRead(w)
    \/ WorkerCommit(w) \/ WorkerFail(w)
    \/ WorkerFinish(w)

(***************************************************************************)
(* stop, run by the shutdown manager.                                      *)
(***************************************************************************)

\* The critical section: no more work is accepted.
StopAccepting ==
    /\ spc = "running"
    /\ accepting' = FALSE
    /\ spc' = "refusing"
    /\ UNCHANGED <<clientVars, lockVars, stopSet, loopVars, wpc, indexed,
                   required, attempted>>

StopSignal ==
    /\ spc = "refusing"
    /\ stopSet' = TRUE
    /\ spc' = "joining"
    /\ UNCHANGED <<clientVars, lockVars, accepting, loopVars, wpc, indexed,
                   required, attempted>>

\* join returns because the worker is gone (or never existed) ...
StopJoined ==
    /\ spc = "joining"
    /\ ~WorkerAlive
    /\ spc' = "drained"
    /\ UNCHANGED <<clientVars, lockVars, accepting, stopSet, loopVars, wpc,
                   indexed, required, attempted>>

\* ... or because join_timeout has passed.
StopTimeout ==
    /\ spc = "joining"
    /\ WorkerAlive
    /\ spc' = "timed_out"
    /\ UNCHANGED <<clientVars, lockVars, accepting, stopSet, loopVars, wpc,
                   indexed, required, attempted>>

Next ==
    \/ \E c \in Clients : Enqueue(c) \/ \E k \in Keys : Mutate(c, k)
    \/ \E w \in Workers : WorkerStep(w)
    \/ StopAccepting \/ StopSignal \/ StopJoined \/ StopTimeout

Spec == Init /\ [][Next]_vars

\* A started thread keeps running: the indexer call returns or raises.
FairSpec == Spec /\ \A w \in Workers : WF_vars(WorkerStep(w))

-----------------------------------------------------------------------------
(***************************************************************************)
(* Properties.                                                             *)
(***************************************************************************)

\* Every variable of the queue, its worker and its callers has its type.
TypeOK ==
    /\ disk \in [Keys -> Revisions]
    /\ versions \in [Keys -> Nat]
    /\ queue \in Seq(Keys)
    /\ accepting \in BOOLEAN
    /\ stopSet \in BOOLEAN
    /\ worker \in Workers \cup {NoWorker}
    /\ wpc \in [Workers -> Owning \cup {"unborn", "check", "get", "exited"}]
    /\ wkey \in [Workers -> Keys \cup {NoKey}]
    /\ observed \in [Workers -> Nat]
    /\ readRev \in [Workers -> Revisions]
    /\ indexed \in [Keys -> Revisions]
    /\ cpc \in [Clients -> {"idle", "mutated"}]
    /\ ckey \in [Clients -> Keys \cup {NoKey}]
    /\ spc \in {"running", "refusing", "joining", "drained", "timed_out"}
    /\ required \in [Keys -> Revisions]
    /\ attempted \in [Keys -> Revisions]

\* Keys taken from the queue by a worker that has not finished them.
InFlight == {wkey[w] : w \in {v \in Workers : wpc[v] \in Owning}}

\* The pending keys are exactly the queued ones and the one being run; a key
\* is queued at most once and never while it is being run, so an entry of the
\* FIFO whose version is missing (line 78) does not occur.
KeysAccountedFor ==
    /\ \A i, j \in 1..Len(queue) : queue[i] = queue[j] => i = j
    /\ \A i \in 1..Len(queue) : queue[i] \in Pending \ InFlight
    /\ \A k \in Pending \ InFlight : \E i \in 1..Len(queue) : queue[i] = k
    /\ InFlight \subseteq Pending

\* The bound of the queue: never more than max_pending keys, and the FIFO,
\* which has no bound of its own, never holds more entries than that.
PendingBounded ==
    /\ Cardinality(Pending) =< MaxPending
    /\ Len(queue) =< MaxPending

\* "Run one reindex at a time": only the thread _worker refers to is alive.
OneWorker == \A w \in Workers : Alive(w) => w = worker

\* The bookkeeping of the queue: every key of _versions is in the FIFO or
\* with the worker, exactly once, the limit holds however keys are put back,
\* and one thread runs the indexer.
QueueSound == TypeOK /\ KeysAccountedFor /\ PendingBounded /\ OneWorker

\* A change whose enqueue was accepted is not forgotten: once its key is no
\* longer pending, an indexer call has read that change or a later one.
NoLostChange ==
    \A k \in Keys \ Pending : required[k] =< attempted[k]

\* stop "drains the queue": when join returned because the worker is gone,
\* every accepted change was read by an indexer call.
DrainedOnStop ==
    spc = "drained" => Pending = {} /\ \A k \in Keys : required[k] =< attempted[k]

\* An accepted change is eventually read by an indexer call.
AcceptedIsAttempted ==
    \A k \in Keys : \A r \in 1..MaxEdits[k] :
        (required[k] = r) ~> (attempted[k] >= r)

\* After stop the worker thread always ends.
WorkerEnds == stopSet ~> \A w \in Workers : ~Alive(w)

\* Progress of _run_worker: every accepted change is attempted, and stop()
\* ends the thread.
WorkerProgress == AcceptedIsAttempted /\ WorkerEnds

(***************************************************************************)
(* The queue implements CoalescingQueue.                                   *)
(***************************************************************************)

Running(k) == \E w \in Workers : wkey[w] = k /\ wpc[w] \in Owning \ {"observe"}

\* A running key asks for another run when its version has moved on.
PhaseOf(k) ==
    IF k \notin Pending THEN "clean"
    ELSE IF ~Running(k) THEN "waiting"
    ELSE IF \E w \in Workers : /\ wkey[w] = k
                               /\ wpc[w] \in Owning \ {"observe"}
                               /\ observed[w] = versions[k]
    THEN "running" ELSE "rerun"

Abstract == INSTANCE CoalescingQueue WITH
    phase <- [k \in Keys |-> PhaseOf(k)],
    open <- accepting

\* Version counters and FIFO are an implementation of the four-state promise.
ImplementsCoalescing == Abstract!Spec

=============================================================================
