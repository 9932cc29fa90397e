--------------------------- MODULE EnrichmentJobs ---------------------------
(***************************************************************************)
(* The background enrichment jobs of server/frontmatter_jobs.py: clients   *)
(* enqueue jobs, one worker runs them in order, the records of finished    *)
(* jobs are pruned, and stop() drains the queue.                           *)
(*                                                                         *)
(* A job is named by the rank of its created_at, which is taken before the *)
(* lock, so that jobs may enter the table out of that order.  The content  *)
(* of a result is whether it succeeded.                                    *)
(***************************************************************************)
EXTENDS Naturals, Sequences, FiniteSets

CONSTANTS
    Clients,      \* threads that call enqueue
    MaxJobs,      \* bound: calls of enqueue
    MaxPaths,     \* bound: paths of a job
    MaxPending,   \* _max_pending
    MaxHistory,   \* _max_history
    MaxResults    \* _max_results

ASSUME JobsAssumption ==
    /\ MaxJobs \in Nat /\ MaxPaths \in Nat
    /\ {MaxPending, MaxHistory, MaxResults} \subseteq Nat \ {0}

VARIABLES
    created,      \* jobs given an id and a creation time so far
    asking,       \* the job each client is about to enter, 0 for none
    pending,      \* _queue
    jobs,         \* _jobs
    accepting,    \* _accepting
    stopSet,      \* _stop
    worker,       \* the worker thread: "none", "alive" or "ended"
    running,      \* the job the worker has taken, 0 for none
    stopping      \* the call of stop()

jobsVars == <<created, asking, pending, jobs, accepting, stopSet, worker,
              running, stopping>>

NoJob == 0

Terminal == {"completed", "completed_with_errors", "failed"}

TerminalJobs(table) == {j \in DOMAIN table : table[j].status \in Terminal}

\* The k members of S that were created first.
Oldest(S, k) == {j \in S : Cardinality({i \in S : i < j}) < k}

\* Defect: queued and running jobs are counted and pruned as well.
PruneAnyJob(table) ==
    LET surplus == Cardinality(DOMAIN table) - MaxHistory
        kept == IF surplus <= 0 THEN DOMAIN table
                ELSE DOMAIN table \ Oldest(DOMAIN table, surplus)
    IN  [j \in kept |-> table[j]]

\* _prune_terminal_jobs_locked.
PruneTerminalJobs(table) ==
    LET terminal == TerminalJobs(table)
        surplus == Cardinality(terminal) - MaxHistory
        kept == IF surplus <= 0 THEN DOMAIN table
                ELSE DOMAIN table \ Oldest(terminal, surplus)
    IN  [j \in kept |-> table[j]]

NewJob(total) ==
    [status |-> "queued", total |-> total, processed |-> 0, succeeded |-> 0,
     failed |-> 0, returned |-> 0, truncated |-> 0]

JobsInit ==
    /\ created = 0 /\ asking = [c \in Clients |-> NoJob]
    /\ pending = <<>> /\ jobs = [j \in {} |-> NewJob(0)]
    /\ accepting = TRUE /\ stopSet = FALSE
    /\ worker = "none" /\ running = NoJob /\ stopping = "no"

-----------------------------------------------------------------------------

\* enqueue up to its lock, with paths that pass its checks.
Ask(c) ==
    /\ asking[c] = NoJob /\ created < MaxJobs
    /\ created' = created + 1
    /\ asking' = [asking EXCEPT ![c] = created']
    /\ UNCHANGED <<pending, jobs, accepting, stopSet, worker, running,
                   stopping>>

\* Defect: the worker is taken to be there already.
AssumeWorker == UNCHANGED worker

\* _ensure_worker_locked.
EnsureWorker == worker' = "alive"

\* enqueue under its lock: rejected when stopped or full.
Enqueue(c) ==
    /\ asking[c] # NoJob
    /\ asking' = [asking EXCEPT ![c] = NoJob]
    /\ IF ~accepting \/ Len(pending) >= MaxPending
       THEN UNCHANGED <<pending, jobs, worker>>
       ELSE \E total \in 1..MaxPaths :
              /\ pending' = Append(pending, asking[c])
              /\ jobs' = PruneTerminalJobs(
                   [j \in DOMAIN jobs \cup {asking[c]} |->
                      IF j = asking[c] THEN NewJob(total) ELSE jobs[j]])
              /\ EnsureWorker
    /\ UNCHANGED <<created, accepting, stopSet, running, stopping>>

\* The worker takes a job, and _run_job marks it as running.
Take ==
    /\ worker = "alive" /\ running = NoJob /\ pending # <<>>
    /\ running' = Head(pending)
    /\ pending' = Tail(pending)
    /\ jobs' = IF running' \in DOMAIN jobs
               THEN [jobs EXCEPT ![running'].status = "running"]
               ELSE jobs
    /\ UNCHANGED <<created, asking, accepting, stopSet, worker, stopping>>

\* Defect: a result past the cap is dropped and not counted as truncated.
UncountedPath(succeeded) ==
    /\ running # NoJob /\ running \in DOMAIN jobs
    /\ jobs[running].processed < jobs[running].total
    /\ jobs' = [jobs EXCEPT
          ![running].processed = @ + 1,
          ![running].succeeded = IF succeeded THEN @ + 1 ELSE @,
          ![running].failed = IF succeeded THEN @ ELSE @ + 1,
          ![running].returned = IF @ < MaxResults THEN @ + 1 ELSE @]
    /\ UNCHANGED <<created, asking, pending, accepting, stopSet, worker,
                   running, stopping>>

\* One path of the job: enriched or not, recorded, and reindexed.
Process(succeeded) ==
    /\ running # NoJob /\ running \in DOMAIN jobs
    /\ jobs[running].processed < jobs[running].total
    /\ jobs' = [jobs EXCEPT
          ![running].processed = @ + 1,
          ![running].succeeded = IF succeeded THEN @ + 1 ELSE @,
          ![running].failed = IF succeeded THEN @ ELSE @ + 1,
          ![running].returned = IF @ < MaxResults THEN @ + 1 ELSE @,
          ![running].truncated = IF jobs[running].returned < MaxResults
                                 THEN @ ELSE @ + 1]
    /\ UNCHANGED <<created, asking, pending, accepting, stopSet, worker,
                   running, stopping>>

\* Defect: a job that ends leaves the history unpruned.
FinishUnpruned ==
    /\ running # NoJob
    /\ running \in DOMAIN jobs =>
         jobs[running].processed = jobs[running].total
    /\ running' = NoJob
    /\ jobs' = IF running \notin DOMAIN jobs THEN jobs
               ELSE [jobs EXCEPT ![running].status =
                       IF jobs[running].failed > 0
                       THEN "completed_with_errors" ELSE "completed"]
    /\ UNCHANGED <<created, asking, pending, accepting, stopSet, worker,
                   stopping>>

\* The end of _run_job.  A job that lost its record ends without one.
Finish ==
    /\ running # NoJob
    /\ running \in DOMAIN jobs =>
         jobs[running].processed = jobs[running].total
    /\ running' = NoJob
    /\ jobs' = IF running \notin DOMAIN jobs THEN jobs
               ELSE PruneTerminalJobs(
                      [jobs EXCEPT ![running].status =
                         IF jobs[running].failed > 0
                         THEN "completed_with_errors" ELSE "completed"])
    /\ UNCHANGED <<created, asking, pending, accepting, stopSet, worker,
                   stopping>>

\* An unexpected exception in _run_job: _mark_job_failed.
RunRaises ==
    /\ running # NoJob /\ running \in DOMAIN jobs
    /\ jobs[running].processed < jobs[running].total
    /\ running' = NoJob
    /\ jobs' = PruneTerminalJobs([jobs EXCEPT ![running].status = "failed"])
    /\ UNCHANGED <<created, asking, pending, accepting, stopSet, worker,
                   stopping>>

\* The worker's loop ends once it is told to stop and the queue is empty.
WorkerEndsLoop ==
    /\ worker = "alive" /\ running = NoJob /\ stopSet /\ pending = <<>>
    /\ worker' = "ended"
    /\ UNCHANGED <<created, asking, pending, jobs, accepting, stopSet,
                   running, stopping>>

\* Defect: stop() leaves the table open to new jobs.
StopWhileAccepting ==
    /\ stopping = "no"
    /\ stopping' = "refusing"
    /\ UNCHANGED <<created, asking, pending, jobs, accepting, stopSet,
                   worker, running>>

\* stop(): new jobs are refused,
StopAccepting ==
    /\ stopping = "no"
    /\ stopping' = "refusing" /\ accepting' = FALSE
    /\ UNCHANGED <<created, asking, pending, jobs, stopSet, worker, running>>

\* the worker is told,
StopSignal ==
    /\ stopping = "refusing"
    /\ stopSet' = TRUE
    /\ stopping' = IF worker = "none" THEN "drained" ELSE "joining"
    /\ UNCHANGED <<created, asking, pending, jobs, accepting, worker,
                   running>>

\* and waited for, at most _join_timeout.
StopReturns ==
    /\ stopping = "joining"
    /\ stopping' = IF worker = "ended" THEN "drained" ELSE "timeout"
    /\ UNCHANGED <<created, asking, pending, jobs, accepting, stopSet,
                   worker, running>>

Worker ==
    Take \/ Finish \/ WorkerEndsLoop \/ \E ok \in BOOLEAN : Process(ok)

JobsNext ==
    \/ \E c \in Clients : Ask(c) \/ Enqueue(c)
    \/ Worker \/ RunRaises
    \/ StopAccepting \/ StopSignal \/ StopReturns

JobsFairness == WF_jobsVars(Worker)

JobsSpec == JobsInit /\ [][JobsNext]_jobsVars /\ JobsFairness

-----------------------------------------------------------------------------

Active == {pending[i] : i \in DOMAIN pending} \cup ({running} \ {NoJob})

\* The jobs that are queued or running are exactly those with a record that
\* is not terminal: pruning the history never takes the record of a job
\* that is still to report, and no job is left unfinished without a worker.
ActiveJobsRecorded ==
    /\ Active \subseteq DOMAIN jobs
    /\ Active = DOMAIN jobs \ TerminalJobs(jobs)

\* At most _max_history finished jobs are kept.
HistoryBounded == Cardinality(TerminalJobs(jobs)) <= MaxHistory

\* A record adds up: every processed path succeeded or failed and its
\* result is returned or counted as truncated, and a job is reported as
\* completed only when all its paths were processed, without errors only
\* when none failed.
ReportsAddUp ==
    \A j \in DOMAIN jobs :
        /\ jobs[j].processed = jobs[j].succeeded + jobs[j].failed
        /\ jobs[j].processed = jobs[j].returned + jobs[j].truncated
        /\ jobs[j].returned <= MaxResults
        /\ jobs[j].status \in {"completed", "completed_with_errors"} =>
             jobs[j].processed = jobs[j].total
        /\ jobs[j].status = "completed" => jobs[j].failed = 0

\* When stop() reports that the queue was drained, no job is left active.
StopDrained == stopping = "drained" => Active = {}

\* The table of jobs: it has every job under way and a bounded history, its
\* records add up, and a drained manager has no job left.
JobsSound ==
    ActiveJobsRecorded /\ HistoryBounded /\ ReportsAddUp /\ StopDrained

\* Once no more jobs come, every accepted job has ended, also when stop()
\* was called meanwhile.
AcceptedEnds == <>[](Active = {})
=============================================================================
