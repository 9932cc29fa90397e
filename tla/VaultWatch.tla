----------------------------- MODULE VaultWatch -----------------------------
(***************************************************************************)
(* watching/watcher.py and watching/event_handler.py: the observer thread  *)
(* that turns file system events into pending paths, the tokens by which   *)
(* the server's own writes are ignored, the worker that debounces and      *)
(* reindexes, and start and stop; with the circuit breaker of              *)
(* core/indexer.py, which every reindex_note passes first.                 *)
(*                                                                         *)
(* A note is the number of times it has changed, whether it is there, and  *)
(* whether it has an id.  The index holds for a note the revision its rows *)
(* were made from, 0 when there are none.  What three tables do inside one *)
(* commit is the subject of NoteIndex.  That an event was a deletion only  *)
(* matters to the catalog and is left out.                                 *)
(***************************************************************************)
EXTENDS Naturals, Sequences, FiniteSets

CONSTANTS
    Notes,        \* paths of indexable notes
    Generations,  \* worker threads, one for each call of start
    Tool,         \* the thread of a tool, of the reindex queue or of a job
    None,         \* no note, no thread, no event
    MaxAttempts,  \* _CIRCUIT_BREAKER_MAX_ATTEMPTS
    MaxTokens,    \* MAX_IGNORE_TOKENS
    MaxWrites     \* bound: changes of each note

ASSUME BoundsAssumption ==
    /\ MaxAttempts \in Nat \ {0}
    /\ MaxTokens \in Nat \ {0}
    /\ MaxWrites \in [Notes -> Nat]

Threads == Generations \cup {Tool}

\* Why nobody will index the present revision of a note.
Causes == {"refused", "failed", "unwatched"}

ASSUME NamesAssumption ==
    /\ Tool \notin Generations
    /\ None \notin Notes \cup Generations \cup {Tool} \cup Causes
    /\ None \notin [note : Notes, rev : Nat]

VARIABLES
    note,         \* note[n]: its revision, whether it is there and has an id
    events,       \* what the observer has not handled yet
    handling,     \* the event in _enqueue and the revision it saw, or None
    tokens,       \* _ignore_next_change: notes and revisions
    pending,      \* paths in _pending
    ripe,         \* those whose debounce window has elapsed
    observer,     \* "off", "on", or "stopping" after observer.stop()
    worker,       \* the thread _worker refers to
    stopSet,      \* _stop_event
    joining,      \* a stop holds _lifecycle_lock and waits for the threads
    pc,           \* pc[t]: where thread t is
    arg,          \* arg[t]: the note it is reindexing
    read,         \* read[t]: the revision it has read
    ready,        \* ready[t]: notes left of the batch it has collected
    lock,         \* _write_lock
    attempts,     \* _reindex_attempts
    index,        \* index[n]: revision of the rows of n
    excused       \* history: excused[n], why the present revision of n was
                  \* last given up, or None

watchVars == <<events, handling, pending, ripe>>
lifeVars == <<observer, worker, stopSet, joining>>
threadVars == <<pc, arg, read, ready>>
vars == <<note, watchVars, tokens, lifeVars, threadVars, lock, attempts, index,
          excused>>

\* What the index and a revision token say of the note as it is.
Row(n) == IF note[n].there THEN note[n].rev ELSE 0

\* The notes with an event that is not handled yet.
Queued == {events[i] : i \in DOMAIN events}

Alive(t) == pc[t] \notin {"unused", "dead"}
WorkerAlive == worker # None /\ Alive(worker)

GiveUp(cause, lost) ==
    excused' = [n \in Notes |-> IF n \in lost THEN cause ELSE excused[n]]

\* A vault some notes of which are indexed, without an id.
Init ==
    /\ note \in [Notes -> [rev : {1}, there : BOOLEAN, id : {FALSE}]]
    /\ events = <<>>
    /\ handling = None
    /\ tokens = {}
    /\ pending = {}
    /\ ripe = {}
    /\ observer = "off"
    /\ worker = None
    /\ stopSet = FALSE
    /\ joining = FALSE
    /\ pc = [t \in Threads |-> IF t = Tool THEN "idle" ELSE "unused"]
    /\ arg = [t \in Threads |-> None]
    /\ read = [t \in Threads |-> 0]
    /\ ready = [t \in Threads |-> {}]
    /\ lock = None
    /\ attempts = [n \in Notes |-> 0]
    /\ index = [n \in Notes |-> Row(n)]
    /\ excused = [n \in Notes |-> None]

(***************************************************************************)
(* The vault.  A change is an event for the observer when one is running.  *)
(***************************************************************************)

Write(n, there, id) ==
    /\ note[n].rev =< MaxWrites[n]
    /\ note' = [note EXCEPT ![n] =
                    [rev |-> @.rev + 1, there |-> there, id |-> id]]
    /\ events' = IF observer = "on" THEN Append(events, n) ELSE events
    /\ excused' = [excused EXCEPT ![n] =
                       IF observer = "on" THEN None ELSE "unwatched"]
    /\ UNCHANGED <<handling, pending, ripe>>

\* An editor, or a synchronisation of the vault.
Save(n) ==
    /\ Write(n, TRUE, note[n].there /\ note[n].id)
    /\ UNCHANGED <<tokens, lifeVars, threadVars, lock, attempts, index>>

Remove(n) ==
    /\ note[n].there
    /\ Write(n, FALSE, FALSE)
    /\ UNCHANGED <<tokens, lifeVars, threadVars, lock, attempts, index>>

(***************************************************************************)
(* VaultEventHandler._enqueue                                              *)
(***************************************************************************)

\* The revision is read before the token is looked up.
HandlerStat ==
    /\ observer = "on"
    /\ handling = None
    /\ events # <<>>
    /\ handling' = [note |-> Head(events), rev |-> Row(Head(events))]
    /\ events' = Tail(events)
    /\ UNCHANGED <<note, tokens, pending, ripe, lifeVars, threadVars, lock,
                   attempts, index, excused>>

WithoutToken(n) == {k \in tokens : k.note # n}

\* Defect: a token is good for any revision.
MatchesAny(event) ==
    event.rev # 0 /\ \E k \in tokens : k.note = event.note

\* _check_and_clear_ignore: the token has to be for the revision that was seen.
Matches(event) == event.rev # 0 /\ event \in tokens

HandlerDecide ==
    /\ handling # None
    /\ tokens' = WithoutToken(handling.note)
    /\ IF Matches(handling)
       THEN UNCHANGED <<pending, ripe>>
       ELSE /\ pending' = pending \cup {handling.note}
            /\ ripe' = ripe \ {handling.note}
    /\ handling' = None
    /\ UNCHANGED <<note, events, lifeVars, threadVars, lock, attempts, index,
                   excused>>

(***************************************************************************)
(* Time: a token expires, a debounce window or a breaker window elapses.   *)
(***************************************************************************)

TokenExpires(n) ==
    /\ WithoutToken(n) # tokens
    /\ tokens' = WithoutToken(n)
    /\ UNCHANGED <<note, watchVars, lifeVars, threadVars, lock, attempts,
                   index, excused>>

Ripen(n) ==
    /\ n \in pending \ ripe
    /\ ripe' = ripe \cup {n}
    /\ UNCHANGED <<note, events, handling, pending, tokens, lifeVars,
                   threadVars, lock, attempts, index, excused>>

WindowExpires(n) ==
    /\ attempts[n] # 0
    /\ attempts' = [attempts EXCEPT ![n] = 0]
    /\ UNCHANGED <<note, watchVars, tokens, lifeVars, threadVars, lock, index,
                   excused>>

(***************************************************************************)
(* reindex_note, as the watcher's worker and the other callers run it.     *)
(***************************************************************************)

Goto(t, from, to) == pc[t] = from /\ pc' = [pc EXCEPT ![t] = to]

\* Back in the batch of the worker, or at the end of the tool's work.
Return(t) ==
    /\ pc' = [pc EXCEPT ![t] = IF t = Tool THEN "idle" ELSE "next"]
    /\ arg' = [arg EXCEPT ![t] = None]
    /\ read' = [read EXCEPT ![t] = 0]
    /\ UNCHANGED ready

\* Defect: attempts are counted and never refused.
BreakerCountsOnly(t) ==
    /\ pc[t] = "breaker"
    /\ attempts' = [attempts EXCEPT ![arg[t]] = @ + 1]
    /\ pc' = [pc EXCEPT ![t] = "lock"]
    /\ UNCHANGED <<note, watchVars, tokens, lifeVars, arg, read, ready, lock,
                   index, excused>>

\* _check_circuit_breaker
Breaker(t) ==
    LET n == arg[t]
    IN  /\ pc[t] = "breaker"
        /\ attempts[n] < MaxAttempts
        /\ attempts' = [attempts EXCEPT ![n] = @ + 1]
        /\ pc' = [pc EXCEPT ![t] = "lock"]
        /\ UNCHANGED <<note, watchVars, tokens, lifeVars, arg, read, ready,
                       lock, index, excused>>

\* The caller is told circuit_breaker_open and does not come back.
BreakerOpen(t) ==
    /\ pc[t] = "breaker"
    /\ attempts[arg[t]] >= MaxAttempts
    /\ GiveUp("refused", {arg[t]})
    /\ Return(t)
    /\ UNCHANGED <<note, watchVars, tokens, lifeVars, lock, attempts, index>>

\* Under the lock: a note that is not there is committed as no rows.
WriteLock(t) ==
    /\ lock = None
    /\ lock' = t
    /\ Goto(t, "lock", IF note[arg[t]].there THEN "id" ELSE "commit")
    /\ UNCHANGED <<note, watchVars, tokens, lifeVars, arg, read, ready,
                   attempts, index, excused>>

\* ensure_note_id writes the id and then marks the write as its own ...
AddId(t) ==
    LET n == arg[t]
    IN  /\ Goto(t, "id", "token")
        /\ note[n].there /\ ~note[n].id
        /\ Write(n, TRUE, TRUE)
        /\ UNCHANGED <<tokens, lifeVars, arg, read, ready, lock, attempts,
                       index>>

\* ... or has nothing to do, or fails, which is logged.
NoIdAdded(t) ==
    /\ Goto(t, "id", "parse")
    /\ UNCHANGED <<note, watchVars, tokens, lifeVars, arg, read, ready, lock,
                   attempts, index, excused>>

\* ignore_next_change reads the revision the file has by now ...
TokenStat(t) ==
    LET missing == ~note[arg[t]].there
    IN  /\ \/ Goto(t, "token", IF missing THEN "parse" ELSE "put")
           \/ Goto(t, "mark", IF missing THEN "breaker" ELSE "marked")
        /\ read' = [read EXCEPT ![t] = Row(arg[t])]
        /\ UNCHANGED <<note, watchVars, tokens, lifeVars, arg, ready, lock,
                       attempts, index, excused>>

\* ... and records it, in the place of another one if there are too many.  The
\* code takes the oldest; here it may be any.
TokenPut(t) ==
    LET others == WithoutToken(arg[t])
        new    == [note |-> arg[t], rev |-> read[t]]
    IN  /\ \/ Goto(t, "put", "parse")
           \/ Goto(t, "marked", "breaker")
        /\ IF Cardinality(others) < MaxTokens
           THEN tokens' = others \cup {new}
           ELSE \E old \in others : tokens' = (others \ {old}) \cup {new}
        /\ read' = [read EXCEPT ![t] = 0]
        /\ UNCHANGED <<note, watchVars, lifeVars, arg, ready, lock, attempts,
                       index, excused>>

\* A file that has vanished is parsed to no rows.
Parse(t) ==
    /\ Goto(t, "parse", "commit")
    /\ read' = [read EXCEPT ![t] = Row(arg[t])]
    /\ UNCHANGED <<note, watchVars, tokens, lifeVars, arg, ready, lock,
                   attempts, index, excused>>

Commit(t) ==
    /\ pc[t] = "commit"
    /\ index' = [index EXCEPT ![arg[t]] = read[t]]
    /\ lock' = None
    /\ Return(t)
    /\ UNCHANGED <<note, watchVars, tokens, lifeVars, attempts, excused>>

\* A parser, the embedding model or a table fails; the old rows stay.
ReindexFails(t) ==
    /\ pc[t] \in {"parse", "commit"}
    /\ GiveUp("failed", {arg[t]})
    /\ lock' = None
    /\ Return(t)
    /\ UNCHANGED <<note, watchVars, tokens, lifeVars, attempts, index>>

Reindex(t) ==
    \/ Breaker(t) \/ BreakerOpen(t) \/ WriteLock(t) \/ AddId(t)
    \/ NoIdAdded(t) \/ TokenStat(t) \/ TokenPut(t) \/ Parse(t) \/ Commit(t)

(***************************************************************************)
(* The server's own changes of notes, each followed by a reindex_note.     *)
(***************************************************************************)

\* A tool writes or deletes a note; the path goes through the reindex queue.
ToolChanges(n, there) ==
    /\ pc[Tool] = "idle"
    /\ there \/ note[n].there
    /\ Write(n, there, there /\ note[n].id)
    /\ pc' = [pc EXCEPT ![Tool] = "breaker"]
    /\ arg' = [arg EXCEPT ![Tool] = n]
    /\ UNCHANGED <<tokens, lifeVars, read, ready, lock, attempts, index>>

\* An enrichment job writes a note and marks the write as its own.
Enrich(n) ==
    /\ pc[Tool] = "idle"
    /\ note[n].there
    /\ Write(n, TRUE, note[n].id)
    /\ pc' = [pc EXCEPT ![Tool] = "mark"]
    /\ arg' = [arg EXCEPT ![Tool] = n]
    /\ UNCHANGED <<tokens, lifeVars, read, ready, lock, attempts, index>>

(***************************************************************************)
(* VaultWatcher._worker_loop                                               *)
(***************************************************************************)

\* Defect: the loop does not look at _stop_event.
LoopOnForever == TRUE

LoopOn == ~stopSet

\* The batch is done: the condition of the loop is evaluated.
WorkerLoop(g) ==
    /\ ready[g] = {}
    /\ Goto(g, "next", IF LoopOn THEN "wait" ELSE "dead")
    /\ UNCHANGED <<note, watchVars, tokens, lifeVars, arg, read, ready, lock,
                   attempts, index, excused>>

\* Defect: paths are taken out that are not processed.
CollectAllProcessRipe(g) ==
    /\ Goto(g, "wait", "next")
    /\ ready' = [ready EXCEPT ![g] = ripe]
    /\ pending' = {}
    /\ ripe' = {}
    /\ UNCHANGED <<note, events, handling, tokens, lifeVars, arg, read, lock,
                   attempts, index, excused>>

WorkerCollect(g) ==
    /\ Goto(g, "wait", "next")
    /\ ready' = [ready EXCEPT ![g] = ripe]
    /\ pending' = pending \ ripe
    /\ ripe' = {}
    /\ UNCHANGED <<note, events, handling, tokens, lifeVars, arg, read, lock,
                   attempts, index, excused>>

WorkerNext(g, n) ==
    /\ n \in ready[g]
    /\ Goto(g, "next", "breaker")
    /\ arg' = [arg EXCEPT ![g] = n]
    /\ ready' = [ready EXCEPT ![g] = @ \ {n}]
    /\ UNCHANGED <<note, watchVars, tokens, lifeVars, read, lock, attempts,
                   index, excused>>

Worker(g) ==
    \/ WorkerLoop(g) \/ WorkerCollect(g)
    \/ \E n \in Notes : WorkerNext(g, n)

(***************************************************************************)
(* start and stop                                                          *)
(***************************************************************************)

\* Neither thread of an earlier generation is alive; what was pending is gone.
StartAllowed ==
    /\ ~joining
    /\ observer = "off"
    /\ ~WorkerAlive
    /\ pending' = {}
    /\ ripe' = {}
    /\ GiveUp("unwatched", pending)

Start(g) ==
    /\ StartAllowed
    /\ pc[g] = "unused"
    /\ observer' = "on"
    /\ worker' = g
    /\ stopSet' = FALSE
    /\ pc' = [pc EXCEPT ![g] = "next"]
    /\ UNCHANGED <<note, events, handling, tokens, joining, arg, read, ready,
                   lock, attempts, index>>

\* The vault is not there, or not a directory.
StartNoVault ==
    /\ StartAllowed
    /\ worker' = None
    /\ UNCHANGED <<note, events, handling, tokens, observer, stopSet, joining,
                   threadVars, lock, attempts, index>>

\* The observer cannot be started, or the worker cannot: then the observer is
\* stopped again, and remembered if it does not end in time.
StartFails(g) ==
    /\ StartAllowed
    /\ pc[g] = "unused"
    /\ observer' \in {"off", "stopping"}
    /\ worker' = None
    /\ stopSet' = TRUE
    /\ pc' = [pc EXCEPT ![g] = "dead"]
    /\ UNCHANGED <<note, events, handling, tokens, joining, arg, read, ready,
                   lock, attempts, index>>

StopSignal ==
    /\ ~joining
    /\ joining' = TRUE
    /\ observer' = IF observer = "on" THEN "stopping" ELSE observer
    /\ stopSet' = TRUE
    /\ UNCHANGED <<note, watchVars, tokens, worker, threadVars, lock, attempts,
                   index, excused>>

\* The thread of the observer ends after the event it is handling.
ObserverExits ==
    /\ observer = "stopping"
    /\ handling = None
    /\ observer' = "off"
    /\ events' = <<>>
    /\ GiveUp("unwatched", Queued)
    /\ UNCHANGED <<note, handling, pending, ripe, tokens, worker, stopSet,
                   joining, threadVars, lock, attempts, index>>

\* Defect: the worker is forgotten although it did not end in time.
RetainedNone == None

\* The reference that remains after the joins.
Retained == IF WorkerAlive THEN worker ELSE None

\* Both joins are over, in time or not.
StopReturns ==
    /\ joining
    /\ joining' = FALSE
    /\ worker' = Retained
    /\ IF observer = "off" /\ ~WorkerAlive
       THEN /\ pending' = {}
            /\ ripe' = {}
            /\ GiveUp("unwatched", pending)
       ELSE UNCHANGED <<pending, ripe, excused>>
    /\ UNCHANGED <<note, events, handling, tokens, observer, stopSet,
                   threadVars, lock, attempts, index>>

Next ==
    \/ \E n \in Notes : \/ Save(n) \/ Remove(n) \/ Enrich(n)
                        \/ \E there \in BOOLEAN : ToolChanges(n, there)
                        \/ TokenExpires(n) \/ Ripen(n) \/ WindowExpires(n)
    \/ HandlerStat \/ HandlerDecide
    \/ \E t \in Threads : Reindex(t) \/ ReindexFails(t)
    \/ \E g \in Generations : Worker(g) \/ Start(g) \/ StartFails(g)
    \/ StartNoVault \/ StopSignal \/ ObserverExits \/ StopReturns

Spec == Init /\ [][Next]_vars

\* Threads that run keep running, the debounce window elapses, and a stop waits
\* for a bounded time only; failures and windows of the breaker are not
\* counted on.
FairSpec ==
    /\ Spec
    /\ WF_vars(HandlerStat) /\ WF_vars(HandlerDecide)
    /\ \A n \in Notes : WF_vars(Ripen(n))
    /\ \A t \in Threads : WF_vars(Reindex(t))
    /\ \A g \in Generations : WF_vars(Worker(g))
    /\ WF_vars(ObserverExits) /\ WF_vars(StopReturns)

-----------------------------------------------------------------------------
(***************************************************************************)
(* Properties.                                                             *)
(***************************************************************************)

Positions ==
    {"unused", "dead", "idle", "wait", "next", "breaker", "lock",
     "id", "token", "put", "parse", "commit", "mark", "marked"}

Revisions == Nat

\* Types of the watcher, its threads and the index.
TypeOK ==
    /\ note \in [Notes -> [rev : Revisions, there : BOOLEAN, id : BOOLEAN]]
    /\ events \in Seq(Notes)
    /\ handling \in [note : Notes, rev : Revisions] \cup {None}
    /\ tokens \subseteq [note : Notes, rev : Revisions]
    /\ IsFiniteSet(tokens) /\ Cardinality(tokens) =< MaxTokens
    /\ pending \subseteq Notes /\ ripe \subseteq pending
    /\ observer \in {"off", "on", "stopping"}
    /\ worker \in Generations \cup {None}
    /\ stopSet \in BOOLEAN /\ joining \in BOOLEAN
    /\ pc \in [Threads -> Positions]
    /\ arg \in [Threads -> Notes \cup {None}]
    /\ read \in [Threads -> Revisions]
    /\ ready \in [Threads -> SUBSET Notes]
    /\ lock \in Threads \cup {None}
    /\ attempts \in [Notes -> 0..MaxAttempts]
    /\ index \in [Notes -> Revisions]
    /\ excused \in [Notes -> Causes \cup {None}]

\* Someone is still going to read the note, or has read it as it is.
Covered(n) ==
    \/ n \in Queued
    \/ handling # None /\ handling.note = n
    \/ n \in pending
    \/ \E t \in Threads :
          \/ n \in ready[t]
          \/ /\ arg[t] = n
             /\ pc[t] = "commit" => read[t] = Row(n)

\* No change is lost between the threads: the rows of every note are those of
\* its present revision, or someone is going to index it, or it was given up
\* by the breaker, by a failure, or for want of a watcher.  An event that is
\* ignored because of a token never was the last chance of a change.
ChangesCovered ==
    \A n \in Notes : index[n] = Row(n) \/ Covered(n) \/ excused[n] # None

\* At most one generation of the worker runs, also after a stop that timed out
\* and a start that failed halfway.
OneGeneration ==
    \A g \in Generations : Alive(g) => worker = g

\* Starts and stops, whether they fail or time out, leave one consistent
\* generation of the watcher.
WatchSound == TypeOK /\ OneGeneration

\* What the docstring of _safe_reindex says: the watcher makes up for an update
\* that did not succeed.  The breaker counts its attempts with the others.
WatcherRecovers ==
    \A n \in Notes : \/ index[n] = Row(n)
                     \/ Covered(n)
                     \/ excused[n] \in {"failed", "unwatched"}

\* Changes end up in the index while the watcher runs, or are given up.
ChangesIndexed ==
    <>[](\A n \in Notes : \/ index[n] = Row(n)
                          \/ excused[n] # None
                          \/ observer # "on"
                          \/ ~WorkerAlive)

\* A stopped worker ends, after the batch it has.
StopEnds == stopSet ~> \A g \in Generations : ~Alive(g)

=============================================================================
