---------------------------- MODULE NotesCatalog ----------------------------
(***************************************************************************)
(* The SQLite catalog of crud/catalog.py: the scan of initialize(), the    *)
(* rows the watcher upserts and deletes one by one, and the reconciliation *)
(* thread, which scans the vault, reads the rows and writes the difference *)
(* while both keep changing.  Each statement runs in a transaction of its  *)
(* own; the scan reads one file after the other.                           *)
(*                                                                         *)
(* A file is the number of its last change, which stands for its           *)
(* (mtime_ns, size) pair, and a row is the pair it was written with.       *)
(***************************************************************************)
EXTENDS Naturals, FiniteSets

CONSTANTS
    Notes,
    Loops,        \* the reconciliation threads that may be started
    MaxChanges,   \* bound: changes made to each file, by note
    MaxFailures,  \* bound: reconciliations that raise
    MaxStops,     \* bound: calls of stop_reconciliation
    Unread        \* a file or row that a reconciliation leaves alone

\* No reconciliation thread.
NoLoop == "none"

ASSUME CatalogAssumption ==
    /\ MaxChanges \in [Notes -> Nat] /\ {MaxFailures, MaxStops} \subseteq Nat
    /\ NoLoop \notin Loops

VARIABLES
    file,         \* the files of the vault
    changes,      \* changes made to each file so far
    row,          \* the rows of notes_catalog
    initialized,  \* _initialized
    event,        \* the event the watcher holds for each note
    upserting,    \* the note the watcher's upsert has read, and its stat
    loop,         \* where each reconciliation thread stands
    scan,         \* the files that thread has read so far
    delta,        \* the rows it is going to write
    thread,       \* _reconcile_thread
    reconcileEvent, \* _stop_event
    stops, failures

vaultVars == <<file, changes, initialized, event, upserting>>
loopVars == <<initialized, loop, scan, delta, thread, reconcileEvent, stops,
              failures>>

catalogVars == <<vaultVars, row, loop, scan,
                 delta, thread, reconcileEvent, stops, failures>>

Gone == 0

\* No note in the hands of the watcher.
NoUpsert == [note |-> "none", stat |-> Gone]

Unscanned == [n \in Notes |-> Unread]

LoopAlive(l) == loop[l] # "dead"

\* A row of an earlier run of the server may name any file.
CatalogInit ==
    /\ changes = [n \in Notes |-> 1]
    /\ file \in [Notes -> {Gone, 1}]
    /\ row \in [Notes -> {Gone, 1}]
    /\ initialized = FALSE
    /\ event = [n \in Notes |-> "none"] /\ upserting = NoUpsert
    /\ loop = [l \in Loops |-> "dead"]
    /\ scan = [l \in Loops |-> Unscanned]
    /\ delta = [l \in Loops |-> [n \in Notes |-> Unread]]
    /\ thread = NoLoop /\ reconcileEvent = FALSE /\ stops = 0 /\ failures = 0

-----------------------------------------------------------------------------
(* initialize() runs before the watcher and the reconciliation start.  A   *)
(* file that changes between its scan and the batch insert is a file that  *)
(* changes unnoticed after it, so the two are one step.                    *)

\* initialize(): INSERT OR REPLACE for the files found, nothing deleted.
InitializeCatalog ==
    /\ ~initialized /\ initialized' = TRUE
    /\ row' = [n \in Notes |-> IF file[n] # Gone THEN file[n] ELSE row[n]]
    /\ UNCHANGED <<file, changes, event, upserting, loop, scan, delta,
                   thread, reconcileEvent, stops, failures>>

-----------------------------------------------------------------------------
(* The vault and the watcher.  An event may be missed, and replaces the    *)
(* one before it.                                                          *)

Noticed(n, kind) ==
    {event} \cup (IF initialized THEN {[event EXCEPT ![n] = kind]} ELSE {})

ChangeFile(n) ==
    /\ changes[n] < MaxChanges[n]
    /\ changes' = [changes EXCEPT ![n] = @ + 1]
    /\ \/ /\ file' = [file EXCEPT ![n] = changes'[n]]
          /\ event' \in Noticed(n, "changed")
       \/ /\ file[n] # Gone
          /\ file' = [file EXCEPT ![n] = Gone]
          /\ event' \in Noticed(n, "deleted")
    /\ UNCHANGED <<row, upserting, loopVars>>

\* The watcher's worker calls delete(), or upsert() for a file that is gone.
WatcherDelete(n) ==
    /\ upserting = NoUpsert
    /\ event[n] = "deleted" \/ (event[n] = "changed" /\ file[n] = Gone)
    /\ event' = [event EXCEPT ![n] = "none"]
    /\ row' = [row EXCEPT ![n] = Gone]
    /\ UNCHANGED <<file, changes, upserting, loopVars>>

\* upsert() reads the file,
WatcherStat(n) ==
    /\ upserting = NoUpsert /\ event[n] = "changed" /\ file[n] # Gone
    /\ event' = [event EXCEPT ![n] = "none"]
    /\ upserting' = [note |-> n, stat |-> file[n]]
    /\ UNCHANGED <<file, changes, row, loopVars>>

\* and writes the row; an exception is logged by the watcher and forgotten.
WatcherUpsert ==
    /\ upserting # NoUpsert
    /\ upserting' = NoUpsert
    /\ row' \in {row, [row EXCEPT ![upserting.note] = upserting.stat]}
    /\ UNCHANGED <<file, changes, event, loopVars>>

-----------------------------------------------------------------------------
(* The reconciliation threads and their lifecycle.                         *)

\* Defect: a thread is started beside one that is still alive.
StartBeside(l) ==
    /\ initialized /\ ~LoopAlive(l)
    /\ reconcileEvent' = FALSE /\ thread' = l
    /\ loop' = [loop EXCEPT ![l] = "waiting"]
    /\ UNCHANGED <<vaultVars, row, scan, delta, stops,
                   failures>>

\* start_reconciliation, rejected while the previous thread is alive.
StartReconciliation(l) ==
    /\ initialized /\ ~LoopAlive(l) /\ (thread # NoLoop => ~LoopAlive(thread))
    /\ reconcileEvent' = FALSE /\ thread' = l
    /\ loop' = [loop EXCEPT ![l] = "waiting"]
    /\ UNCHANGED <<vaultVars, row, scan, delta, stops,
                   failures>>

\* stop_reconciliation forgets the thread only when it has ended in time.
StopReconciliation ==
    /\ stops < MaxStops /\ stops' = stops + 1
    /\ reconcileEvent' = TRUE
    /\ UNCHANGED <<vaultVars, row, loop, scan, delta,
                   thread, failures>>

\* The wait ends: the loop ends too, or a reconciliation begins.
Wake(l) ==
    /\ loop[l] = "waiting"
    /\ loop' = [loop EXCEPT ![l] = IF reconcileEvent THEN "dead"
                                   ELSE "scanning"]
    /\ scan' = [scan EXCEPT ![l] = Unscanned]
    /\ UNCHANGED <<vaultVars, row, delta, thread,
                   reconcileEvent, stops, failures>>

\* _scan_vault comes to one file.
ScanFile(l, n) ==
    /\ loop[l] = "scanning" /\ scan[l][n] = Unread
    /\ scan' = [scan EXCEPT ![l][n] = file[n]]
    /\ UNCHANGED <<vaultVars, row, loop, delta, thread,
                   reconcileEvent, stops, failures>>

\* Defect: only files without a row are written, modified ones are not.
DifferenceOfNew(files, rows) ==
    [n \in Notes |-> IF (files[n] = Gone) # (rows[n] = Gone) THEN files[n]
                     ELSE Unread]

\* What _reconcile writes: the files that are new or differ from their row,
\* and the rows whose file was not seen.
Difference(files, rows) ==
    [n \in Notes |-> IF files[n] # rows[n] THEN files[n] ELSE Unread]

\* The scan is complete: the rows are read and the difference computed.
ReadRows(l) ==
    /\ loop[l] = "scanning" /\ \A n \in Notes : scan[l][n] # Unread
    /\ loop' = [loop EXCEPT ![l] = "writing"]
    /\ delta' = [delta EXCEPT ![l] = Difference(scan[l], row)]
    /\ UNCHANGED <<vaultVars, row, scan, thread,
                   reconcileEvent, stops, failures>>

\* _upsert_batch writes the new and modified rows in one transaction.
UpsertBatch(l) ==
    /\ loop[l] = "writing"
    /\ loop' = [loop EXCEPT ![l] = "deleting"]
    /\ row' = [n \in Notes |-> IF delta[l][n] \in {Unread, Gone} THEN row[n]
                               ELSE delta[l][n]]
    /\ UNCHANGED <<vaultVars, scan, delta, thread,
                   reconcileEvent, stops, failures>>

\* The rows without a file are deleted one by one.
DeleteRow(l, n) ==
    /\ loop[l] = "deleting" /\ delta[l][n] = Gone
    /\ row' = [row EXCEPT ![n] = Gone]
    /\ delta' = [delta EXCEPT ![l][n] = Unread]
    /\ UNCHANGED <<vaultVars, loop, scan, thread,
                   reconcileEvent, stops, failures>>

ReconcileEnds(l) ==
    /\ loop[l] = "deleting" /\ \A n \in Notes : delta[l][n] # Gone
    /\ loop' = [loop EXCEPT ![l] = IF reconcileEvent THEN "dead"
                                   ELSE "waiting"]
    /\ scan' = [scan EXCEPT ![l] = Unscanned]
    /\ delta' = [delta EXCEPT ![l] = Unscanned]
    /\ UNCHANGED <<vaultVars, row, thread,
                   reconcileEvent, stops, failures>>

\* The database stays locked past its timeout: the loop logs and goes on.
ReconcileRaises(l) ==
    /\ loop[l] \in {"scanning", "writing", "deleting"}
    /\ failures < MaxFailures /\ failures' = failures + 1
    /\ loop' = [loop EXCEPT ![l] = IF reconcileEvent THEN "dead"
                                   ELSE "waiting"]
    /\ scan' = [scan EXCEPT ![l] = Unscanned]
    /\ delta' = [delta EXCEPT ![l] = Unscanned]
    /\ UNCHANGED <<vaultVars, row, thread,
                   reconcileEvent, stops>>

Reconcile(l) ==
    \/ Wake(l) \/ ReadRows(l) \/ UpsertBatch(l) \/ ReconcileEnds(l)
    \/ \E n \in Notes : ScanFile(l, n) \/ DeleteRow(l, n)

CatalogNext ==
    \/ InitializeCatalog
    \/ \E n \in Notes : ChangeFile(n) \/ WatcherDelete(n) \/ WatcherStat(n)
    \/ WatcherUpsert \/ StopReconciliation
    \/ \E l \in Loops : StartReconciliation(l) \/ Reconcile(l)
                        \/ ReconcileRaises(l)

CatalogFairness ==
    /\ WF_catalogVars(InitializeCatalog)
    /\ WF_catalogVars(stops = 0 /\ \E l \in Loops : StartReconciliation(l))
    /\ WF_catalogVars(WatcherUpsert)
    /\ \A n \in Notes : WF_catalogVars(WatcherDelete(n) \/ WatcherStat(n))
    /\ \A l \in Loops : WF_catalogVars(Reconcile(l))

CatalogSpec == CatalogInit /\ [][CatalogNext]_catalogVars /\ CatalogFairness

-----------------------------------------------------------------------------

\* At most one reconciliation thread is alive, also when a stop timed out
\* and reconciliation is started again.
OneReconciler == Cardinality({l \in Loops : LoopAlive(l)}) <= 1

\* Once the vault is left alone, the rows come to equal the files and stay
\* so, whatever stale row a reconciliation or an upsert wrote meanwhile and
\* whatever events were missed, unless reconciliation is stopped.
CatalogConverges == <>[](row = file) \/ <>(stops > 0)

\* Reconciliation: one loop at a time, and the catalog comes to agree with
\* the vault.
CatalogReconciles == []OneReconciler /\ CatalogConverges
=============================================================================
