----------------------------- MODULE NoteIndex -----------------------------
(***************************************************************************)
(* core/indexer.py: the three LanceDB tables of the index (chunks, links,  *)
(* aliases), the process-wide _write_lock, and the operations that change  *)
(* them: reindex_note with _apply_note_records, full_reindex with its      *)
(* staging tables, publication and rollback, and sync_check.               *)
(*                                                                         *)
(* A note is what its modification time says: disk[n] is the time of its   *)
(* last change in seconds, 0 when the file does not exist.  The rows of a  *)
(* note in a table are the time of the revision they were made from, 0     *)
(* when there are none.  reindex_note is entered past the circuit breaker, *)
(* which is not part of this module.                                       *)
(***************************************************************************)
EXTENDS Integers, Sequences, FiniteSets

CONSTANTS
    Notes,        \* indexable notes of the vault
    Blank,        \* the notes whose text yields no chunks (ParseStatus.EMPTY)
    NoNote,       \* no argument yet
    Threads,      \* watcher worker, queue worker and tool threads
    Free,         \* nobody holds _write_lock
    Calls,        \* Calls[t]: what t calls, of "note", "full" and "sync"
    MaxTime,      \* bound: last second in which a note is changed
    MaxFaults     \* bound: parse, embedding and LanceDB operations that fail
                  \* and kills of the process, together

ASSUME BlankAssumption == Blank \subseteq Notes
ASSUME FreeAssumption == Free \notin Threads
ASSUME BoundsAssumption == MaxTime \in Nat /\ MaxFaults \in Nat

Tables == {"chunks", "links", "aliases"}
Generations == {"canonical", "staging"}

\* Which table is changed first, second and third.
NoteOrder == <<"chunks", "links", "aliases">>      \* _apply_note_records
PublishOrder == <<"links", "aliases", "chunks">>   \* full_reindex

Times == 0..MaxTime
NoRows == [n \in Notes |-> 0]
RowsOf(n, time) == IF n \in Blank THEN 0 ELSE time

VARIABLES
    disk,         \* disk[n]: time of the last change of note n, 0 if missing
    clock,        \* clock[n]: time of the last change of n, missing or not
    rows,         \* rows[g][t][n]: rows of n in table t of generation g
    handles,      \* the generation _table, _links_table and _aliases_table use
    lock,         \* _write_lock
    pc,           \* pc[t]: where thread t is
    note,         \* note[t]: the argument of its reindex_note
    todo,         \* todo[t]: notes its full_reindex or sync_check has to do
    seen,         \* seen[t]: the modification times its sync_check has scanned
    opened,       \* opened[t]: the generation its sync_check reads
    newRows,      \* the rows reindex_note is about to write
    step,         \* how many table operations of the commit are done
    saved,        \* saved[t]: contents of table t when its snapshot was taken
    depth,        \* how many snapshots are to be restored on a failure
    failed,       \* parse_errors > 0
    faults,       \* how many operations have failed, kills included
    before,       \* history: canonical rows when the lock was taken
    calm,         \* history: threads in a sync_check that nothing disturbed
    damaged       \* history: a rollback or a reopening failed, or a kill hit
                  \* the middle of a commit

diskVars == <<disk, clock>>
holderVars == <<newRows, step, saved, depth, failed>>
syncVars == <<seen, opened>>
vars == <<diskVars, rows, handles, lock, pc, note, todo, syncVars, holderVars,
          faults, before, calm, damaged>>

\* _ensure_table and its two siblings open the canonical table when there is
\* no handle, and keep the handle they have otherwise.
EnsureTable == IF handles = "unset" THEN "canonical" ELSE handles

Goto(t, from, to) == pc[t] = from /\ pc' = [pc EXCEPT ![t] = to]

\* An operation of LanceDB, a parser or the embedding model fails.
Fault ==
    /\ faults < MaxFaults
    /\ faults' = faults + 1
    /\ calm' = {}

Init ==
    /\ disk = NoRows
    /\ clock = NoRows
    /\ rows = [g \in Generations |-> [t \in Tables |-> NoRows]]
    /\ handles = "unset"
    /\ lock = Free
    /\ pc = [t \in Threads |-> "idle"]
    /\ note = [t \in Threads |-> NoNote]
    /\ todo = [t \in Threads |-> {}]
    /\ seen = [t \in Threads |-> NoRows]
    /\ opened = [t \in Threads |-> "canonical"]
    /\ newRows = 0
    /\ step = 0
    /\ saved = [t \in Tables |-> NoRows]
    /\ depth = 0
    /\ failed = FALSE
    /\ faults = 0
    /\ before = [t \in Tables |-> NoRows]
    /\ calm = {}
    /\ damaged = FALSE

(***************************************************************************)
(* The vault: editors, tools and ensure_note_id create, change and delete  *)
(* notes at any moment.                                                    *)
(***************************************************************************)

Edit(n, time) ==
    /\ clock[n] < time
    /\ disk' = [disk EXCEPT ![n] = time]
    /\ calm' = {}
    /\ clock' = [clock EXCEPT ![n] = time]
    /\ UNCHANGED <<rows, handles, lock, pc, note, todo, syncVars, holderVars,
                   faults, before, damaged>>

Delete(n) ==
    /\ disk[n] # 0
    /\ disk' = [disk EXCEPT ![n] = 0]
    /\ calm' = {}
    /\ UNCHANGED <<clock, rows, handles, lock, pc, note, todo, syncVars,
                   holderVars, faults, before, damaged>>

(***************************************************************************)
(* with self._write_lock                                                   *)
(***************************************************************************)

Acquire(t, from, to) ==
    /\ lock = Free
    /\ Goto(t, from, to)
    /\ lock' = t
    /\ before' = rows["canonical"]

\* Defect: the snapshots of the last operation are kept.
ReleaseKeepsSnapshots(t) ==
    /\ lock' = Free
    /\ step' = 0
    /\ newRows' = 0
    /\ failed' = FALSE
    /\ before' = [u \in Tables |-> NoRows]
    /\ UNCHANGED <<depth, saved>>

\* Defect: a return that forgets the lock.
ReleaseKeepsLock(t) ==
    /\ step' = 0
    /\ depth' = 0
    /\ newRows' = 0
    /\ failed' = FALSE
    /\ saved' = [u \in Tables |-> NoRows]
    /\ before' = [u \in Tables |-> NoRows]
    /\ UNCHANGED lock

Release(t) ==
    /\ lock' = Free
    /\ step' = 0
    /\ depth' = 0
    /\ newRows' = 0
    /\ failed' = FALSE
    /\ saved' = [u \in Tables |-> NoRows]
    /\ before' = [u \in Tables |-> NoRows]

\* reindex_note returns to its caller, which is sync_check while that has the
\* note on its list.
NoteReturn(t) ==
    /\ Release(t)
    /\ pc' = [pc EXCEPT ![t] =
                  IF note[t] \in todo[t] THEN "sync_next" ELSE "idle"]
    /\ todo' = [todo EXCEPT ![t] = @ \ {note[t]}]
    /\ note' = [note EXCEPT ![t] = NoNote]

(***************************************************************************)
(* reindex_note                                                            *)
(***************************************************************************)

ReindexNote(t, n) ==
    /\ Goto(t, "idle", "note_lock")
    /\ note' = [note EXCEPT ![t] = n]
    /\ UNCHANGED <<diskVars, rows, handles, lock, todo, syncVars, holderVars,
                   faults, before, calm, damaged>>

NoteLock(t) ==
    /\ Acquire(t, "note_lock", "note_exists")
    /\ UNCHANGED <<diskVars, rows, handles, note, todo, syncVars, holderVars,
                   faults, calm, damaged>>

\* not note_path.exists(): the rows of the note are replaced by none.
NoteExists(t) ==
    /\ Goto(t, "note_exists", IF disk[note[t]] = 0 THEN "note_apply"
                                                   ELSE "note_parse")
    /\ UNCHANGED <<diskVars, rows, handles, lock, note, todo, syncVars,
                   holderVars, faults, before, calm, damaged>>

\* The file is read and parsed, embeddings included, before the first change
\* of a table.  A file that is gone by now is a parse error.
NoteParse(t) ==
    /\ Goto(t, "note_parse", IF disk[note[t]] = 0 THEN "note_parse_error"
                                                  ELSE "note_apply")
    /\ newRows' = RowsOf(note[t], disk[note[t]])
    /\ UNCHANGED <<diskVars, rows, handles, lock, note, todo, syncVars, step,
                   saved, depth, failed, faults, before, calm, damaged>>

NoteParseFails(t) ==
    /\ Goto(t, "note_parse", "note_parse_error")
    /\ Fault
    /\ UNCHANGED <<diskVars, rows, handles, lock, note, todo, syncVars,
                   holderVars, before, damaged>>

\* A parse error of a note that is missing is its deletion; a note that is
\* there keeps the rows it had.
NoteParseError(t) ==
    /\ pc[t] = "note_parse_error"
    /\ IF disk[note[t]] = 0
       THEN /\ pc' = [pc EXCEPT ![t] = "note_apply"]
            /\ newRows' = 0
            /\ UNCHANGED <<lock, note, todo, step, saved, depth, failed,
                           before>>
       ELSE NoteReturn(t)
    /\ UNCHANGED <<diskVars, rows, handles, syncVars, faults, calm, damaged>>

NoteEmbedFails(t) ==
    /\ pc[t] = "note_apply"
    /\ step = 0
    /\ newRows # 0
    /\ Fault
    /\ NoteReturn(t)
    /\ UNCHANGED <<diskVars, rows, handles, syncVars, damaged>>

\* Defect: the snapshot is taken after the delete.
NoteApplySavesLate(t) ==
    /\ pc[t] = "note_apply"
    /\ step < 6
    /\ LET g     == EnsureTable
           table == NoteOrder[(step \div 2) + 1]
           first == step % 2 = 0
       IN  /\ handles' = g
           /\ rows' = [rows EXCEPT ![g][table][note[t]] =
                           IF first THEN 0 ELSE newRows]
           /\ saved' = IF first THEN [saved EXCEPT ![table] = rows'[g][table]]
                                ELSE saved
           /\ depth' = IF first THEN depth + 1 ELSE depth
    /\ step' = step + 1
    /\ UNCHANGED <<diskVars, lock, pc, note, todo, syncVars, newRows, failed,
                   faults, before, calm, damaged>>

\* _apply_note_records: for each table a snapshot and a delete, then an add.
NoteApply(t) ==
    /\ pc[t] = "note_apply"
    /\ step < 6
    /\ LET g     == EnsureTable
           table == NoteOrder[(step \div 2) + 1]
           first == step % 2 = 0
       IN  /\ handles' = g
           /\ saved' = IF first THEN [saved EXCEPT ![table] = rows[g][table]]
                                ELSE saved
           /\ depth' = IF first THEN depth + 1 ELSE depth
           /\ rows' = [rows EXCEPT ![g][table][note[t]] =
                           IF first THEN 0 ELSE newRows]
    /\ step' = step + 1
    /\ UNCHANGED <<diskVars, lock, pc, note, todo, syncVars, newRows, failed,
                   faults, before, calm, damaged>>

\* One of those operations raises; the snapshot of its table may be taken.
NoteApplyFails(t) ==
    /\ Goto(t, "note_apply", "note_undo")
    /\ step < 6
    /\ Fault
    /\ UNCHANGED <<diskVars, rows, handles, lock, note, todo, syncVars,
                   holderVars, before, damaged>>

\* Restoring is whole-table: restore(previous_version).
Undo(t, at) ==
    /\ pc[t] = at
    /\ depth > 0
    /\ depth' = depth - 1
    /\ UNCHANGED <<diskVars, handles, lock, pc, note, todo, syncVars, newRows,
                   step, saved, failed, before>>

NoteUndo(t) ==
    /\ Undo(t, "note_undo")
    /\ rows' = [rows EXCEPT ![handles][NoteOrder[depth]] =
                    saved[NoteOrder[depth]]]
    /\ UNCHANGED <<faults, calm, damaged>>

\* A failed restore is logged and the loop goes on.
NoteUndoFails(t) ==
    /\ Undo(t, "note_undo")
    /\ Fault
    /\ damaged' = TRUE
    /\ UNCHANGED rows

NoteDone(t) ==
    /\ \/ pc[t] = "note_apply" /\ step = 6
       \/ pc[t] = "note_undo" /\ depth = 0
    /\ NoteReturn(t)
    /\ UNCHANGED <<diskVars, rows, handles, syncVars, faults, calm, damaged>>

NoteStep(t) ==
    \/ NoteLock(t) \/ NoteExists(t) \/ NoteParse(t) \/ NoteParseFails(t)
    \/ NoteParseError(t) \/ NoteEmbedFails(t) \/ NoteApply(t)
    \/ NoteApplyFails(t) \/ NoteUndo(t) \/ NoteUndoFails(t) \/ NoteDone(t)

(***************************************************************************)
(* full_reindex                                                            *)
(***************************************************************************)

\* The vault is scanned before the lock is requested.
FullScan(t) ==
    /\ Goto(t, "idle", "full_lock")
    /\ todo' = [todo EXCEPT ![t] = {n \in Notes : disk[n] # 0}]
    /\ UNCHANGED <<diskVars, rows, handles, lock, note, syncVars, holderVars,
                   faults, before, calm, damaged>>

FullLock(t) ==
    /\ Acquire(t, "full_lock", "full_reset")
    /\ UNCHANGED <<diskVars, rows, handles, note, todo, syncVars, holderVars,
                   faults, calm, damaged>>

\* Defect: staging tables of an interrupted rebuild are used again.
FullResetKeepsRows(t) ==
    /\ Goto(t, "full_reset", "full_parse")
    /\ handles' = "staging"
    /\ UNCHANGED <<diskVars, rows, lock, note, todo, syncVars, holderVars,
                   faults, before, calm, damaged>>

\* Empty staging tables; the handles refer to them from here on.
FullReset(t) ==
    /\ Goto(t, "full_reset", "full_parse")
    /\ rows' = [rows EXCEPT !["staging"] = [u \in Tables |-> NoRows]]
    /\ handles' = "staging"
    /\ UNCHANGED <<diskVars, lock, note, todo, syncVars, holderVars, faults,
                   before, calm, damaged>>

\* A result of the thread pool: the note is stored in the staging chunks, or
\* it could not be parsed, which a file deleted since the scan cannot.
FullParse(t, n) ==
    /\ pc[t] = "full_parse"
    /\ n \in todo[t]
    /\ todo' = [todo EXCEPT ![t] = @ \ {n}]
    /\ \/ /\ rows' = [rows EXCEPT !["staging"]["chunks"][n] =
                          RowsOf(n, disk[n])]
          /\ failed' = (failed \/ disk[n] = 0)
          /\ UNCHANGED <<faults, calm>>
       \/ /\ Fault
          /\ failed' = TRUE
          /\ UNCHANGED rows
    /\ UNCHANGED <<diskVars, handles, lock, pc, note, syncVars, newRows, step,
                   saved, depth, before, damaged>>

\* Links and aliases follow when every note was parsed.
FullGraph(t) ==
    /\ todo[t] = {}
    /\ ~failed
    /\ Goto(t, "full_parse", "full_publish")
    /\ rows' = [rows EXCEPT !["staging"] =
                    [u \in Tables |-> rows["staging"]["chunks"]]]
    /\ UNCHANGED <<diskVars, handles, lock, note, todo, syncVars, holderVars,
                   faults, before, calm, damaged>>

\* A shutdown while results are awaited, or a parse error after the last one.
FullGiveUp(t) ==
    /\ Goto(t, "full_parse", "full_giveup")
    /\ todo[t] # {} \/ failed
    /\ todo' = [todo EXCEPT ![t] = {}]
    /\ UNCHANGED <<diskVars, rows, handles, lock, note, syncVars, holderVars,
                   faults, before, calm, damaged>>

\* An operation on the staging tables raises, or the failure_stats of
\* FullGiveUp does, which is inside the same try.
FullStagingFails(t) ==
    /\ pc[t] \in {"full_reset", "full_parse", "full_giveup"}
    /\ Fault
    /\ pc' = [pc EXCEPT ![t] = "full_restore"]
    /\ todo' = [todo EXCEPT ![t] = {}]
    /\ UNCHANGED <<diskVars, rows, handles, lock, note, syncVars, holderVars,
                   before, damaged>>

\* Defect: the version to go back to is read after the overwrite.
FullPublishSavesLate(t) ==
    /\ pc[t] = "full_publish"
    /\ step < 3
    /\ LET table == PublishOrder[step + 1]
       IN  /\ saved' = [saved EXCEPT ![table] = rows["staging"][table]]
           /\ rows' = [rows EXCEPT !["canonical"][table] =
                           rows["staging"][table]]
    /\ step' = step + 1
    /\ depth' = depth + 1
    /\ UNCHANGED <<diskVars, handles, lock, pc, note, todo, syncVars, newRows,
                   failed, faults, before, calm, damaged>>

\* _replace_table_from_staging: one commit for each table.
FullPublish(t) ==
    /\ pc[t] = "full_publish"
    /\ step < 3
    /\ LET table == PublishOrder[step + 1]
       IN  /\ saved' = [saved EXCEPT ![table] = rows["canonical"][table]]
           /\ rows' = [rows EXCEPT !["canonical"][table] =
                           rows["staging"][table]]
    /\ step' = step + 1
    /\ depth' = depth + 1
    /\ UNCHANGED <<diskVars, handles, lock, pc, note, todo, syncVars, newRows,
                   failed, faults, before, calm, damaged>>

FullPublishFails(t) ==
    /\ Goto(t, "full_publish", "full_undo")
    /\ step < 3
    /\ Fault
    /\ UNCHANGED <<diskVars, rows, handles, lock, note, todo, syncVars,
                   holderVars, before, damaged>>

FullUndo(t) ==
    /\ Undo(t, "full_undo")
    /\ rows' = [rows EXCEPT !["canonical"][PublishOrder[depth]] =
                    saved[PublishOrder[depth]]]
    /\ UNCHANGED <<faults, calm, damaged>>

FullUndoFails(t) ==
    /\ Undo(t, "full_undo")
    /\ Fault
    /\ damaged' = TRUE
    /\ UNCHANGED rows

FullUndone(t) ==
    /\ depth = 0
    /\ Goto(t, "full_undo", "full_restore")
    /\ UNCHANGED <<diskVars, rows, handles, lock, note, todo, syncVars,
                   holderVars, faults, before, calm, damaged>>

\* Defect: the handles still refer to the staging tables.
FullFailedKeepsHandles(t) ==
    /\ pc[t] \in {"full_giveup", "full_restore"}
    /\ pc' = [pc EXCEPT ![t] = "full_failed"]
    /\ Release(t)
    /\ UNCHANGED <<diskVars, rows, handles, note, todo, syncVars, faults, calm,
                   damaged>>

\* failure_stats reopens the canonical tables and returns with
\* previous_index_preserved set to True ...
FullFailed(t) ==
    /\ pc[t] \in {"full_giveup", "full_restore"}
    /\ pc' = [pc EXCEPT ![t] = "full_failed"]
    /\ handles' = "canonical"
    /\ Release(t)
    /\ UNCHANGED <<diskVars, rows, note, todo, syncVars, faults, calm,
                   damaged>>

\* ... or the reopening raises, and handles stay what they are.
FullRestoreFails(t) ==
    /\ Goto(t, "full_restore", "idle")
    /\ Fault
    /\ damaged' = TRUE
    /\ Release(t)
    /\ UNCHANGED <<diskVars, rows, handles, note, todo, syncVars>>

FullReturned(t) ==
    /\ Goto(t, "full_failed", "idle")
    /\ UNCHANGED <<diskVars, rows, handles, lock, note, todo, syncVars,
                   holderVars, faults, before, calm, damaged>>

FullCompleted(t) ==
    /\ step = 3
    /\ Goto(t, "full_publish", "idle")
    /\ handles' = "canonical"
    /\ calm' = {}
    /\ Release(t)
    /\ UNCHANGED <<diskVars, rows, note, todo, syncVars, faults, damaged>>

FullStep(t) ==
    \/ FullLock(t) \/ FullReset(t) \/ FullGraph(t) \/ FullGiveUp(t)
    \/ FullStagingFails(t)
    \/ \E n \in Notes : FullParse(t, n)
    \/ FullPublish(t) \/ FullPublishFails(t)
    \/ FullUndo(t) \/ FullUndoFails(t) \/ FullUndone(t)
    \/ FullFailed(t) \/ FullRestoreFails(t) \/ FullReturned(t)
    \/ FullCompleted(t)

(***************************************************************************)
(* sync_check                                                              *)
(***************************************************************************)

\* The vault is scanned without the lock.
SyncScan(t) ==
    /\ Goto(t, "idle", "sync_open")
    /\ seen' = [seen EXCEPT ![t] = disk]
    /\ calm' = calm \cup {t}
    /\ UNCHANGED <<diskVars, rows, handles, lock, note, todo, opened,
                   holderVars, faults, before, damaged>>

\* The lock covers _ensure_table only ...
SyncOpen(t) ==
    /\ lock = Free
    /\ Goto(t, "sync_open", "sync_read")
    /\ handles' = EnsureTable
    /\ opened' = [opened EXCEPT ![t] = EnsureTable]
    /\ UNCHANGED <<diskVars, rows, lock, note, todo, seen, holderVars, faults,
                   before, calm, damaged>>

\* Defect: notes that left the vault are not looked for.
OutOfSyncIgnoresDeleted(scanned, indexed) ==
    {n \in Notes :
        \/ scanned[n] # 0 /\ indexed[n] = 0
        \/ scanned[n] > indexed[n] + 1}

\* New, deleted, and modified by more than the second granted to rounding.
OutOfSync(scanned, indexed) ==
    {n \in Notes :
        \/ (scanned[n] = 0) # (indexed[n] = 0)
        \/ scanned[n] > indexed[n] + 1}

\* ... so the rows are read while another thread may be changing them.
SyncRead(t) ==
    /\ Goto(t, "sync_read", "sync_next")
    /\ todo' = [todo EXCEPT ![t] =
                    OutOfSync(seen[t], rows[opened[t]]["chunks"])]
    /\ UNCHANGED <<diskVars, rows, handles, lock, note, syncVars, holderVars,
                   faults, before, calm, damaged>>

\* An unreadable index is treated as empty.
SyncReadFails(t) ==
    /\ Goto(t, "sync_read", "sync_next")
    /\ Fault
    /\ todo' = [todo EXCEPT ![t] = OutOfSync(seen[t], NoRows)]
    /\ UNCHANGED <<diskVars, rows, handles, lock, note, syncVars, holderVars,
                   before, damaged>>

\* Deleted notes first; each note is handed to reindex_note.
SyncNext(t, n) ==
    /\ n \in todo[t]
    /\ seen[t][n] = 0 \/ \A m \in todo[t] : seen[t][m] # 0
    /\ Goto(t, "sync_next", "note_lock")
    /\ note' = [note EXCEPT ![t] = n]
    /\ UNCHANGED <<diskVars, rows, handles, lock, todo, syncVars, holderVars,
                   faults, before, calm, damaged>>

SyncDone(t) ==
    /\ todo[t] = {}
    /\ Goto(t, "sync_next", "sync_done")
    /\ UNCHANGED <<diskVars, rows, handles, lock, note, todo, syncVars,
                   holderVars, faults, before, calm, damaged>>

SyncReturned(t) ==
    /\ Goto(t, "sync_done", "idle")
    /\ calm' = calm \ {t}
    /\ seen' = [seen EXCEPT ![t] = NoRows]
    /\ UNCHANGED <<diskVars, rows, handles, lock, note, todo, opened,
                   holderVars, faults, before, damaged>>

SyncStep(t) ==
    \/ SyncOpen(t) \/ SyncRead(t) \/ SyncReadFails(t)
    \/ \E n \in Notes : SyncNext(t, n)
    \/ SyncDone(t) \/ SyncReturned(t)

(***************************************************************************)
(* The process is killed; what LanceDB committed stays.                    *)
(***************************************************************************)

Crash ==
    /\ Fault
    /\ lock' = Free
    /\ handles' = "unset"
    /\ pc' = [t \in Threads |-> "idle"]
    /\ todo' = [t \in Threads |-> {}]
    /\ newRows' = 0
    /\ step' = 0
    /\ depth' = 0
    /\ failed' = FALSE
    /\ saved' = [u \in Tables |-> NoRows]
    /\ damaged' = (damaged \/ depth > 0)
    /\ note' = [t \in Threads |-> NoNote]
    /\ seen' = [t \in Threads |-> NoRows]
    /\ before' = [u \in Tables |-> NoRows]
    /\ UNCHANGED <<diskVars, rows, opened>>

Next ==
    \/ \E n \in Notes : Delete(n) \/ \E time \in Times : Edit(n, time)
    \/ \E t \in Threads :
          \/ "note" \in Calls[t] /\ \E n \in Notes : ReindexNote(t, n)
          \/ "full" \in Calls[t] /\ FullScan(t)
          \/ "sync" \in Calls[t] /\ SyncScan(t)
          \/ NoteStep(t) \/ FullStep(t) \/ SyncStep(t)
    \/ Crash

Spec == Init /\ [][Next]_vars

\* A thread that holds the lock, or can get it, keeps running; failures may
\* happen but are not counted on.
FairSpec ==
    Spec /\ \A t \in Threads :
               WF_vars(/\ NoteStep(t) \/ FullStep(t) \/ SyncStep(t)
                       /\ UNCHANGED faults)

-----------------------------------------------------------------------------
(***************************************************************************)
(* Properties.                                                             *)
(***************************************************************************)

Positions ==
    {"idle", "note_lock", "note_exists", "note_parse", "note_parse_error",
     "note_apply", "note_undo", "full_lock", "full_reset", "full_parse",
     "full_giveup", "full_publish", "full_undo", "full_restore", "full_failed",
     "sync_open", "sync_read", "sync_next", "sync_done"}

Contents == [Notes -> Times]

\* Types of the tables, of the handles and of the locals of every thread.
TypeOK ==
    /\ disk \in Contents /\ clock \in Contents
    /\ rows \in [Generations -> [Tables -> Contents]]
    /\ handles \in Generations \cup {"unset"}
    /\ lock \in Threads \cup {Free}
    /\ pc \in [Threads -> Positions]
    /\ note \in [Threads -> Notes \cup {NoNote}]
    /\ todo \in [Threads -> SUBSET Notes]
    /\ seen \in [Threads -> Contents]
    /\ opened \in [Threads -> Generations]
    /\ newRows \in Times
    /\ step \in 0..6 /\ depth \in 0..3
    /\ saved \in [Tables -> Contents]
    /\ failed \in BOOLEAN
    /\ faults \in 0..MaxFaults
    /\ before \in [Tables -> Contents]
    /\ calm \in SUBSET Threads
    /\ damaged \in BOOLEAN

\* Between operations the three tables describe the same revision of every
\* note, whatever failed before, unless a rollback itself failed or the
\* process was killed in the middle of a commit.
TablesAgree ==
    lock = Free /\ ~damaged =>
        \A n \in Notes : /\ rows["canonical"]["links"][n] =
                              rows["canonical"]["chunks"][n]
                         /\ rows["canonical"]["aliases"][n] =
                              rows["canonical"]["chunks"][n]

\* Between operations the handles never refer to the staging tables, so what
\* reindex_note writes is what search reads.
HandlesCanonical == lock = Free /\ ~damaged => handles # "staging"

\* Whatever operation of the indexer fails, and whoever comes next: the three
\* tables describe the same notes and the handles refer to them.
IndexSound == TypeOK /\ TablesAgree /\ HandlesCanonical

\* A full_reindex that reports a failure has left the index as it was, unless
\* a rollback failed.
FailureRestores ==
    [][\A t \in Threads :
          pc[t] # "full_failed" /\ pc'[t] = "full_failed" /\ ~damaged =>
              rows'["canonical"] = before]_vars

\* No operation replaces the rows of a note by those of an older revision:
\* whatever is read is read after the lock was taken.
CommitsMoveForward ==
    [][lock # Free /\ lock' = Free /\ ~Crash =>
          \A n \in Notes : \/ rows'["canonical"]["chunks"][n] = 0
                           \/ rows'["canonical"]["chunks"][n] >=
                                before["chunks"][n]]_vars

\* A sync_check during which nothing changed, failed or was rebuilt leaves an
\* index that agrees with the vault up to the second granted to rounding.
SyncConverges ==
    \A t \in Threads :
        pc[t] = "sync_done" /\ t \in calm /\ lock = Free /\ ~damaged =>
            \A n \in Notes :
                /\ disk[n] = 0 => rows["canonical"]["chunks"][n] = 0
                /\ disk[n] # 0 /\ n \notin Blank =>
                      /\ rows["canonical"]["chunks"][n] # 0
                      /\ disk[n] =< rows["canonical"]["chunks"][n] + 1


\* What the class promises of its lock: a rebuild that completes does not undo
\* the indexing of a note by the watcher, when the note is still in the vault.
RebuildKeepsIndexedNotes ==
    [][\A t \in Threads :
          pc[t] = "full_publish" /\ pc'[t] = "idle" /\ ~Crash =>
              \A n \in Notes :
                  disk[n] # 0 /\ before["chunks"][n] = disk[n] =>
                      rows'["canonical"]["chunks"][n] = disk[n]]_vars

\* The lock is always given back, on every failure path.
LockReleased == (lock # Free) ~> (lock = Free)

=============================================================================
