-------------------------- MODULE NoteIndexProofs --------------------------
(***************************************************************************)
(* Theorems about the writers of the index, for any number of notes,       *)
(* threads, failures and kills: the three tables agree between operations, *)
(* a rebuild that reports a failure has restored the index, no commit goes *)
(* back to older rows, and an undisturbed sync_check converges.            *)
(*                                                                         *)
(* The lock holder's place tells what it has done to the canonical tables  *)
(* since it took the lock ("before"): which tables are still untouched,    *)
(* which are replaced, and that the snapshot of every replaced one is the  *)
(* table as it was.  That is what makes a rollback restore.                *)
(***************************************************************************)
EXTENDS NoteIndex, TLAPS

NoteHolding == {"note_exists", "note_parse", "note_parse_error", "note_apply",
                "note_undo"}
FullHolding == {"full_reset", "full_parse", "full_giveup", "full_publish",
                "full_undo", "full_restore"}
Holding == NoteHolding \cup FullHolding

Agree(tables) ==
    \A n \in Notes : /\ tables["links"][n] = tables["chunks"][n]
                     /\ tables["aliases"][n] = tables["chunks"][n]

\* A position is inside the with statement exactly for the lock's holder.
LockHeld == \A t \in Threads : pc[t] \in Holding <=> lock = t

\* Nothing of an operation is left when its lock is free.
AtRest == lock = Free => step = 0 /\ depth = 0 /\ newRows = 0

\* reindex_note has its argument.
HasNote ==
    \A t \in Threads : pc[t] \in NoteHolding \cup {"note_lock"} => note[t] \in Notes

\* No rows are newer than the last change of their note.
Fresh ==
    \A n \in Notes :
      /\ disk[n] = 0 \/ disk[n] = clock[n]
      /\ \A u \in Tables : /\ saved[u][n] <= clock[n] /\ before[u][n] <= clock[n]
                           /\ \A g \in Generations : rows[g][u][n] <= clock[n]

\* Before its first change of a canonical table.
Untouched(t) ==
    pc[t] \in {"note_exists", "note_parse", "note_parse_error", "full_reset",
               "full_parse", "full_giveup"} =>
      /\ step = 0 /\ depth = 0
      /\ pc[t] = "note_exists" => newRows = 0
      /\ \A u \in Tables : rows["canonical"][u] = before[u]

\* _apply_note_records: of each table, the rows of one note are replaced
\* after the table's snapshot.  The handles are the canonical ones unless a
\* restore has failed.
Applying(t) ==
    pc[t] = "note_apply" =>
      /\ 2 * depth = step \/ 2 * depth = step + 1
      /\ step > 0 => handles \in Generations
      /\ newRows <= clock[note[t]]
      /\ newRows = 0 \/ newRows >= before["chunks"][note[t]]
      /\ \A i \in 1..3 :
           LET u == NoteOrder[i]
           IN  IF handles = "canonical"
               THEN /\ i <= depth => saved[u] = before[u]
                    /\ \A m \in Notes :
                         rows["canonical"][u][m] =
                           IF m # note[t] \/ step < 2 * i - 1 THEN before[u][m]
                           ELSE IF step = 2 * i - 1 THEN 0 ELSE newRows
               ELSE rows["canonical"][u] = before[u]

\* The rollback of _apply_note_records.
Undoing(t) ==
    pc[t] = "note_undo" =>
      /\ depth > 0 => handles \in Generations
      /\ \A i \in 1..3 :
           LET u == NoteOrder[i]
           IN  /\ i <= depth /\ handles = "canonical" => saved[u] = before[u]
               /\ ~damaged /\ i > depth => rows["canonical"][u] = before[u]

\* full_reindex publishes its staging tables.
Publishing(t) ==
    pc[t] = "full_publish" =>
      /\ step = depth /\ Agree(rows["staging"])
      /\ \A i \in 1..3 :
           LET u == PublishOrder[i]
           IN  IF i <= depth
               THEN /\ saved[u] = before[u]
                    /\ rows["canonical"][u] = rows["staging"][u]
               ELSE rows["canonical"][u] = before[u]

\* The rollback of full_reindex, to its end.
Unpublishing(t) ==
    pc[t] \in {"full_undo", "full_restore"} =>
      /\ pc[t] = "full_restore" => depth = 0
      /\ \A i \in 1..3 :
           LET u == PublishOrder[i]
           IN  /\ i <= depth => saved[u] = before[u]
               /\ ~damaged /\ i > depth => rows["canonical"][u] = before[u]

\* What the operation found, and what it makes of the chunks.
MovesForward(t) ==
    \A n \in Notes :
      /\ \/ rows["canonical"]["chunks"][n] = 0
         \/ rows["canonical"]["chunks"][n] >= before["chunks"][n]
      /\ pc[t] \in {"full_parse", "full_publish"} =>
           \/ rows["staging"]["chunks"][n] = 0
           \/ rows["staging"]["chunks"][n] >= before["chunks"][n]

FoundSound(t) ==
    ~damaged => /\ Agree(before)
                /\ pc[t] \in NoteHolding \cup {"full_reset"} => handles # "staging"

Holder(t) ==
    /\ Untouched(t) /\ Applying(t) /\ Undoing(t) /\ Publishing(t)
    /\ Unpublishing(t) /\ MovesForward(t) /\ FoundSound(t)

IndexInv ==
    /\ TypeOK /\ LockHeld /\ AtRest /\ HasNote /\ Fresh
    /\ TablesAgree /\ HandlesCanonical
    /\ \A t \in Threads : lock = t => Holder(t)

-----------------------------------------------------------------------------
(***************************************************************************)
(* Tables                                                                  *)
(***************************************************************************)

AllTables == [Generations -> [Tables -> Contents]]

LEMMA Orders ==
    /\ \A i \in 1..3 : NoteOrder[i] \in Tables /\ PublishOrder[i] \in Tables
    /\ \A i, j \in 1..3 : /\ NoteOrder[i] = NoteOrder[j] => i = j
                          /\ PublishOrder[i] = PublishOrder[j] => i = j
    /\ \A u \in Tables : /\ \E i \in 1..3 : NoteOrder[i] = u
                         /\ \E i \in 1..3 : PublishOrder[i] = u
    /\ NoteOrder[1] = "chunks" /\ PublishOrder[3] = "chunks"
<1>1. 1..3 = {1, 2, 3}
  OBVIOUS
<1>2. /\ NoteOrder[1] = "chunks" /\ NoteOrder[2] = "links"
      /\ NoteOrder[3] = "aliases"
  BY DEF NoteOrder
<1>3. /\ PublishOrder[1] = "links" /\ PublishOrder[2] = "aliases"
      /\ PublishOrder[3] = "chunks"
  BY DEF PublishOrder
<1>. QED
  BY <1>1, <1>2, <1>3 DEF Tables

LEMMA SameContents ==
    ASSUME NEW f \in Contents, NEW g \in Contents, \A n \in Notes : f[n] = g[n]
    PROVE  f = g
BY DEF Contents

LEMMA SameTables ==
    ASSUME NEW f \in [Tables -> Contents], NEW g \in [Tables -> Contents],
           \A u \in Tables : f[u] = g[u]
    PROVE  f = g
OBVIOUS

LEMMA EmptyTable == NoRows \in Contents /\ \A n \in Notes : NoRows[n] = 0
BY BoundsAssumption DEF NoRows, Contents, Times

(***************************************************************************)
(* Steps                                                                   *)
(***************************************************************************)

LEMMA IndexInitInv == Init => IndexInv
<1> SUFFICES ASSUME Init PROVE IndexInv
  OBVIOUS
<1>. USE EmptyTable
<1>1. TypeOK
  <2>1. /\ disk \in Contents /\ clock \in Contents
        /\ saved \in [Tables -> Contents] /\ before \in [Tables -> Contents]
        /\ seen \in [Threads -> Contents] /\ rows \in [Generations -> [Tables -> Contents]]
    BY DEF Init
  <2>2. newRows \in Times /\ step \in 0..6 /\ depth \in 0..3
        /\ faults \in 0..MaxFaults
    BY BoundsAssumption DEF Init, Times
  <2>3. /\ pc \in [Threads -> Positions] /\ note \in [Threads -> Notes \cup {NoNote}]
        /\ todo \in [Threads -> SUBSET Notes] /\ opened \in [Threads -> Generations]
        /\ calm \in SUBSET Threads /\ handles \in Generations \cup {"unset"}
        /\ lock \in Threads \cup {Free}
    BY DEF Init, Positions, Generations
  <2>4. failed \in BOOLEAN /\ damaged \in BOOLEAN
    BY DEF Init
  <2>. QED
    BY <2>1, <2>2, <2>3, <2>4 DEF TypeOK
<1>2. LockHeld /\ AtRest /\ HasNote
  BY FreeAssumption DEF Init, LockHeld, AtRest, HasNote, Holding, NoteHolding,
     FullHolding
<1>3. Fresh
  BY DEF Init, Fresh, Generations, Tables
<1>4. TablesAgree /\ HandlesCanonical
  BY DEF Init, TablesAgree, HandlesCanonical, Generations, Tables
<1>5. \A t \in Threads : lock # t
  BY FreeAssumption DEF Init
<1>. QED
  BY <1>1, <1>2, <1>3, <1>4, <1>5 DEF IndexInv

\* A step of the vault or of a thread outside the lock.
LEMMA OutsideKeeps ==
    ASSUME IndexInv, TypeOK', Fresh', LockHeld', HasNote',
           UNCHANGED <<rows, lock, step, depth, newRows, saved, before, damaged>>,
           handles' = handles \/ (lock = Free /\ handles' = EnsureTable),
           \A t \in Threads : lock = t => pc'[t] = pc[t] /\ note'[t] = note[t],
           \A n \in Notes : clock[n] <= clock'[n]
    PROVE  IndexInv'
<1>1. AtRest'
  BY DEF IndexInv, AtRest
<1>2. TablesAgree'
  BY DEF IndexInv, TablesAgree
<1>3. HandlesCanonical'
  BY DEF IndexInv, HandlesCanonical, EnsureTable
<1>4. ASSUME NEW t \in Threads, lock = t PROVE Holder(t)'
  <2>1. Holder(t) /\ pc'[t] = pc[t] /\ note'[t] = note[t]
    BY <1>4 DEF IndexInv
  <2>2. handles' = handles
    BY <1>4, FreeAssumption
  <2>3. Untouched(t)' /\ Undoing(t)' /\ Publishing(t)' /\ Unpublishing(t)'
    BY <2>1, <2>2 DEF Holder, Untouched, Undoing, Publishing, Unpublishing, Agree
  <2>4. MovesForward(t)' /\ FoundSound(t)'
    BY <2>1, <2>2 DEF Holder, MovesForward, FoundSound, Agree
  <2>5. Applying(t)'
    <3> SUFFICES ASSUME pc[t] = "note_apply"
                 PROVE  Applying(t)'
      BY <2>1 DEF Applying
    <3>1. note[t] \in Notes
      BY DEF IndexInv, HasNote, NoteHolding
    <3>2. newRows \in Int /\ clock[note[t]] \in Int /\ clock'[note[t]] \in Int
      BY <3>1 DEF IndexInv, TypeOK, Contents, Times
    <3>3. newRows <= clock[note[t]] => newRows <= clock'[note[t]]
      BY <3>1, <3>2
    <3>. QED
      BY <2>1, <2>2, <3>3 DEF Holder, Applying
  <2>. QED
    BY <2>3, <2>4, <2>5 DEF Holder
<1>. QED
  BY <1>1, <1>2, <1>3, <1>4 DEF IndexInv

\* A step of the lock's holder that stays inside.
LEMMA HolderKeeps ==
    ASSUME IndexInv, NEW t \in Threads, lock = t, lock' = lock,
           NEW to \in Holding, pc' = [pc EXCEPT ![t] = to], UNCHANGED note,
           to \in NoteHolding => note[t] \in Notes,
           TypeOK', Fresh', Holder(t)'
    PROVE  IndexInv'
<1>1. pc'[t] = to /\ \A u \in Threads \ {t} : pc'[u] = pc[u]
  BY DEF IndexInv, TypeOK
<1>2. LockHeld'
  BY <1>1 DEF IndexInv, LockHeld
<1>3. HasNote'
  BY <1>1 DEF IndexInv, HasNote, Holding, FullHolding, NoteHolding
<1>4. lock # Free
  BY FreeAssumption
<1>5. AtRest' /\ TablesAgree' /\ HandlesCanonical'
  BY <1>4 DEF AtRest, TablesAgree, HandlesCanonical
<1>. QED
  BY <1>2, <1>3, <1>5 DEF IndexInv

\* A step that keeps the holder where it is.
LEMMA HolderStays ==
    ASSUME IndexInv, NEW t \in Threads, lock = t, pc[t] \in Holding
    PROVE  pc = [pc EXCEPT ![t] = pc[t]]
BY DEF IndexInv, TypeOK

\* The lock is taken.
LEMMA AcquireKeeps ==
    ASSUME IndexInv, NEW t \in Threads,
           \/ Acquire(t, "note_lock", "note_exists")
           \/ Acquire(t, "full_lock", "full_reset"),
           UNCHANGED <<diskVars, rows, handles, note, todo, syncVars, holderVars,
                       faults, calm, damaged>>
    PROVE  IndexInv'
<1> DEFINE to == IF pc[t] = "note_lock" THEN "note_exists" ELSE "full_reset"
<1>1. /\ lock = Free /\ lock' = t /\ pc' = [pc EXCEPT ![t] = to]
      /\ before' = rows["canonical"] /\ pc[t] \in {"note_lock", "full_lock"}
  BY DEF Acquire, Goto
<1>2. /\ UNCHANGED <<disk, clock, rows, handles, note, todo, seen, opened, newRows,
                     step, saved, depth, failed, faults, calm, damaged>>
  BY DEF diskVars, syncVars, holderVars
<1>3. to \in Holding /\ to \in Positions /\ to \in {"note_exists", "full_reset"}
  BY DEF Holding, NoteHolding, FullHolding, Positions
<1>4. pc[t] = "note_lock" <=> to = "note_exists"
  OBVIOUS
<1>. HIDE DEF to
<1>5. TypeOK'
  BY <1>1, <1>2, <1>3 DEF IndexInv, TypeOK, Generations
<1>6. pc'[t] = to /\ \A u \in Threads \ {t} : pc'[u] = pc[u]
  BY <1>1 DEF IndexInv, TypeOK
<1>7. LockHeld'
  BY <1>1, <1>3, <1>6, FreeAssumption DEF IndexInv, LockHeld
<1>8. HasNote'
  BY <1>2, <1>3, <1>4, <1>6 DEF IndexInv, HasNote, NoteHolding
<1>9. Fresh'
  BY <1>1, <1>2 DEF IndexInv, Fresh, Generations
<1>10. AtRest' /\ TablesAgree' /\ HandlesCanonical'
  BY <1>1, FreeAssumption DEF AtRest, TablesAgree, HandlesCanonical
<1>11. Untouched(t)'
  BY <1>1, <1>2, <1>6 DEF IndexInv, AtRest, Untouched
<1>12. Applying(t)' /\ Undoing(t)' /\ Publishing(t)' /\ Unpublishing(t)'
  BY <1>3, <1>6 DEF Applying, Undoing, Publishing, Unpublishing
<1>13. MovesForward(t)'
  <2>1. \A n \in Notes : rows["canonical"]["chunks"][n] \in Int
    BY DEF IndexInv, TypeOK, Contents, Times, Generations, Tables
  <2>. QED
    BY <1>1, <1>2, <1>3, <1>6, <2>1 DEF MovesForward
<1>14. FoundSound(t)'
  BY <1>1, <1>2 DEF IndexInv, TablesAgree, HandlesCanonical, FoundSound, Agree
<1>15. Holder(t)'
  BY <1>11, <1>12, <1>13, <1>14 DEF Holder
<1>. QED
  BY <1>1, <1>5, <1>7, <1>8, <1>9, <1>10, <1>15 DEF IndexInv

\* The lock is given back.
LEMMA ReleaseKeeps ==
    ASSUME IndexInv, NEW t \in Threads, lock = t, Release(t),
           NEW to \in {"idle", "sync_next", "full_failed"},
           pc' = [pc EXCEPT ![t] = to],
           \A u \in Threads \ {t} : note'[u] = note[u],
           TypeOK', UNCHANGED <<disk, clock, rows>>,
           ~damaged' => ~damaged /\ Agree(rows["canonical"]) /\ handles' # "staging"
    PROVE  IndexInv'
<1>1. pc'[t] = to /\ \A u \in Threads \ {t} : pc'[u] = pc[u]
  BY DEF IndexInv, TypeOK
<1>2. /\ lock' = Free /\ step' = 0 /\ depth' = 0 /\ newRows' = 0
      /\ saved' = [u \in Tables |-> NoRows] /\ before' = [u \in Tables |-> NoRows]
  BY DEF Release
<1>3. LockHeld'
  BY <1>1, <1>2, FreeAssumption DEF IndexInv, LockHeld, Holding, NoteHolding,
     FullHolding
<1>4. AtRest'
  BY <1>2 DEF AtRest
<1>5. HasNote'
  BY <1>1 DEF IndexInv, HasNote, NoteHolding
<1>6. Fresh'
  <2>1. \A n \in Notes : 0 <= clock[n]
    BY DEF IndexInv, TypeOK, Contents, Times
  <2>. QED
    BY <1>2, <2>1, EmptyTable DEF IndexInv, Fresh
<1>7. TablesAgree' /\ HandlesCanonical'
  BY DEF TablesAgree, HandlesCanonical, Agree
<1>8. \A u \in Threads : lock' # u
  BY <1>2, FreeAssumption
<1>. QED
  BY <1>3, <1>4, <1>5, <1>6, <1>7, <1>8 DEF IndexInv

\* A thread outside the lock moves on.
LEMMA ThreadOutsideKeeps ==
    ASSUME IndexInv, NEW t \in Threads, pc[t] \notin Holding,
           NEW to, to \notin Holding, pc' = [pc EXCEPT ![t] = to],
           to = "note_lock" => note'[t] \in Notes,
           \A u \in Threads \ {t} : note'[u] = note[u],
           TypeOK', UNCHANGED diskVars,
           UNCHANGED <<rows, lock, step, depth, newRows, saved, before, damaged>>,
           handles' = handles \/ (lock = Free /\ handles' = EnsureTable)
    PROVE  IndexInv'
<1>1. pc'[t] = to /\ \A u \in Threads \ {t} : pc'[u] = pc[u]
  BY DEF IndexInv, TypeOK
<1>2. LockHeld'
  BY <1>1 DEF IndexInv, LockHeld
<1>3. HasNote'
  BY <1>1 DEF IndexInv, HasNote, Holding
<1>4. Fresh'
  BY DEF IndexInv, Fresh, diskVars
<1>5. \A u \in Threads : lock = u => u # t
  BY DEF IndexInv, LockHeld
<1>6. \A n \in Notes : clock[n] <= clock'[n]
  BY DEF IndexInv, TypeOK, Contents, Times, diskVars
<1>. QED
  BY <1>1, <1>2, <1>3, <1>4, <1>5, <1>6, OutsideKeeps

LEMMA VaultKeeps ==
    ASSUME IndexInv, NEW n \in Notes,
           Delete(n) \/ \E time \in Times : Edit(n, time)
    PROVE  IndexInv'
<1>1. /\ UNCHANGED <<rows, handles, lock, pc, note, todo, seen, opened, newRows,
                     step, saved, depth, failed, faults, before, damaged>>
      /\ calm' = {}
  BY DEF Delete, Edit, syncVars, holderVars
<1>2. CASE Delete(n)
  <2>1. disk' = [disk EXCEPT ![n] = 0] /\ clock' = clock
    BY <1>2 DEF Delete
  <2>2. disk' \in Contents
    BY <2>1, BoundsAssumption DEF IndexInv, TypeOK, Contents, Times
  <2>3. TypeOK'
    BY <1>1, <2>1, <2>2 DEF IndexInv, TypeOK
  <2>4. \A m \in Notes : disk'[m] = 0 \/ disk'[m] = disk[m]
    BY <2>1 DEF IndexInv, TypeOK, Contents
  <2>5. Fresh'
    BY <1>1, <2>1, <2>4 DEF IndexInv, Fresh
  <2>6. \A m \in Notes : clock[m] <= clock'[m]
    BY <2>1 DEF IndexInv, TypeOK, Contents, Times
  <2>7. LockHeld' /\ HasNote'
    BY <1>1 DEF IndexInv, LockHeld, HasNote
  <2>. QED
    BY <1>1, <2>3, <2>5, <2>6, <2>7, OutsideKeeps
<1>3. ASSUME NEW time \in Times, Edit(n, time) PROVE IndexInv'
  <2>1. /\ disk' = [disk EXCEPT ![n] = time] /\ clock' = [clock EXCEPT ![n] = time]
        /\ clock[n] < time
    BY <1>3 DEF Edit
  <2>2. disk' \in Contents /\ clock' \in Contents
    BY <2>1 DEF IndexInv, TypeOK, Contents
  <2>3. TypeOK'
    BY <1>1, <2>2 DEF IndexInv, TypeOK
  <2>4. \A m \in Notes : /\ clock[m] \in Int /\ clock'[m] \in Int
                         /\ clock[m] <= clock'[m]
                         /\ disk'[m] = clock'[m] \/ (disk'[m] = disk[m] /\ clock'[m] = clock[m])
    BY <2>1 DEF IndexInv, TypeOK, Contents, Times
  <2>5. \A m \in Notes, u \in Tables :
           /\ saved[u][m] \in Int /\ before[u][m] \in Int
           /\ \A g \in Generations : rows[g][u][m] \in Int
    BY DEF IndexInv, TypeOK, Contents, Times
  <2>6. Fresh'
    <3> SUFFICES ASSUME NEW m \in Notes
                 PROVE  /\ disk'[m] = 0 \/ disk'[m] = clock'[m]
                        /\ \A u \in Tables :
                             /\ saved[u][m] <= clock'[m] /\ before[u][m] <= clock'[m]
                             /\ \A g \in Generations : rows[g][u][m] <= clock'[m]
      BY <1>1 DEF Fresh
    <3>1. /\ disk[m] = 0 \/ disk[m] = clock[m]
          /\ \A u \in Tables : /\ saved[u][m] <= clock[m] /\ before[u][m] <= clock[m]
                               /\ \A g \in Generations : rows[g][u][m] <= clock[m]
      BY DEF IndexInv, Fresh
    <3>2. \A x \in Int : x <= clock[m] => x <= clock'[m]
      BY <2>4
    <3>. QED
      BY <2>4, <2>5, <3>1, <3>2
  <2>7. LockHeld' /\ HasNote'
    BY <1>1 DEF IndexInv, LockHeld, HasNote
  <2>. QED
    BY <1>1, <2>3, <2>4, <2>6, <2>7, OutsideKeeps
<1>. QED
  BY <1>2, <1>3

LEMMA OutOfSyncNotes ==
    ASSUME NEW f, NEW g PROVE OutOfSync(f, g) \subseteq Notes
BY DEF OutOfSync

\* What threads do outside the lock.
LEMMA UnlockedKeeps ==
    ASSUME IndexInv, NEW t \in Threads,
           \/ \E n \in Notes : ReindexNote(t, n) \/ SyncNext(t, n)
           \/ FullScan(t) \/ FullReturned(t) \/ SyncScan(t) \/ SyncOpen(t)
           \/ SyncRead(t) \/ SyncReadFails(t) \/ SyncDone(t) \/ SyncReturned(t)
    PROVE  IndexInv'
<1> DEFINE Elsewhere == {"idle", "note_lock", "full_lock", "full_failed",
                         "sync_open", "sync_read", "sync_next", "sync_done"}
<1>1. Elsewhere \subseteq Positions /\ Elsewhere \cap Holding = {}
  BY DEF Positions, Holding, NoteHolding, FullHolding
<1>2. UNCHANGED <<disk, clock, rows, lock, step, depth, newRows, saved, failed,
                  before, damaged>>
  BY DEF ReindexNote, SyncNext, FullScan, FullReturned, SyncScan, SyncOpen, SyncRead,
     SyncReadFails, SyncDone, SyncReturned, diskVars, holderVars
<1>3. PICK to \in Elsewhere : pc' = [pc EXCEPT ![t] = to] /\ pc[t] \in Elsewhere
        /\ (to = "note_lock" => note'[t] \in Notes)
  <2>1. CASE \E n \in Notes : ReindexNote(t, n) \/ SyncNext(t, n)
    BY <2>1 DEF ReindexNote, SyncNext, Goto, IndexInv, TypeOK
  <2>2. CASE \/ FullScan(t) \/ FullReturned(t) \/ SyncScan(t) \/ SyncOpen(t)
             \/ SyncRead(t) \/ SyncReadFails(t) \/ SyncDone(t) \/ SyncReturned(t)
    BY <2>2 DEF FullScan, FullReturned, SyncScan, SyncOpen, SyncRead,
       SyncReadFails, SyncDone, SyncReturned, Goto
  <2>. QED
    BY <2>1, <2>2
<1>. HIDE DEF Elsewhere
<1>4. note' \in [Threads -> Notes \cup {NoNote}]
      /\ \A u \in Threads \ {t} : note'[u] = note[u]
  BY DEF ReindexNote, SyncNext, FullScan, FullReturned, SyncScan, SyncOpen, SyncRead,
     SyncReadFails, SyncDone, SyncReturned, IndexInv, TypeOK
<1>5. handles' = handles \/ (lock = Free /\ handles' = EnsureTable)
  BY DEF ReindexNote, SyncNext, FullScan, FullReturned, SyncScan, SyncOpen, SyncRead,
     SyncReadFails, SyncDone, SyncReturned
<1>6. EnsureTable \in Generations /\ handles' \in Generations \cup {"unset"}
  BY <1>5 DEF EnsureTable, IndexInv, TypeOK, Generations
<1>7. todo' \in [Threads -> SUBSET Notes]
  <2>1. \/ todo' = todo
        \/ \E S \in SUBSET Notes : todo' = [todo EXCEPT ![t] = S]
    BY OutOfSyncNotes DEF ReindexNote, SyncNext, FullScan, FullReturned, SyncScan,
       SyncOpen, SyncRead, SyncReadFails, SyncDone, SyncReturned
  <2>. QED
    BY <2>1 DEF IndexInv, TypeOK
<1>8. seen' \in [Threads -> Contents] /\ opened' \in [Threads -> Generations]
  <2>1. \/ seen' = seen
        \/ \E f \in Contents : seen' = [seen EXCEPT ![t] = f]
    BY EmptyTable DEF ReindexNote, SyncNext, FullScan, FullReturned, SyncScan,
       SyncOpen, SyncRead, SyncReadFails, SyncDone, SyncReturned, syncVars,
       IndexInv, TypeOK
  <2>2. opened' = opened \/ opened' = [opened EXCEPT ![t] = EnsureTable]
    BY DEF ReindexNote, SyncNext, FullScan, FullReturned, SyncScan, SyncOpen,
       SyncRead, SyncReadFails, SyncDone, SyncReturned, syncVars
  <2>. QED
    BY <1>6, <2>1, <2>2 DEF IndexInv, TypeOK
<1>9. calm' \in SUBSET Threads /\ faults' \in 0..MaxFaults
  BY BoundsAssumption DEF ReindexNote, SyncNext, FullScan, FullReturned, SyncScan,
     SyncOpen, SyncRead, SyncReadFails, SyncDone, SyncReturned, Fault, IndexInv, TypeOK
<1>10. TypeOK'
  BY <1>1, <1>2, <1>3, <1>4, <1>6, <1>7, <1>8, <1>9 DEF IndexInv, TypeOK
<1>. QED
  BY <1>1, <1>2, <1>3, <1>4, <1>5, <1>10, ThreadOutsideKeeps DEF diskVars

\* With nothing to restore the tables are as they were when the lock was
\* taken, at whatever place its holder is.
LEMMA NothingToRestore ==
    ASSUME IndexInv, lock # Free, depth = 0, ~damaged
    PROVE  /\ Agree(rows["canonical"])
           /\ \A u \in Tables : rows["canonical"][u] = before[u]
<1>1. lock \in Threads /\ Holder(lock) /\ pc[lock] \in Holding
  BY DEF IndexInv, TypeOK, LockHeld
<1>2. Agree(before)
  BY <1>1 DEF Holder, FoundSound
<1>3. \A u \in Tables : rows["canonical"][u] = before[u]
  <2>1. CASE pc[lock] \in {"note_exists", "note_parse", "note_parse_error",
                           "full_reset", "full_parse", "full_giveup"}
    BY <1>1, <2>1 DEF Holder, Untouched
  <2>2. CASE pc[lock] = "note_apply"
    <3>1. step = 0
      BY <1>1, <2>2 DEF Holder, Applying, IndexInv, TypeOK
    <3>2. \A i \in 1..3 : \A m \in Notes :
             rows["canonical"][NoteOrder[i]][m] = before[NoteOrder[i]][m]
      BY <1>1, <2>2, <3>1 DEF Holder, Applying
    <3>3. \A u \in Tables : rows["canonical"][u] \in Contents /\ before[u] \in Contents
      BY DEF IndexInv, TypeOK, Generations
    <3>. QED
      BY <3>2, <3>3, SameContents, Orders
  <2>3. CASE pc[lock] = "note_undo"
    BY <1>1, <2>3, Orders DEF Holder, Undoing
  <2>4. CASE pc[lock] = "full_publish"
    BY <1>1, <2>4, Orders DEF Holder, Publishing
  <2>5. CASE pc[lock] \in {"full_undo", "full_restore"}
    BY <1>1, <2>5, Orders DEF Holder, Unpublishing
  <2>. QED
    BY <1>1, <2>1, <2>2, <2>3, <2>4, <2>5 DEF Holding, NoteHolding, FullHolding
<1>. QED
  BY <1>2, <1>3 DEF Agree, Tables

LEMMA CrashKeeps == ASSUME IndexInv, Crash PROVE IndexInv'
<1>1. /\ lock' = Free /\ handles' = "unset" /\ pc' = [t \in Threads |-> "idle"]
      /\ todo' = [t \in Threads |-> {}] /\ newRows' = 0 /\ step' = 0 /\ depth' = 0
      /\ failed' = FALSE /\ saved' = [u \in Tables |-> NoRows]
      /\ damaged' = (damaged \/ depth > 0) /\ note' = [t \in Threads |-> NoNote]
      /\ seen' = [t \in Threads |-> NoRows] /\ before' = [u \in Tables |-> NoRows]
      /\ UNCHANGED <<disk, clock, rows, opened>>
      /\ faults < MaxFaults /\ faults' = faults + 1 /\ calm' = {}
  BY DEF Crash, Fault, diskVars
<1>2. TypeOK'
  <2>1. /\ saved' \in [Tables -> Contents] /\ before' \in [Tables -> Contents]
        /\ seen' \in [Threads -> Contents]
    BY <1>1, EmptyTable
  <2>2. newRows' \in Times /\ step' \in 0..6 /\ depth' \in 0..3
        /\ faults' \in 0..MaxFaults
    BY <1>1, BoundsAssumption DEF Times, IndexInv, TypeOK
  <2>3. /\ pc' \in [Threads -> Positions] /\ note' \in [Threads -> Notes \cup {NoNote}]
        /\ todo' \in [Threads -> SUBSET Notes]
        /\ calm' \in SUBSET Threads /\ handles' \in Generations \cup {"unset"}
        /\ lock' \in Threads \cup {Free}
    BY <1>1 DEF Positions
  <2>4. failed' \in BOOLEAN /\ damaged' \in BOOLEAN
    BY <1>1
  <2>. QED
    BY <1>1, <2>1, <2>2, <2>3, <2>4 DEF IndexInv, TypeOK
<1>3. LockHeld' /\ AtRest' /\ HasNote'
  BY <1>1, FreeAssumption DEF LockHeld, AtRest, HasNote, Holding, NoteHolding,
     FullHolding
<1>4. Fresh'
  <2>1. \A n \in Notes : 0 <= clock[n]
    BY DEF IndexInv, TypeOK, Contents, Times
  <2>. QED
    BY <1>1, <2>1, EmptyTable DEF IndexInv, Fresh
<1>5. TablesAgree'
  <2> SUFFICES ASSUME ~damaged' PROVE Agree(rows["canonical"])
    BY <1>1 DEF TablesAgree, Agree
  <2>1. ~damaged /\ depth = 0
    <3>1. ~damaged /\ ~(depth > 0)
      BY <1>1, Zenon
    <3>2. depth \in 0..3
      BY DEF IndexInv, TypeOK
    <3>. QED
      BY <3>1, <3>2
  <2>2. CASE lock = Free
    BY <2>1, <2>2 DEF IndexInv, TablesAgree, Agree
  <2>3. CASE lock # Free
    BY <2>1, <2>3, NothingToRestore
  <2>. QED
    BY <2>2, <2>3
<1>6. HandlesCanonical' /\ \A t \in Threads : lock' # t
  BY <1>1, FreeAssumption DEF HandlesCanonical
<1>. QED
  BY <1>2, <1>3, <1>4, <1>5, <1>6 DEF IndexInv

(***************************************************************************)
(* Steps inside the lock                                                   *)
(***************************************************************************)

LEMMA AtPlace ==
    ASSUME IndexInv, NEW t \in Threads, pc[t] \in Holding
    PROVE  lock = t /\ lock # Free /\ Holder(t)
BY FreeAssumption DEF IndexInv, LockHeld

\* The holder stays inside; rows and snapshots keep to what the vault had.
LEMMA InsideKeeps ==
    ASSUME IndexInv, NEW t \in Threads, lock = t,
           NEW to \in Holding, pc' = [pc EXCEPT ![t] = to],
           to \in NoteHolding => note[t] \in Notes,
           UNCHANGED <<disk, clock, lock, note, seen, opened, before>>,
           rows' \in AllTables, saved' \in [Tables -> Contents],
           handles' \in Generations \cup {"unset"}, newRows' \in Times,
           step' \in 0..6, depth' \in 0..3, failed' \in BOOLEAN,
           damaged' \in BOOLEAN, todo' \in [Threads -> SUBSET Notes],
           Fault \/ UNCHANGED <<faults, calm>>,
           \A n \in Notes, u \in Tables :
             /\ saved'[u][n] <= clock[n]
             /\ \A g \in Generations : rows'[g][u][n] <= clock[n],
           Holder(t)'
    PROVE  IndexInv'
<1>1. faults' \in 0..MaxFaults /\ calm' \in SUBSET Threads
  BY BoundsAssumption DEF Fault, IndexInv, TypeOK
<1>2. pc' \in [Threads -> Positions]
  BY DEF IndexInv, TypeOK, Holding, NoteHolding, FullHolding, Positions
<1>3. TypeOK'
  BY <1>1, <1>2 DEF IndexInv, TypeOK, AllTables
<1>4. Fresh'
  BY DEF IndexInv, Fresh
<1>. QED
  BY <1>3, <1>4, HolderKeeps

\* What a step that changes none of it needs to know of rows and snapshots.
LEMMA TypesInside ==
    ASSUME IndexInv
    PROVE  /\ rows \in AllTables /\ saved \in [Tables -> Contents]
           /\ before \in [Tables -> Contents] /\ disk \in Contents
           /\ clock \in Contents /\ handles \in Generations \cup {"unset"}
           /\ newRows \in Times /\ step \in 0..6 /\ depth \in 0..3
           /\ failed \in BOOLEAN /\ damaged \in BOOLEAN
           /\ todo \in [Threads -> SUBSET Notes]
           /\ \A n \in Notes, u \in Tables :
                /\ saved[u][n] <= clock[n]
                /\ \A g \in Generations : rows[g][u][n] <= clock[n]
BY DEF IndexInv, TypeOK, AllTables, Fresh

\* reindex_note gives the lock back.
LEMMA NoteReturnKeeps ==
    ASSUME IndexInv, NEW t \in Threads, lock = t, NoteReturn(t),
           UNCHANGED <<disk, clock, rows, handles, seen, opened, damaged>>,
           Fault \/ UNCHANGED <<faults, calm>>,
           ~damaged => Agree(rows["canonical"]) /\ handles # "staging"
    PROVE  IndexInv'
<1>1. PICK to \in {"idle", "sync_next"} : pc' = [pc EXCEPT ![t] = to]
  BY DEF NoteReturn
<1>2. \A u \in Threads \ {t} : note'[u] = note[u]
  BY DEF NoteReturn, IndexInv, TypeOK
<1>3. Release(t)
  BY DEF NoteReturn
<1>4. TypeOK'
  <2>1. /\ note' \in [Threads -> Notes \cup {NoNote}]
        /\ todo' \in [Threads -> SUBSET Notes]
    BY DEF NoteReturn, IndexInv, TypeOK
  <2>2. faults' \in 0..MaxFaults /\ calm' \in SUBSET Threads
    BY BoundsAssumption DEF Fault, IndexInv, TypeOK
  <2>3. pc' \in [Threads -> Positions]
    BY <1>1 DEF IndexInv, TypeOK, Positions
  <2>4. /\ lock' \in Threads \cup {Free} /\ failed' \in BOOLEAN
        /\ saved' \in [Tables -> Contents] /\ before' \in [Tables -> Contents]
    BY <1>3, EmptyTable DEF Release
  <2>5. newRows' \in Times /\ step' \in 0..6 /\ depth' \in 0..3
    BY <1>3, BoundsAssumption DEF Release, Times
  <2>. QED
    BY <2>1, <2>2, <2>3, <2>4, <2>5 DEF IndexInv, TypeOK
<1>. QED
  BY <1>1, <1>2, <1>3, <1>4, ReleaseKeeps

LEMMA NoteExistsKeeps ==
    ASSUME IndexInv, NEW t \in Threads, NoteExists(t) PROVE IndexInv'
<1> DEFINE to == IF disk[note[t]] = 0 THEN "note_apply" ELSE "note_parse"
<1>1. pc[t] = "note_exists" /\ pc' = [pc EXCEPT ![t] = to]
  BY DEF NoteExists, Goto
<1>2. to \in {"note_apply", "note_parse"} /\ to \in Holding
  BY DEF Holding, NoteHolding
<1>. HIDE DEF to
<1>3. UNCHANGED <<disk, clock, rows, handles, lock, note, todo, seen, opened, newRows,
                  step, saved, depth, failed, faults, before, calm, damaged>>
  BY DEF NoteExists, diskVars, syncVars, holderVars
<1>4. lock = t /\ Holder(t)
  BY <1>1, AtPlace DEF Holding, NoteHolding
<1>5. note[t] \in Notes /\ pc'[t] = to
  BY <1>1 DEF IndexInv, HasNote, NoteHolding, TypeOK
<1>6. /\ step = 0 /\ depth = 0 /\ newRows = 0
      /\ \A u \in Tables : rows["canonical"][u] = before[u]
  BY <1>1, <1>4 DEF Holder, Untouched
<1>7. Applying(t)'
  <2>1. 0 <= clock[note[t]]
    BY <1>5 DEF IndexInv, TypeOK, Contents, Times
  <2>2. \A i \in 1..3 : ~(i <= 0) /\ 0 < 2 * i - 1
    OBVIOUS
  <2>. QED
    BY <1>3, <1>6, <2>1, <2>2, Orders DEF Applying
<1>8. Untouched(t)' /\ Undoing(t)' /\ Publishing(t)' /\ Unpublishing(t)'
  BY <1>2, <1>3, <1>5, <1>6 DEF Untouched, Undoing, Publishing, Unpublishing
<1>9. MovesForward(t)'
  BY <1>2, <1>3, <1>4, <1>5 DEF Holder, MovesForward
<1>10. FoundSound(t)'
  BY <1>1, <1>2, <1>3, <1>4, <1>5 DEF Holder, FoundSound, Agree, NoteHolding
<1>11. Holder(t)'
  BY <1>7, <1>8, <1>9, <1>10 DEF Holder
<1>. QED
  BY <1>1, <1>2, <1>3, <1>4, <1>5, <1>11, TypesInside, InsideKeeps

\* What reading a note yields: nothing, or rows no older than any there are.
LEMMA ReadIsRecent ==
    ASSUME IndexInv, NEW n \in Notes
    PROVE  /\ RowsOf(n, disk[n]) \in Times /\ RowsOf(n, disk[n]) <= clock[n]
           /\ \/ RowsOf(n, disk[n]) = 0
              \/ RowsOf(n, disk[n]) >= before["chunks"][n]
<1>1. disk[n] \in Times /\ clock[n] \in Times /\ 0 \in Times
  BY BoundsAssumption DEF IndexInv, TypeOK, Contents, Times
<1>2. disk[n] = 0 \/ disk[n] = clock[n]
  BY DEF IndexInv, Fresh
<1>3. before["chunks"][n] <= clock[n] /\ before["chunks"][n] \in Int
  BY DEF IndexInv, Fresh, TypeOK, Contents, Times, Tables
<1>. QED
  BY <1>1, <1>2, <1>3 DEF RowsOf, Times

\* From the position before the commit to its start, or to a parse error.
LEMMA BeforeApplyKeeps ==
    ASSUME IndexInv, NEW t \in Threads, pc[t] \in {"note_parse", "note_parse_error"},
           NEW to \in {"note_apply", "note_parse_error"},
           pc' = [pc EXCEPT ![t] = to],
           newRows' \in Times, newRows' <= clock[note[t]],
           newRows' = 0 \/ newRows' >= before["chunks"][note[t]],
           UNCHANGED <<disk, clock, rows, handles, lock, note, todo, seen, opened,
                       step, saved, depth, failed, before, damaged>>,
           Fault \/ UNCHANGED <<faults, calm>>
    PROVE  IndexInv'
<1>1. to \in Holding
  BY DEF Holding, NoteHolding
<1>2. lock = t /\ Holder(t)
  BY AtPlace DEF Holding, NoteHolding
<1>3. note[t] \in Notes /\ pc'[t] = to
  BY DEF IndexInv, HasNote, NoteHolding, TypeOK
<1>4. /\ step = 0 /\ depth = 0
      /\ \A u \in Tables : rows["canonical"][u] = before[u]
  BY <1>2 DEF Holder, Untouched
<1>5. Applying(t)'
  <2>1. \A i \in 1..3 : ~(i <= 0) /\ 0 < 2 * i - 1
    OBVIOUS
  <2>. QED
    BY <1>4, <2>1, Orders DEF Applying
<1>6. Untouched(t)' /\ Undoing(t)' /\ Publishing(t)' /\ Unpublishing(t)'
  BY <1>3, <1>4 DEF Untouched, Undoing, Publishing, Unpublishing
<1>7. MovesForward(t)'
  BY <1>2, <1>3 DEF Holder, MovesForward
<1>8. FoundSound(t)'
  BY <1>2, <1>3 DEF Holder, FoundSound, Agree, NoteHolding
<1>9. Holder(t)'
  BY <1>5, <1>6, <1>7, <1>8 DEF Holder
<1>. QED
  BY <1>1, <1>2, <1>3, <1>9, TypesInside, InsideKeeps

LEMMA NoteParsing ==
    ASSUME IndexInv, NEW t \in Threads,
           NoteParse(t) \/ NoteParseFails(t) \/ NoteParseError(t)
    PROVE  IndexInv'
<1>1. pc[t] \in {"note_parse", "note_parse_error"} /\ pc[t] \in Holding
  BY DEF NoteParse, NoteParseFails, NoteParseError, Goto, Holding, NoteHolding
<1>2. note[t] \in Notes /\ lock = t /\ lock # Free /\ Holder(t)
  BY <1>1, AtPlace DEF IndexInv, HasNote, NoteHolding
<1>3. clock[note[t]] \in Nat /\ 0 \in Times
  BY <1>2, BoundsAssumption DEF IndexInv, TypeOK, Contents, Times
<1>4. CASE NoteParse(t)
  <2>1. /\ newRows' = RowsOf(note[t], disk[note[t]])
        /\ UNCHANGED <<disk, clock, rows, handles, lock, note, todo, seen, opened,
                       step, saved, depth, failed, faults, before, calm, damaged>>
    BY <1>4 DEF NoteParse, diskVars, syncVars
  <2>2. PICK to \in {"note_apply", "note_parse_error"} : pc' = [pc EXCEPT ![t] = to]
    BY <1>4 DEF NoteParse, Goto
  <2>3. /\ newRows' \in Times /\ newRows' <= clock[note[t]]
        /\ newRows' = 0 \/ newRows' >= before["chunks"][note[t]]
    BY <1>2, <2>1, ReadIsRecent
  <2>. QED
    BY <1>1, <2>1, <2>2, <2>3, BeforeApplyKeeps
<1>5. CASE NoteParseFails(t)
  <2>1. /\ pc[t] = "note_parse" /\ pc' = [pc EXCEPT ![t] = "note_parse_error"]
        /\ Fault
        /\ UNCHANGED <<disk, clock, rows, handles, lock, note, todo, seen, opened,
                       newRows, step, saved, depth, failed, before, damaged>>
    BY <1>5 DEF NoteParseFails, Goto, diskVars, syncVars, holderVars
  <2>2. pc'[t] = "note_parse_error"
    BY <2>1 DEF IndexInv, TypeOK
  <2>3. /\ step = 0 /\ depth = 0
        /\ \A u \in Tables : rows["canonical"][u] = before[u]
    BY <1>1, <1>2 DEF Holder, Untouched
  <2>4. /\ Untouched(t)' /\ Undoing(t)' /\ Publishing(t)' /\ Unpublishing(t)'
        /\ Applying(t)'
    BY <2>1, <2>2, <2>3 DEF Untouched, Undoing, Publishing, Unpublishing, Applying
  <2>5. MovesForward(t)'
    BY <1>2, <2>1, <2>2 DEF Holder, MovesForward
  <2>6. FoundSound(t)'
    BY <1>2, <2>1, <2>2 DEF Holder, FoundSound, Agree, NoteHolding
  <2>7. Holder(t)'
    BY <2>4, <2>5, <2>6 DEF Holder
  <2>8. "note_parse_error" \in Holding
    BY DEF Holding, NoteHolding
  <2>. QED
    BY <1>2, <2>1, <2>7, <2>8, TypesInside, InsideKeeps
<1>6. CASE NoteParseError(t)
  <2>1. UNCHANGED <<disk, clock, rows, handles, seen, opened, faults, calm, damaged>>
    BY <1>6 DEF NoteParseError, diskVars, syncVars
  <2>2. CASE disk[note[t]] = 0
    <3>1. /\ pc' = [pc EXCEPT ![t] = "note_apply"] /\ newRows' = 0
          /\ UNCHANGED <<lock, note, todo, step, saved, depth, failed, before>>
      BY <1>6, <2>2 DEF NoteParseError
    <3>2. newRows' \in Times /\ newRows' <= clock[note[t]]
      BY <1>3, <3>1
    <3>. QED
      BY <1>1, <2>1, <3>1, <3>2, BeforeApplyKeeps
  <2>3. CASE disk[note[t]] # 0
    <3>1. NoteReturn(t)
      BY <1>6, <2>3 DEF NoteParseError
    <3>2. depth = 0
      BY <1>1, <1>2 DEF Holder, Untouched
    <3>3. ~damaged => Agree(rows["canonical"]) /\ handles # "staging"
      BY <1>1, <1>2, <3>2, NothingToRestore DEF Holder, FoundSound, NoteHolding
    <3>. QED
      BY <1>2, <2>1, <3>1, <3>3, NoteReturnKeeps
  <2>. QED
    BY <2>2, <2>3
<1>. QED
  BY <1>4, <1>5, <1>6

LEMMA NoteEmbedFailsKeeps ==
    ASSUME IndexInv, NEW t \in Threads, NoteEmbedFails(t) PROVE IndexInv'
<1>1. /\ pc[t] = "note_apply" /\ step = 0 /\ Fault /\ NoteReturn(t)
      /\ UNCHANGED <<disk, clock, rows, handles, seen, opened, damaged>>
  BY DEF NoteEmbedFails, diskVars, syncVars
<1>2. lock = t /\ lock # Free /\ Holder(t)
  BY <1>1, AtPlace DEF Holding, NoteHolding
<1>3. depth = 0
  BY <1>1, <1>2 DEF Holder, Applying, IndexInv, TypeOK
<1>4. ~damaged => Agree(rows["canonical"]) /\ handles # "staging"
  BY <1>1, <1>2, <1>3, NothingToRestore DEF Holder, FoundSound, NoteHolding
<1>. QED
  BY <1>1, <1>2, <1>4, NoteReturnKeeps


(***************************************************************************)
(* _apply_note_records                                                     *)
(***************************************************************************)

\* The part of Applying about the canonical tables, for the handles that the
\* next operation uses.
CommitSoFar(t) ==
    \A i \in 1..3 :
      LET u == NoteOrder[i]
      IN  /\ i <= depth => saved[u] = before[u]
          /\ \A m \in Notes :
               rows["canonical"][u][m] =
                 IF m # note[t] \/ step < 2 * i - 1 THEN before[u][m]
                 ELSE IF step = 2 * i - 1 THEN 0 ELSE newRows

LEMMA CommitSeen ==
    ASSUME IndexInv, NEW t \in Threads, pc[t] = "note_apply",
           EnsureTable = "canonical"
    PROVE  CommitSoFar(t)
<1>1. Holder(t)
  BY AtPlace DEF Holding, NoteHolding
<1>2. CASE handles = "canonical"
  BY <1>1, <1>2 DEF Holder, Applying, CommitSoFar
<1>3. CASE handles = "unset"
  <2>1. ~(step > 0)
    BY <1>1, <1>3 DEF Holder, Applying, Generations
  <2>2. step = 0 /\ depth = 0
    BY <1>1, <2>1 DEF Holder, Applying, IndexInv, TypeOK
  <2>3. \A i \in 1..3 : ~(i <= depth) /\ step < 2 * i - 1
    BY <2>2
  <2>4. \A i \in 1..3 : rows["canonical"][NoteOrder[i]] = before[NoteOrder[i]]
    BY <1>1, <1>3 DEF Holder, Applying
  <2>. QED
    BY <2>3, <2>4 DEF CommitSoFar
<1>. QED
  BY <1>2, <1>3 DEF EnsureTable

\* Which table an operation of the commit is about.
LEMMA CommitStep ==
    ASSUME NEW s \in 0..5, NEW d \in 0..3, 2 * d = s \/ 2 * d = s + 1
    PROVE  /\ (s \div 2) + 1 \in 1..3
           /\ s % 2 = 0 => s = 2 * ((s \div 2) + 1) - 2 /\ d + 1 = (s \div 2) + 1
           /\ s % 2 # 0 => s = 2 * ((s \div 2) + 1) - 1 /\ d = (s \div 2) + 1
<1>1. s \in {0, 1, 2, 3, 4, 5}
  OBVIOUS
<1>. QED
  BY <1>1

LEMMA NoteApplyKeeps ==
    ASSUME IndexInv, NEW t \in Threads, NoteApply(t) PROVE IndexInv'
<1> DEFINE j == (step \div 2) + 1
           first == step % 2 = 0
           table == NoteOrder[j]
           g == EnsureTable
           value == IF first THEN 0 ELSE newRows
<1>1. /\ pc[t] = "note_apply" /\ step < 6 /\ step' = step + 1
      /\ handles' = g
      /\ saved' = IF first THEN [saved EXCEPT ![table] = rows[g][table]] ELSE saved
      /\ depth' = IF first THEN depth + 1 ELSE depth
      /\ rows' = [rows EXCEPT ![g][table][note[t]] = value]
  BY DEF NoteApply
<1>2. UNCHANGED <<disk, clock, lock, pc, note, todo, seen, opened, newRows, failed,
                  faults, before, calm, damaged>>
  BY DEF NoteApply, diskVars, syncVars
<1>3. lock = t /\ Holder(t)
  BY <1>1, AtPlace DEF Holding, NoteHolding
<1>4. note[t] \in Notes
  BY <1>1 DEF IndexInv, HasNote, NoteHolding
<1>5. step \in 0..5 /\ depth \in 0..3 /\ (2 * depth = step \/ 2 * depth = step + 1)
  BY <1>1, <1>3 DEF Holder, Applying, IndexInv, TypeOK
<1>6. /\ j \in 1..3
      /\ first => step = 2 * j - 2 /\ depth = j - 1 /\ depth' = j
      /\ ~first => step = 2 * j - 1 /\ depth = j /\ depth' = j
  BY <1>1, <1>5, CommitStep
<1>7. g = EnsureTable /\ g \in Generations /\ (handles # "unset" => g = handles)
  BY DEF EnsureTable, Generations, IndexInv, TypeOK
<1>8. table = NoteOrder[j] /\ table \in Tables /\ value \in Times
      /\ (first => value = 0) /\ (~first => value = newRows)
  BY <1>6, Orders, BoundsAssumption DEF IndexInv, TypeOK, Times
<1>. HIDE DEF j, first, table, g, value
<1>9. rows \in AllTables /\ saved \in [Tables -> Contents] /\ before \in [Tables -> Contents]
  BY TypesInside
<1>10. /\ rows' \in AllTables
       /\ \A h \in Generations, w \in Tables, m \in Notes :
            rows'[h][w][m] = IF h = g /\ w = table /\ m = note[t] THEN value
                             ELSE rows[h][w][m]
       /\ \A h \in Generations, w \in Tables : h # g \/ w # table => rows'[h][w] = rows[h][w]
  <2>1. rows' = [rows EXCEPT ![g][table][note[t]] = value]
    BY <1>1
  <2>2. /\ rows \in AllTables /\ g \in Generations /\ table \in Tables
        /\ note[t] \in Notes /\ value \in Times
    BY <1>4, <1>7, <1>8, <1>9
  <2>. QED
    BY <2>1, <2>2 DEF AllTables, Contents
<1>11. /\ saved' \in [Tables -> Contents]
       /\ \A w \in Tables : saved'[w] = IF first /\ w = table THEN rows[g][table]
                                        ELSE saved[w]
  BY <1>1, <1>7, <1>8, <1>9 DEF AllTables
<1>12. newRows \in Times /\ newRows <= clock[note[t]]
       /\ (newRows = 0 \/ newRows >= before["chunks"][note[t]])
  BY <1>1, <1>3 DEF Holder, Applying, IndexInv, TypeOK
<1>13. \A n \in Notes : clock[n] \in Int /\ 0 <= clock[n]
  BY DEF IndexInv, TypeOK, Contents, Times
<1>14. \A n \in Notes, u \in Tables :
          /\ saved'[u][n] <= clock[n]
          /\ \A h \in Generations : rows'[h][u][n] <= clock[n]
  <2>1. value <= clock[note[t]]
    BY <1>4, <1>8, <1>12, <1>13
  <2>. QED
    BY <1>7, <1>8, <1>10, <1>11, <2>1 DEF IndexInv, Fresh
<1>15. \A i \in 1..3 : NoteOrder[i] \in Tables /\ (NoteOrder[i] = table => i = j)
  BY <1>6, <1>8, Orders
<1>16. ASSUME g = "canonical" PROVE CommitSoFar(t)'
  <2>1. CommitSoFar(t)
    BY <1>1, <1>7, <1>16, CommitSeen
  <2>2. ASSUME NEW i \in 1..3
        PROVE  /\ i <= depth' => saved'[NoteOrder[i]] = before[NoteOrder[i]]
               /\ \A m \in Notes :
                    rows'["canonical"][NoteOrder[i]][m] =
                      IF m # note[t] \/ step' < 2 * i - 1 THEN before[NoteOrder[i]][m]
                      ELSE IF step' = 2 * i - 1 THEN 0 ELSE newRows
    <3> DEFINE u == NoteOrder[i]
    <3>1. /\ i <= depth => saved[u] = before[u]
          /\ \A m \in Notes :
               rows["canonical"][u][m] =
                 IF m # note[t] \/ step < 2 * i - 1 THEN before[u][m]
                 ELSE IF step = 2 * i - 1 THEN 0 ELSE newRows
      BY <2>1 DEF CommitSoFar
    <3>2. u \in Tables /\ (u = table <=> i = j)
      BY <1>8, <1>15
    <3>. HIDE DEF u
    <3>3. i <= depth' => saved'[u] = before[u]
      <4>1. CASE i = j /\ first
        <5>1. step < 2 * i - 1
          BY <1>6, <4>1
        <5>2. \A m \in Notes : rows["canonical"][u][m] = before[u][m]
          BY <3>1, <5>1
        <5>3. rows["canonical"][u] \in Contents /\ before[u] \in Contents
          BY <1>9, <3>2 DEF AllTables, Generations
        <5>4. rows["canonical"][u] = before[u]
          BY <5>2, <5>3, SameContents
        <5>. QED
          BY <1>11, <1>16, <3>2, <4>1, <5>4
      <4>2. CASE ~(i = j /\ first)
        <5>1. saved'[u] = saved[u]
          BY <1>11, <3>2, <4>2
        <5>2. i <= depth' => i <= depth
          BY <1>5, <1>6, <4>2
        <5>. QED
          BY <3>1, <5>1, <5>2
      <4>. QED
        BY <4>1, <4>2
    <3>4. ASSUME NEW m \in Notes
          PROVE  rows'["canonical"][u][m] =
                   IF m # note[t] \/ step' < 2 * i - 1 THEN before[u][m]
                   ELSE IF step' = 2 * i - 1 THEN 0 ELSE newRows
      <4>1. CASE i = j
        <5>1. /\ rows'["canonical"][u][m] = IF m = note[t] THEN value
                                            ELSE rows["canonical"][u][m]
          BY <1>10, <1>16, <3>2, <4>1 DEF Generations
        <5>2. /\ ~(step' < 2 * i - 1)
              /\ first => step' = 2 * i - 1
              /\ ~first => step' # 2 * i - 1
          BY <1>1, <1>5, <1>6, <4>1
        <5>3. m # note[t] => rows["canonical"][u][m] = before[u][m]
          BY <3>1
        <5>. QED
          BY <1>8, <5>1, <5>2, <5>3
      <4>2. CASE i # j
        <5>1. rows'["canonical"][u][m] = rows["canonical"][u][m]
          BY <1>10, <3>2, <4>2 DEF Generations
        <5>2. /\ step' < 2 * i - 1 <=> step < 2 * i - 1
              /\ step # 2 * i - 1 /\ step' # 2 * i - 1
          BY <1>1, <1>5, <1>6, <4>2
        <5>. QED
          BY <3>1, <5>1, <5>2
      <4>. QED
        BY <4>1, <4>2
    <3>. QED
      BY <3>3, <3>4 DEF u
  <2>. QED
    BY <1>2, <2>2 DEF CommitSoFar
<1>17. ASSUME g = "staging"
       PROVE  \A i \in 1..3 : rows'["canonical"][NoteOrder[i]] = before[NoteOrder[i]]
  <2>1. handles = "staging"
    BY <1>7, <1>17 DEF EnsureTable
  <2>2. \A i \in 1..3 : rows["canonical"][NoteOrder[i]] = before[NoteOrder[i]]
    BY <1>1, <1>3, <2>1 DEF Holder, Applying
  <2>. QED
    BY <1>10, <1>15, <1>17, <2>2 DEF Generations
<1>18. Applying(t)'
  <2>1. 2 * depth' = step' \/ 2 * depth' = step' + 1
    BY <1>1, <1>5, <1>6
  <2>2. handles' \in Generations
    BY <1>1, <1>7
  <2>3. CASE g = "canonical"
    BY <1>1, <1>2, <1>12, <1>16, <2>1, <2>2, <2>3 DEF Applying, CommitSoFar
  <2>4. CASE g = "staging"
    BY <1>1, <1>2, <1>12, <1>17, <2>1, <2>2, <2>4 DEF Applying
  <2>. QED
    BY <1>7, <2>3, <2>4 DEF Generations
<1>19. MovesForward(t)'
  <2>1. \A n \in Notes : \/ rows'["canonical"]["chunks"][n] = before["chunks"][n]
                         \/ rows'["canonical"]["chunks"][n] = 0
                         \/ n = note[t] /\ rows'["canonical"]["chunks"][n] = newRows
    <3>1. CASE g = "canonical"
      BY <1>2, <1>16, <3>1, Orders DEF CommitSoFar
    <3>2. CASE g = "staging"
      BY <1>17, <3>2, Orders
    <3>. QED
      BY <1>7, <3>1, <3>2 DEF Generations
  <2>2. \A n \in Notes : before["chunks"][n] \in Int
    BY <1>9 DEF Contents, Times, Tables
  <2>3. \A n \in Notes : \/ rows'["canonical"]["chunks"][n] = 0
                         \/ rows'["canonical"]["chunks"][n] >= before["chunks"][n]
    BY <1>12, <2>1, <2>2
  <2>. QED
    BY <1>1, <1>2, <2>3 DEF MovesForward
<1>20. Untouched(t)' /\ Undoing(t)' /\ Publishing(t)' /\ Unpublishing(t)'
  BY <1>1, <1>2 DEF Untouched, Undoing, Publishing, Unpublishing
<1>21. FoundSound(t)'
  BY <1>1, <1>2, <1>3, <1>7 DEF Holder, FoundSound, Agree, NoteHolding, EnsureTable
<1>22. Holder(t)'
  BY <1>18, <1>19, <1>20, <1>21 DEF Holder
<1>23. pc[t] \in Holding /\ pc' = [pc EXCEPT ![t] = pc[t]]
  BY <1>1, <1>2, <1>3, HolderStays DEF Holding, NoteHolding
<1>24. handles' \in Generations \cup {"unset"} /\ step' \in 0..6 /\ depth' \in 0..3
  BY <1>1, <1>5, <1>6, <1>7
<1>25. /\ newRows' \in Times /\ failed' \in BOOLEAN /\ damaged' \in BOOLEAN
       /\ todo' \in [Threads -> SUBSET Notes]
  BY <1>2, TypesInside
<1>. QED
  BY <1>2, <1>3, <1>4, <1>10, <1>11, <1>14, <1>22, <1>23, <1>24, <1>25, InsideKeeps


LEMMA NoteApplyFailsKeeps ==
    ASSUME IndexInv, NEW t \in Threads, NoteApplyFails(t) PROVE IndexInv'
<1>1. /\ pc[t] = "note_apply" /\ pc' = [pc EXCEPT ![t] = "note_undo"] /\ Fault
      /\ UNCHANGED <<disk, clock, rows, handles, lock, note, todo, seen, opened,
                     newRows, step, saved, depth, failed, before, damaged>>
  BY DEF NoteApplyFails, Goto, diskVars, syncVars, holderVars
<1>2. lock = t /\ Holder(t) /\ "note_undo" \in Holding
  BY <1>1, AtPlace DEF Holding, NoteHolding
<1>3. note[t] \in Notes /\ pc'[t] = "note_undo"
  BY <1>1 DEF IndexInv, HasNote, NoteHolding, TypeOK
<1>4. step \in 0..6 /\ depth \in 0..3 /\ (2 * depth = step \/ 2 * depth = step + 1)
  BY <1>1, <1>2 DEF Holder, Applying, IndexInv, TypeOK
<1>5. Undoing(t)'
  <2>1. depth > 0 => handles \in Generations
    <3>1. depth > 0 => step > 0
      BY <1>4
    <3>. QED
      BY <1>1, <1>2, <3>1 DEF Holder, Applying
  <2>2. ASSUME NEW i \in 1..3
        PROVE  /\ i <= depth /\ handles = "canonical" =>
                    saved[NoteOrder[i]] = before[NoteOrder[i]]
               /\ i > depth => rows["canonical"][NoteOrder[i]] = before[NoteOrder[i]]
    <3> DEFINE u == NoteOrder[i]
    <3>1. IF handles = "canonical"
          THEN /\ i <= depth => saved[u] = before[u]
               /\ \A m \in Notes :
                    rows["canonical"][u][m] =
                      IF m # note[t] \/ step < 2 * i - 1 THEN before[u][m]
                      ELSE IF step = 2 * i - 1 THEN 0 ELSE newRows
          ELSE rows["canonical"][u] = before[u]
      BY <1>1, <1>2 DEF Holder, Applying
    <3>2. rows["canonical"][u] \in Contents /\ before[u] \in Contents
      BY Orders DEF IndexInv, TypeOK, Generations
    <3>. HIDE DEF u
    <3>3. i > depth => step < 2 * i - 1
      BY <1>4
    <3>4. i > depth /\ handles = "canonical" => rows["canonical"][u] = before[u]
      BY <3>1, <3>2, <3>3, SameContents
    <3>. QED
      BY <3>1, <3>4 DEF u
  <2>. QED
    BY <1>1, <2>1, <2>2 DEF Undoing
<1>6. Untouched(t)' /\ Applying(t)' /\ Publishing(t)' /\ Unpublishing(t)'
  BY <1>3 DEF Untouched, Applying, Publishing, Unpublishing
<1>7. MovesForward(t)'
  BY <1>1, <1>2, <1>3 DEF Holder, MovesForward
<1>8. FoundSound(t)'
  BY <1>1, <1>2, <1>3 DEF Holder, FoundSound, Agree, NoteHolding
<1>9. Holder(t)'
  BY <1>5, <1>6, <1>7, <1>8 DEF Holder
<1>. QED
  BY <1>1, <1>2, <1>3, <1>9, TypesInside, InsideKeeps

LEMMA NoteUndoing ==
    ASSUME IndexInv, NEW t \in Threads, NoteUndo(t) \/ NoteUndoFails(t)
    PROVE  IndexInv'
<1>1. /\ pc[t] = "note_undo" /\ depth > 0 /\ depth' = depth - 1
      /\ UNCHANGED <<disk, clock, handles, lock, pc, note, todo, seen, opened,
                     newRows, step, saved, failed, before>>
      /\ Fault \/ UNCHANGED <<faults, calm>>
  BY DEF NoteUndo, NoteUndoFails, Undo, diskVars, syncVars
<1>2. lock = t /\ Holder(t) /\ pc[t] \in Holding
  BY <1>1, AtPlace DEF Holding, NoteHolding
<1>3. note[t] \in Notes
  BY <1>1 DEF IndexInv, HasNote, NoteHolding
<1>4. depth \in 1..3 /\ depth' \in 0..3 /\ handles \in Generations
  BY <1>1, <1>2 DEF Holder, Undoing, IndexInv, TypeOK
<1>5. PICK u \in Tables : u = NoteOrder[depth]
  BY <1>4, Orders
<1>6. /\ handles = "canonical" => saved[u] = before[u]
      /\ \A i \in 1..3 : i <= depth /\ handles = "canonical" =>
           saved[NoteOrder[i]] = before[NoteOrder[i]]
      /\ \A i \in 1..3 : ~damaged /\ i > depth =>
           rows["canonical"][NoteOrder[i]] = before[NoteOrder[i]]
  BY <1>1, <1>2, <1>4, <1>5 DEF Holder, Undoing
<1>7. /\ rows \in AllTables /\ saved \in [Tables -> Contents]
      /\ before \in [Tables -> Contents]
  BY TypesInside
<1>8. /\ rows' \in AllTables
      /\ \A h \in Generations, w \in Tables :
           rows'[h][w] = rows[h][w] \/ (h = handles /\ w = u /\ rows'[h][w] = saved[u])
      /\ damaged' \/ rows'[handles][u] = saved[u]
      /\ damaged' \in BOOLEAN /\ (~damaged' => ~damaged)
  <2>1. CASE NoteUndo(t)
    <3>1. rows' = [rows EXCEPT ![handles][u] = saved[u]] /\ damaged' = damaged
      BY <1>5, <2>1 DEF NoteUndo
    <3>2. damaged \in BOOLEAN
      BY TypesInside
    <3>. QED
      BY <1>4, <1>7, <3>1, <3>2 DEF AllTables
  <2>2. CASE NoteUndoFails(t)
    BY <1>7, <2>2 DEF NoteUndoFails
  <2>. QED
    BY <2>1, <2>2
<1>9. \A n \in Notes, w \in Tables :
         /\ saved'[w][n] <= clock[n]
         /\ \A g \in Generations : rows'[g][w][n] <= clock[n]
  BY <1>1, <1>8 DEF IndexInv, Fresh
<1>10. Undoing(t)'
  <2>1. \A i \in 1..3 : i <= depth' => i <= depth
    BY <1>1, <1>4
  <2>2. \A i \in 1..3 : i <= depth' /\ handles = "canonical" =>
                          saved[NoteOrder[i]] = before[NoteOrder[i]]
    BY <1>6, <2>1
  <2>3. ASSUME NEW i \in 1..3, ~damaged', i > depth'
        PROVE  rows'["canonical"][NoteOrder[i]] = before[NoteOrder[i]]
    <3>1. NoteOrder[i] \in Tables /\ ~damaged
      BY <1>8, <2>3, Orders
    <3>2. handles = "canonical"
      BY <1>1, <1>2, <1>4, <3>1 DEF Holder, FoundSound, NoteHolding, Generations
    <3>3. CASE i = depth
      BY <1>5, <1>6, <1>8, <2>3, <3>2, <3>3
    <3>4. CASE i # depth
      <4>1. i > depth
        BY <1>1, <1>4, <2>3, <3>4
      <4>2. NoteOrder[i] # u
        BY <1>4, <1>5, <3>4, Orders
      <4>. QED
        BY <1>6, <1>8, <3>1, <4>1, <4>2 DEF Generations
    <3>. QED
      BY <3>3, <3>4
  <2>. QED
    BY <1>1, <1>4, <2>2, <2>3 DEF Undoing
<1>11. Untouched(t)' /\ Applying(t)' /\ Publishing(t)' /\ Unpublishing(t)'
  BY <1>1 DEF Untouched, Applying, Publishing, Unpublishing
<1>12. MovesForward(t)'
  <2>1. \/ rows'["canonical"]["chunks"] = rows["canonical"]["chunks"]
        \/ rows'["canonical"]["chunks"] = before["chunks"]
    BY <1>6, <1>8 DEF Generations, Tables
  <2>2. \A n \in Notes : before["chunks"][n] \in Int
    BY <1>7 DEF Contents, Times, Tables
  <2>3. \A n \in Notes : \/ rows["canonical"]["chunks"][n] = 0
                         \/ rows["canonical"]["chunks"][n] >= before["chunks"][n]
    BY <1>2 DEF Holder, MovesForward
  <2>4. \A n \in Notes : before["chunks"][n] >= before["chunks"][n]
    BY <2>2
  <2>. QED
    BY <1>1, <2>1, <2>3, <2>4 DEF MovesForward
<1>13. FoundSound(t)'
  BY <1>1, <1>2, <1>8 DEF Holder, FoundSound, Agree, NoteHolding
<1>14. Holder(t)'
  BY <1>10, <1>11, <1>12, <1>13 DEF Holder
<1>15. pc' = [pc EXCEPT ![t] = pc[t]]
  BY <1>1, <1>2, HolderStays
<1>16. /\ newRows' \in Times /\ failed' \in BOOLEAN /\ step' \in 0..6
       /\ todo' \in [Threads -> SUBSET Notes] /\ saved' \in [Tables -> Contents]
       /\ handles' \in Generations \cup {"unset"}
  BY <1>1, TypesInside
<1>. QED
  BY <1>1, <1>2, <1>3, <1>4, <1>8, <1>9, <1>14, <1>15, <1>16, InsideKeeps

LEMMA NoteDoneKeeps ==
    ASSUME IndexInv, NEW t \in Threads, NoteDone(t) PROVE IndexInv'
<1>1. /\ NoteReturn(t)
      /\ UNCHANGED <<disk, clock, rows, handles, seen, opened, faults, calm, damaged>>
      /\ pc[t] \in {"note_apply", "note_undo"}
  BY DEF NoteDone, diskVars, syncVars
<1>2. lock = t /\ lock # Free /\ Holder(t)
  BY <1>1, AtPlace DEF Holding, NoteHolding
<1>3. ASSUME ~damaged PROVE Agree(rows["canonical"]) /\ handles # "staging"
  <2>1. Agree(before) /\ handles # "staging"
    BY <1>1, <1>2, <1>3 DEF Holder, FoundSound, NoteHolding
  <2>2. CASE pc[t] = "note_undo" /\ depth = 0
    BY <1>2, <1>3, <2>1, <2>2, NothingToRestore
  <2>3. CASE pc[t] = "note_apply" /\ step = 6
    <3>1. handles = "canonical"
      BY <1>2, <2>1, <2>3 DEF Holder, Applying, Generations
    <3>2. \A i \in 1..3 : ~(step < 2 * i - 1) /\ step # 2 * i - 1
      BY <2>3
    <3>3. \A i \in 1..3 : \A m \in Notes :
             rows["canonical"][NoteOrder[i]][m] =
               IF m # note[t] THEN before[NoteOrder[i]][m] ELSE newRows
      BY <1>2, <2>3, <3>1, <3>2 DEF Holder, Applying
    <3>4. \A u \in Tables, m \in Notes :
             rows["canonical"][u][m] = IF m # note[t] THEN before[u][m] ELSE newRows
      BY <3>3, Orders
    <3>. QED
      BY <2>1, <3>4 DEF Agree, Tables
  <2>. QED
    BY <2>2, <2>3 DEF NoteDone
<1>. QED
  BY <1>1, <1>2, <1>3, NoteReturnKeeps


(***************************************************************************)
(* full_reindex                                                            *)
(***************************************************************************)

\* The staging tables are emptied, filled or given up: the canonical ones
\* are as they were.
LEMMA StagingKeeps ==
    ASSUME IndexInv, NEW t \in Threads, pc[t] \in {"full_reset", "full_parse", "full_giveup"},
           NEW to \in {"full_parse", "full_giveup", "full_publish", "full_restore"},
           pc' = [pc EXCEPT ![t] = to],
           UNCHANGED <<disk, clock, lock, note, seen, opened, newRows, step, saved,
                       depth, before, damaged>>,
           rows' \in AllTables, rows'["canonical"] = rows["canonical"],
           handles' \in Generations \cup {"unset"}, failed' \in BOOLEAN,
           todo' \in [Threads -> SUBSET Notes],
           Fault \/ UNCHANGED <<faults, calm>>,
           \A u \in Tables, n \in Notes : rows'["staging"][u][n] <= clock[n],
           to = "full_publish" => Agree(rows'["staging"]),
           to \in {"full_parse", "full_publish"} =>
             \A n \in Notes : \/ rows'["staging"]["chunks"][n] = 0
                              \/ rows'["staging"]["chunks"][n] >= before["chunks"][n]
    PROVE  IndexInv'
<1>1. lock = t /\ Holder(t)
  BY AtPlace DEF Holding, FullHolding
<1>2. to \in Holding /\ to \notin NoteHolding /\ to # "full_reset" /\ to # "note_exists"
  BY DEF Holding, FullHolding, NoteHolding
<1>3. pc'[t] = to
  BY DEF IndexInv, TypeOK
<1>4. /\ step = 0 /\ depth = 0
      /\ \A u \in Tables : rows["canonical"][u] = before[u]
  BY <1>1 DEF Holder, Untouched
<1>5. Untouched(t)' /\ Applying(t)' /\ Undoing(t)'
  BY <1>2, <1>3, <1>4 DEF Untouched, Applying, Undoing, NoteHolding
<1>6. Publishing(t)' /\ Unpublishing(t)'
  <2>1. \A i \in 1..3 : ~(i <= depth) /\ PublishOrder[i] \in Tables
    BY <1>4, Orders
  <2>2. Agree(rows["staging"])' <=> Agree(rows'["staging"])
    BY DEF Agree
  <2>. QED
    BY <1>3, <1>4, <2>1, <2>2 DEF Publishing, Unpublishing
<1>7. MovesForward(t)'
  BY <1>1, <1>3 DEF Holder, MovesForward
<1>8. FoundSound(t)'
  BY <1>1, <1>2, <1>3 DEF Holder, FoundSound, Agree
<1>9. Holder(t)'
  BY <1>5, <1>6, <1>7, <1>8 DEF Holder
<1>10. \A n \in Notes, u \in Tables :
          /\ saved'[u][n] <= clock[n]
          /\ \A g \in Generations : rows'[g][u][n] <= clock[n]
  BY DEF IndexInv, Fresh, Generations
<1>11. /\ newRows' \in Times /\ step' \in 0..6 /\ depth' \in 0..3
       /\ damaged' \in BOOLEAN /\ saved' \in [Tables -> Contents]
  BY TypesInside
<1>. QED
  BY <1>1, <1>2, <1>9, <1>10, <1>11, InsideKeeps

LEMMA FullStaging ==
    ASSUME IndexInv, NEW t \in Threads,
           \/ FullReset(t) \/ FullGraph(t) \/ FullGiveUp(t) \/ FullStagingFails(t)
           \/ \E n \in Notes : FullParse(t, n)
    PROVE  IndexInv'
<1>1. /\ pc[t] \in {"full_reset", "full_parse", "full_giveup"}
      /\ UNCHANGED <<disk, clock, lock, note, seen, opened, newRows, step, saved,
                     depth, before, damaged>>
      /\ Fault \/ UNCHANGED <<faults, calm>>
  BY DEF FullReset, FullGraph, FullGiveUp, FullStagingFails, FullParse, Goto, diskVars,
     syncVars, holderVars
<1>2. lock = t /\ Holder(t)
  BY <1>1, AtPlace DEF Holding, FullHolding
<1>3. rows \in AllTables /\ handles \in Generations \cup {"unset"} /\ failed \in BOOLEAN
      /\ todo \in [Threads -> SUBSET Notes]
  BY TypesInside
<1>4. \A n \in Notes : 0 <= clock[n]
  BY DEF IndexInv, TypeOK, Contents, Times
<1>5. \A u \in Tables, n \in Notes : rows["staging"][u][n] <= clock[n]
  BY DEF IndexInv, Fresh, Generations
<1>6. CASE FullReset(t)
  <2>1. /\ pc' = [pc EXCEPT ![t] = "full_parse"] /\ handles' = "staging"
        /\ rows' = [rows EXCEPT !["staging"] = [u \in Tables |-> NoRows]]
        /\ failed' = failed /\ todo' = todo
    BY <1>6 DEF FullReset, Goto, holderVars
  <2>2. [u \in Tables |-> NoRows] \in [Tables -> Contents]
    BY EmptyTable
  <2>3. /\ rows' \in AllTables /\ rows'["canonical"] = rows["canonical"]
        /\ \A u \in Tables : rows'["staging"][u] = NoRows
    BY <1>3, <2>1, <2>2 DEF AllTables, Generations
  <2>4. \A u \in Tables, n \in Notes : rows'["staging"][u][n] = 0
    BY <2>3, EmptyTable
  <2>5. handles' \in Generations \cup {"unset"}
    BY <2>1 DEF Generations
  <2>. QED
    BY <1>1, <1>3, <1>4, <2>1, <2>3, <2>4, <2>5, StagingKeeps DEF Tables
<1>7. CASE FullGraph(t)
  <2>1. /\ pc[t] = "full_parse" /\ pc' = [pc EXCEPT ![t] = "full_publish"]
        /\ rows' = [rows EXCEPT !["staging"] =
                        [u \in Tables |-> rows["staging"]["chunks"]]]
        /\ failed' = failed /\ todo' = todo /\ handles' = handles
    BY <1>7 DEF FullGraph, Goto, holderVars
  <2>2. [u \in Tables |-> rows["staging"]["chunks"]] \in [Tables -> Contents]
    BY <1>3 DEF AllTables, Generations, Tables
  <2>3. /\ rows' \in AllTables /\ rows'["canonical"] = rows["canonical"]
        /\ \A u \in Tables : rows'["staging"][u] = rows["staging"]["chunks"]
    BY <1>3, <2>1, <2>2 DEF AllTables, Generations
  <2>4. Agree(rows'["staging"])
    BY <2>3 DEF Agree, Tables
  <2>5. \A u \in Tables, n \in Notes : rows'["staging"][u][n] <= clock[n]
    BY <1>5, <2>3 DEF Tables
  <2>6. \A n \in Notes : \/ rows'["staging"]["chunks"][n] = 0
                         \/ rows'["staging"]["chunks"][n] >= before["chunks"][n]
    BY <1>2, <2>1, <2>3 DEF Holder, MovesForward, Tables
  <2>. QED
    BY <1>1, <1>3, <2>1, <2>3, <2>4, <2>5, <2>6, StagingKeeps
<1>8. CASE FullGiveUp(t) \/ FullStagingFails(t)
  <2>1. /\ pc' = [pc EXCEPT ![t] = "full_giveup"] \/ pc' = [pc EXCEPT ![t] = "full_restore"]
        /\ todo' = [todo EXCEPT ![t] = {}]
        /\ UNCHANGED <<rows, handles, failed>>
    BY <1>8 DEF FullGiveUp, FullStagingFails, Goto, holderVars
  <2>2. todo' \in [Threads -> SUBSET Notes]
    BY <1>3, <2>1
  <2>. QED
    BY <1>1, <1>3, <1>5, <2>1, <2>2, StagingKeeps
<1>9. ASSUME NEW n \in Notes, FullParse(t, n) PROVE IndexInv'
  <2>1. /\ pc[t] = "full_parse" /\ pc' = pc /\ handles' = handles
        /\ todo' = [todo EXCEPT ![t] = @ \ {n}]
    BY <1>9 DEF FullParse
  <2>2. pc' = [pc EXCEPT ![t] = "full_parse"]
    BY <1>2, <2>1, HolderStays DEF Holding, FullHolding
  <2>3. todo' \in [Threads -> SUBSET Notes]
    BY <1>3, <2>1
  <2>4. failed' \in BOOLEAN
    <3>1. failed' = (failed \/ disk[n] = 0) \/ failed' = TRUE
      BY <1>9 DEF FullParse
    <3>. QED
      BY <3>1
  <2>5. \/ rows' = rows
        \/ rows' = [rows EXCEPT !["staging"]["chunks"][n] = RowsOf(n, disk[n])]
    BY <1>9 DEF FullParse
  <2>6. PICK v : v = RowsOf(n, disk[n])
    OBVIOUS
  <2>7. v \in Times /\ v <= clock[n] /\ (v = 0 \/ v >= before["chunks"][n])
    BY <2>6, ReadIsRecent
  <2>8. /\ rows' \in AllTables /\ rows'["canonical"] = rows["canonical"]
        /\ \A u \in Tables, m \in Notes :
             \/ rows'["staging"][u][m] = rows["staging"][u][m]
             \/ m = n /\ rows'["staging"][u][m] = v
    <3>1. CASE rows' = rows
      BY <1>3, <3>1
    <3>2. CASE rows' = [rows EXCEPT !["staging"]["chunks"][n] = v]
      BY <1>3, <2>7, <3>2 DEF AllTables, Contents, Generations, Tables
    <3>. QED
      BY <2>5, <2>6, <3>1, <3>2
  <2>9. \A u \in Tables, m \in Notes : rows'["staging"][u][m] <= clock[m]
    BY <1>5, <2>7, <2>8
  <2>10. \A m \in Notes : \/ rows'["staging"]["chunks"][m] = 0
                          \/ rows'["staging"]["chunks"][m] >= before["chunks"][m]
    <3>1. \A m \in Notes : \/ rows["staging"]["chunks"][m] = 0
                           \/ rows["staging"]["chunks"][m] >= before["chunks"][m]
      BY <1>2, <2>1 DEF Holder, MovesForward
    <3>. QED
      BY <2>7, <2>8, <3>1 DEF Tables
  <2>. QED
    BY <1>1, <1>3, <2>1, <2>2, <2>3, <2>4, <2>8, <2>9, <2>10, StagingKeeps
<1>. QED
  BY <1>6, <1>7, <1>8, <1>9


LEMMA FullPublishKeeps ==
    ASSUME IndexInv, NEW t \in Threads, FullPublish(t) PROVE IndexInv'
<1> DEFINE j == step + 1
           u == PublishOrder[j]
<1>1. /\ pc[t] = "full_publish" /\ step < 3 /\ step' = j /\ depth' = depth + 1
      /\ saved' = [saved EXCEPT ![u] = rows["canonical"][u]]
      /\ rows' = [rows EXCEPT !["canonical"][u] = rows["staging"][u]]
      /\ UNCHANGED <<disk, clock, handles, lock, pc, note, todo, seen, opened, newRows,
                     failed, faults, before, calm, damaged>>
  BY DEF FullPublish, diskVars, syncVars
<1>2. lock = t /\ Holder(t) /\ pc[t] \in Holding /\ pc[t] \notin NoteHolding
  BY <1>1, AtPlace DEF Holding, FullHolding, NoteHolding
<1>3. /\ step = depth /\ Agree(rows["staging"])
      /\ \A i \in 1..3 :
           IF i <= depth
           THEN /\ saved[PublishOrder[i]] = before[PublishOrder[i]]
                /\ rows["canonical"][PublishOrder[i]] = rows["staging"][PublishOrder[i]]
           ELSE rows["canonical"][PublishOrder[i]] = before[PublishOrder[i]]
  BY <1>1, <1>2 DEF Holder, Publishing
<1>4. /\ j \in 1..3 /\ depth' = j /\ depth' \in 0..3 /\ step' \in 0..6
      /\ ~(j <= depth) /\ \A i \in 1..3 : i <= j <=> i <= depth \/ i = j
  BY <1>1, <1>3 DEF IndexInv, TypeOK
<1>5. u = PublishOrder[j] /\ u \in Tables
      /\ \A i \in 1..3 : PublishOrder[i] \in Tables /\ (PublishOrder[i] = u <=> i = j)
  BY <1>4, Orders
<1>. HIDE DEF j, u
<1>6. rows \in AllTables /\ saved \in [Tables -> Contents]
  BY TypesInside
<1>7. /\ rows' \in AllTables /\ rows'["staging"] = rows["staging"]
      /\ \A w \in Tables : rows'["canonical"][w] =
                             IF w = u THEN rows["staging"][w] ELSE rows["canonical"][w]
  BY <1>1, <1>5, <1>6 DEF AllTables, Generations
<1>8. /\ saved' \in [Tables -> Contents]
      /\ \A w \in Tables : saved'[w] = IF w = u THEN rows["canonical"][w] ELSE saved[w]
  BY <1>1, <1>5, <1>6 DEF AllTables, Generations
<1>9. Publishing(t)'
  <2>1. \A i \in 1..3 :
           IF i <= j
           THEN /\ saved'[PublishOrder[i]] = before[PublishOrder[i]]
                /\ rows'["canonical"][PublishOrder[i]] = rows["staging"][PublishOrder[i]]
           ELSE rows'["canonical"][PublishOrder[i]] = before[PublishOrder[i]]
    BY <1>3, <1>4, <1>5, <1>7, <1>8
  <2>. QED
    BY <1>1, <1>3, <1>4, <1>7, <2>1 DEF Publishing, Agree
<1>10. MovesForward(t)'
  <2>1. \/ rows'["canonical"]["chunks"] = rows["canonical"]["chunks"]
        \/ rows'["canonical"]["chunks"] = rows["staging"]["chunks"]
    BY <1>7 DEF Tables
  <2>. QED
    BY <1>1, <1>2, <1>7, <2>1 DEF Holder, MovesForward
<1>11. Untouched(t)' /\ Applying(t)' /\ Undoing(t)' /\ Unpublishing(t)'
  BY <1>1 DEF Untouched, Applying, Undoing, Unpublishing
<1>12. FoundSound(t)'
  BY <1>1, <1>2 DEF Holder, FoundSound, Agree
<1>13. Holder(t)'
  BY <1>9, <1>10, <1>11, <1>12 DEF Holder
<1>14. \A n \in Notes, w \in Tables :
          /\ saved'[w][n] <= clock[n]
          /\ \A g \in Generations : rows'[g][w][n] <= clock[n]
  BY <1>7, <1>8 DEF IndexInv, Fresh, Generations
<1>15. pc' = [pc EXCEPT ![t] = pc[t]]
  BY <1>1, <1>2, HolderStays
<1>16. /\ newRows' \in Times /\ failed' \in BOOLEAN /\ damaged' \in BOOLEAN
       /\ todo' \in [Threads -> SUBSET Notes]
       /\ handles' \in Generations \cup {"unset"}
  BY <1>1, TypesInside
<1>. QED
  BY <1>1, <1>2, <1>4, <1>7, <1>8, <1>13, <1>14, <1>15, <1>16, InsideKeeps

\* A publication fails, or its rollback is at its end.
LEMMA FullMoves ==
    ASSUME IndexInv, NEW t \in Threads, FullPublishFails(t) \/ FullUndone(t)
    PROVE  IndexInv'
<1>1. /\ UNCHANGED <<disk, clock, rows, handles, lock, note, todo, seen, opened,
                     newRows, step, saved, depth, failed, before, damaged>>
      /\ Fault \/ UNCHANGED <<faults, calm>>
  BY DEF FullPublishFails, FullUndone, diskVars, syncVars, holderVars
<1>2. PICK to \in {"full_undo", "full_restore"} :
         /\ pc' = [pc EXCEPT ![t] = to]
         /\ \/ pc[t] = "full_publish" /\ to = "full_undo"
            \/ pc[t] = "full_undo" /\ depth = 0
  BY DEF FullPublishFails, FullUndone, Goto
<1>3. lock = t /\ Holder(t) /\ to \in Holding /\ to \notin NoteHolding
  BY <1>2, AtPlace DEF Holding, FullHolding, NoteHolding
<1>4. pc'[t] = to
  BY <1>2 DEF IndexInv, TypeOK
<1>5. Unpublishing(t)'
  <2>1. \A i \in 1..3 :
           /\ i <= depth => saved[PublishOrder[i]] = before[PublishOrder[i]]
           /\ ~damaged /\ i > depth =>
                rows["canonical"][PublishOrder[i]] = before[PublishOrder[i]]
    <3>1. \A i \in 1..3 : i > depth => ~(i <= depth)
      BY DEF IndexInv, TypeOK
    <3>. QED
      BY <1>2, <1>3, <3>1 DEF Holder, Publishing, Unpublishing
  <2>. QED
    BY <1>1, <1>2, <1>4, <2>1 DEF Unpublishing
<1>6. Untouched(t)' /\ Applying(t)' /\ Undoing(t)' /\ Publishing(t)'
  BY <1>4 DEF Untouched, Applying, Undoing, Publishing
<1>7. MovesForward(t)' /\ FoundSound(t)'
  BY <1>1, <1>3, <1>4 DEF Holder, MovesForward, FoundSound, Agree
<1>8. Holder(t)'
  BY <1>5, <1>6, <1>7 DEF Holder
<1>. QED
  BY <1>1, <1>2, <1>3, <1>8, TypesInside, InsideKeeps

LEMMA FullUndoing ==
    ASSUME IndexInv, NEW t \in Threads, FullUndo(t) \/ FullUndoFails(t)
    PROVE  IndexInv'
<1>1. /\ pc[t] = "full_undo" /\ depth > 0 /\ depth' = depth - 1
      /\ UNCHANGED <<disk, clock, handles, lock, pc, note, todo, seen, opened,
                     newRows, step, saved, failed, before>>
      /\ Fault \/ UNCHANGED <<faults, calm>>
  BY DEF FullUndo, FullUndoFails, Undo, diskVars, syncVars
<1>2. lock = t /\ Holder(t) /\ pc[t] \in Holding /\ pc[t] \notin NoteHolding
  BY <1>1, AtPlace DEF Holding, FullHolding, NoteHolding
<1>3. depth \in 1..3 /\ depth' \in 0..3
  BY <1>1 DEF IndexInv, TypeOK
<1>4. PICK u \in Tables : u = PublishOrder[depth]
  BY <1>3, Orders
<1>5. /\ saved[u] = before[u]
      /\ \A i \in 1..3 : i <= depth => saved[PublishOrder[i]] = before[PublishOrder[i]]
      /\ \A i \in 1..3 : ~damaged /\ i > depth =>
           rows["canonical"][PublishOrder[i]] = before[PublishOrder[i]]
  <2>1. \A i \in 1..3 :
           /\ i <= depth => saved[PublishOrder[i]] = before[PublishOrder[i]]
           /\ ~damaged /\ i > depth =>
                rows["canonical"][PublishOrder[i]] = before[PublishOrder[i]]
    BY <1>1, <1>2 DEF Holder, Unpublishing
  <2>. QED
    BY <1>3, <1>4, <2>1
<1>6. /\ rows \in AllTables /\ saved \in [Tables -> Contents]
      /\ before \in [Tables -> Contents]
  BY TypesInside
<1>7. /\ rows' \in AllTables /\ rows'["staging"] = rows["staging"]
      /\ \A w \in Tables : \/ rows'["canonical"][w] = rows["canonical"][w]
                           \/ w = u /\ rows'["canonical"][w] = before[u]
      /\ damaged' \/ rows'["canonical"][u] = before[u]
      /\ damaged' \in BOOLEAN /\ (~damaged' => ~damaged)
  <2>1. CASE FullUndo(t)
    <3>1. rows' = [rows EXCEPT !["canonical"][u] = saved[u]] /\ damaged' = damaged
      BY <1>4, <2>1 DEF FullUndo
    <3>2. damaged \in BOOLEAN
      BY TypesInside
    <3>. QED
      BY <1>5, <1>6, <3>1, <3>2 DEF AllTables, Generations
  <2>2. CASE FullUndoFails(t)
    BY <1>6, <2>2 DEF FullUndoFails
  <2>. QED
    BY <2>1, <2>2
<1>8. \A n \in Notes, w \in Tables :
         /\ saved'[w][n] <= clock[n]
         /\ \A g \in Generations : rows'[g][w][n] <= clock[n]
  BY <1>1, <1>7 DEF IndexInv, Fresh, Generations
<1>9. Unpublishing(t)'
  <2>1. \A i \in 1..3 : i <= depth' => i <= depth
    BY <1>1, <1>3
  <2>2. \A i \in 1..3 : i <= depth' => saved[PublishOrder[i]] = before[PublishOrder[i]]
    BY <1>5, <2>1
  <2>3. ASSUME NEW i \in 1..3, ~damaged', i > depth'
        PROVE  rows'["canonical"][PublishOrder[i]] = before[PublishOrder[i]]
    <3>1. PublishOrder[i] \in Tables /\ ~damaged
      BY <1>7, <2>3, Orders
    <3>2. CASE i = depth
      BY <1>4, <1>7, <2>3, <3>2
    <3>3. CASE i # depth
      <4>1. i > depth
        BY <1>1, <1>3, <2>3, <3>3
      <4>2. PublishOrder[i] # u
        BY <1>3, <1>4, <3>3, Orders
      <4>. QED
        BY <1>5, <1>7, <3>1, <4>1, <4>2
    <3>. QED
      BY <3>2, <3>3
  <2>. QED
    BY <1>1, <2>2, <2>3 DEF Unpublishing
<1>10. Untouched(t)' /\ Applying(t)' /\ Undoing(t)' /\ Publishing(t)'
  BY <1>1 DEF Untouched, Applying, Undoing, Publishing
<1>11. MovesForward(t)'
  <2>1. \/ rows'["canonical"]["chunks"] = rows["canonical"]["chunks"]
        \/ rows'["canonical"]["chunks"] = before["chunks"]
    BY <1>7 DEF Tables
  <2>2. \A n \in Notes : before["chunks"][n] \in Int
    BY <1>6 DEF Contents, Times, Tables
  <2>3. \A n \in Notes : before["chunks"][n] >= before["chunks"][n]
    BY <2>2
  <2>4. \A n \in Notes : \/ rows["canonical"]["chunks"][n] = 0
                         \/ rows["canonical"]["chunks"][n] >= before["chunks"][n]
    BY <1>2 DEF Holder, MovesForward
  <2>. QED
    BY <1>1, <2>1, <2>3, <2>4 DEF MovesForward
<1>12. FoundSound(t)'
  BY <1>1, <1>2, <1>7 DEF Holder, FoundSound, Agree
<1>13. Holder(t)'
  BY <1>9, <1>10, <1>11, <1>12 DEF Holder
<1>14. pc' = [pc EXCEPT ![t] = pc[t]]
  BY <1>1, <1>2, HolderStays
<1>15. /\ newRows' \in Times /\ failed' \in BOOLEAN /\ step' \in 0..6
       /\ todo' \in [Threads -> SUBSET Notes] /\ saved' \in [Tables -> Contents]
       /\ handles' \in Generations \cup {"unset"}
  BY <1>1, TypesInside
<1>. QED
  BY <1>1, <1>2, <1>3, <1>7, <1>8, <1>13, <1>14, <1>15, InsideKeeps

\* full_reindex gives the lock back.
LEMMA FullReturns ==
    ASSUME IndexInv, NEW t \in Threads,
           FullFailed(t) \/ FullRestoreFails(t) \/ FullCompleted(t)
    PROVE  IndexInv'
<1>1. /\ Release(t) /\ UNCHANGED <<disk, clock, rows, note, todo, seen, opened>>
      /\ pc[t] \in {"full_giveup", "full_restore", "full_publish"}
      /\ handles' = handles \/ handles' = "canonical"
  BY DEF FullFailed, FullRestoreFails, FullCompleted, Goto, diskVars, syncVars
<1>2. lock = t /\ lock # Free /\ Holder(t)
  BY <1>1, AtPlace DEF Holding, FullHolding
<1>3. PICK to \in {"idle", "full_failed"} : pc' = [pc EXCEPT ![t] = to]
  BY DEF FullFailed, FullRestoreFails, FullCompleted, Goto
<1>4. damaged' \in BOOLEAN /\ (damaged' = damaged \/ damaged')
  <2>1. damaged \in BOOLEAN
    BY TypesInside
  <2>. QED
    BY <2>1 DEF FullFailed, FullRestoreFails, FullCompleted
<1>5. TypeOK'
  <2>1. faults' \in 0..MaxFaults /\ calm' \in SUBSET Threads
    BY BoundsAssumption DEF FullFailed, FullRestoreFails, FullCompleted, Fault,
       IndexInv, TypeOK
  <2>2. pc' \in [Threads -> Positions]
    BY <1>3 DEF IndexInv, TypeOK, Positions
  <2>3. /\ lock' \in Threads \cup {Free} /\ failed' \in BOOLEAN
        /\ saved' \in [Tables -> Contents] /\ before' \in [Tables -> Contents]
    BY <1>1, EmptyTable DEF Release
  <2>4. newRows' \in Times /\ step' \in 0..6 /\ depth' \in 0..3
    BY <1>1, BoundsAssumption DEF Release, Times
  <2>5. handles' \in Generations \cup {"unset"}
    BY <1>1 DEF IndexInv, TypeOK, Generations
  <2>. QED
    BY <1>1, <1>4, <2>1, <2>2, <2>3, <2>4, <2>5 DEF IndexInv, TypeOK
<1>6. ASSUME ~damaged'
      PROVE  ~damaged /\ Agree(rows["canonical"]) /\ handles' # "staging"
  <2>1. ~damaged
    BY <1>4, <1>6
  <2>2. CASE FullFailed(t)
    <3>1. depth = 0 /\ handles' = "canonical"
      BY <1>2, <2>2 DEF FullFailed, Holder, Untouched, Unpublishing
    <3>. QED
      BY <1>2, <2>1, <3>1, NothingToRestore
  <2>3. CASE FullCompleted(t)
    <3>1. pc[t] = "full_publish" /\ step = 3 /\ handles' = "canonical"
      BY <2>3 DEF FullCompleted, Goto
    <3>2. depth = 3 /\ Agree(rows["staging"])
      BY <1>2, <3>1 DEF Holder, Publishing
    <3>3. \A i \in 1..3 : rows["canonical"][PublishOrder[i]] = rows["staging"][PublishOrder[i]]
      BY <1>2, <3>1, <3>2 DEF Holder, Publishing
    <3>4. \A u \in Tables : rows["canonical"][u] = rows["staging"][u]
      BY <3>3, Orders
    <3>. QED
      BY <2>1, <3>1, <3>2, <3>4 DEF Agree, Tables
  <2>4. CASE FullRestoreFails(t)
    BY <1>6, <2>4 DEF FullRestoreFails
  <2>. QED
    BY <2>2, <2>3, <2>4
<1>7. \A u \in Threads \ {t} : note'[u] = note[u]
  BY <1>1
<1>. QED
  BY <1>1, <1>2, <1>3, <1>5, <1>6, <1>7, ReleaseKeeps


LEMMA StutterKeeps == ASSUME IndexInv, UNCHANGED vars PROVE IndexInv'
<1>1. UNCHANGED <<disk, clock, rows, handles, lock, pc, note, todo, seen, opened, newRows,
                  step, saved, depth, failed, faults, before, calm, damaged>>
  BY DEF vars, diskVars, syncVars, holderVars
<1>2. TypeOK'
  BY <1>1 DEF IndexInv, TypeOK
<1>3. LockHeld' /\ HasNote' /\ Fresh'
  BY <1>1 DEF IndexInv, LockHeld, HasNote, Fresh
<1>4. \A n \in Notes : clock[n] <= clock'[n]
  BY <1>1 DEF IndexInv, TypeOK, Contents, Times
<1>. QED
  BY <1>1, <1>2, <1>3, <1>4, OutsideKeeps

LEMMA IndexNextInv == IndexInv /\ [Next]_vars => IndexInv'
<1> SUFFICES ASSUME IndexInv, [Next]_vars PROVE IndexInv'
  OBVIOUS
<1>1. ASSUME NEW n \in Notes, Delete(n) \/ \E time \in Times : Edit(n, time)
      PROVE  IndexInv'
  BY <1>1, VaultKeeps
<1>2. ASSUME NEW t \in Threads,
             \/ \E n \in Notes : ReindexNote(t, n)
             \/ FullScan(t) \/ SyncScan(t) \/ SyncStep(t) \/ FullReturned(t)
      PROVE  IndexInv'
  BY <1>2, UnlockedKeeps DEF SyncStep
<1>3. ASSUME NEW t \in Threads, NoteStep(t) PROVE IndexInv'
  <2>1. CASE NoteLock(t)
    BY <2>1, AcquireKeeps DEF NoteLock
  <2>2. CASE NoteParse(t) \/ NoteParseFails(t) \/ NoteParseError(t)
    BY <2>2, NoteParsing
  <2>3. CASE NoteUndo(t) \/ NoteUndoFails(t)
    BY <2>3, NoteUndoing
  <2>4. CASE NoteExists(t) \/ NoteEmbedFails(t)
    BY <2>4, NoteExistsKeeps, NoteEmbedFailsKeeps
  <2>5. CASE NoteApply(t) \/ NoteApplyFails(t) \/ NoteDone(t)
    BY <2>5, NoteApplyKeeps, NoteApplyFailsKeeps, NoteDoneKeeps
  <2>. QED
    BY <1>3, <2>1, <2>2, <2>3, <2>4, <2>5 DEF NoteStep
<1>4. ASSUME NEW t \in Threads, FullStep(t) PROVE IndexInv'
  <2>1. CASE FullLock(t)
    BY <2>1, AcquireKeeps DEF FullLock
  <2>2. CASE \/ FullReset(t) \/ FullGraph(t) \/ FullGiveUp(t) \/ FullStagingFails(t)
             \/ \E n \in Notes : FullParse(t, n)
    BY <2>2, FullStaging
  <2>3. CASE FullPublish(t)
    BY <2>3, FullPublishKeeps
  <2>4. CASE FullPublishFails(t) \/ FullUndone(t)
    BY <2>4, FullMoves
  <2>5. CASE FullUndo(t) \/ FullUndoFails(t)
    BY <2>5, FullUndoing
  <2>6. CASE FullFailed(t) \/ FullRestoreFails(t) \/ FullCompleted(t)
    BY <2>6, FullReturns
  <2>7. CASE FullReturned(t)
    BY <1>2, <2>7
  <2>. QED
    BY <1>4, <2>1, <2>2, <2>3, <2>4, <2>5, <2>6, <2>7 DEF FullStep
<1>. QED
  BY <1>1, <1>2, <1>3, <1>4, CrashKeeps, StutterKeeps DEF Next

(***************************************************************************)
(* Theorems                                                                *)
(***************************************************************************)

LEMMA IndexAlwaysInv == Spec => []IndexInv
BY IndexInitInv, IndexNextInv, PTL DEF Spec

\* Whatever fails and whoever comes next, between operations the chunks, links
\* and aliases tables describe the same revision of every note and the handles
\* refer to the canonical tables (_apply_note_records, full_reindex,
\* failure_stats), unless a rollback failed or a kill hit a commit.
THEOREM IndexAlwaysSound == Spec => []IndexSound
<1>1. IndexInv => IndexSound
  BY DEF IndexInv, IndexSound
<1>. QED
  BY <1>1, IndexAlwaysInv, PTL

\* A full_reindex that returns with a failure has left every canonical table
\* with the rows it had when the lock was taken, unless a rollback failed.
THEOREM FailureAlwaysRestores == Spec => FailureRestores
<1>1. IndexInv /\ [Next]_vars =>
        [\A t \in Threads :
            pc[t] # "full_failed" /\ pc'[t] = "full_failed" /\ ~damaged =>
                rows'["canonical"] = before]_vars
  <2> SUFFICES ASSUME IndexInv, Next, NEW t \in Threads,
                      pc[t] # "full_failed", pc'[t] = "full_failed", ~damaged
               PROVE  rows'["canonical"] = before
    BY DEF vars
  <2>1. FullFailed(t)
    <3>1. \A u \in Threads : \A to :
             pc' = [pc EXCEPT ![u] = to] => u = t /\ to = "full_failed"
      BY DEF IndexInv, TypeOK
    <3>2. pc' # pc
      OBVIOUS
    <3>3. ASSUME NEW u \in Threads, NoteStep(u) PROVE FALSE
      <4>1. CASE NoteReturn(u)
        <5>1. PICK to \in {"idle", "sync_next"} : pc' = [pc EXCEPT ![u] = to]
          BY <4>1 DEF NoteReturn
        <5>. QED
          BY <3>1, <5>1
      <4>2. CASE ~NoteReturn(u)
        <5>1. \/ pc' = pc
              \/ \E to \in NoteHolding : pc' = [pc EXCEPT ![u] = to]
          BY <3>3, <4>2 DEF NoteStep, NoteLock, NoteExists, NoteParse, NoteParseFails,
             NoteParseError, NoteEmbedFails, NoteApply, NoteApplyFails, NoteUndo,
             NoteUndoFails, NoteDone, Undo, Goto, Acquire, NoteHolding
        <5>. QED
          BY <3>1, <3>2, <5>1 DEF NoteHolding
      <4>. QED
        BY <4>1, <4>2
    <3>4. ASSUME NEW u \in Threads, SyncStep(u) \/ FullScan(u) \/ SyncScan(u)
                   \/ \E n \in Notes : ReindexNote(u, n)
          PROVE  FALSE
      BY <3>1, <3>4 DEF SyncStep, SyncOpen, SyncRead, SyncReadFails, SyncNext, SyncDone,
         SyncReturned, FullScan, SyncScan, ReindexNote, Goto
    <3>5. ASSUME NEW u \in Threads, FullStep(u) PROVE FullFailed(t)
      <4>1. CASE FullFailed(u)
        BY <3>1, <4>1 DEF FullFailed
      <4>2. CASE ~FullFailed(u)
        BY <3>1, <3>2, <3>5, <4>2 DEF FullStep, FullLock, FullReset, FullGraph, FullGiveUp,
           FullStagingFails, FullParse, FullPublish, FullPublishFails, FullUndo,
           FullUndoFails, FullUndone, FullRestoreFails, FullReturned,
           FullCompleted, Undo, Goto, Acquire
      <4>. QED
        BY <4>1, <4>2
    <3>6. ASSUME NEW n \in Notes, Delete(n) \/ \E time \in Times : Edit(n, time)
          PROVE  FALSE
      BY <3>2, <3>6 DEF Delete, Edit
    <3>7. ~Crash
      BY DEF Crash
    <3>. QED
      BY <3>3, <3>4, <3>5, <3>6, <3>7 DEF Next
  <2>2. pc[t] \in {"full_giveup", "full_restore"} /\ rows' = rows
    BY <2>1 DEF FullFailed
  <2>3. lock # Free /\ lock = t /\ Holder(t)
    BY <2>2, AtPlace DEF Holding, FullHolding
  <2>4. depth = 0
    BY <2>2, <2>3 DEF Holder, Untouched, Unpublishing
  <2>5. \A u \in Tables : rows["canonical"][u] = before[u]
    BY <2>3, <2>4, NothingToRestore
  <2>6. rows["canonical"] \in [Tables -> Contents] /\ before \in [Tables -> Contents]
    BY TypesInside DEF AllTables, Generations
  <2>. QED
    BY <2>2, <2>5, <2>6, SameTables
<1>. QED
  BY <1>1, IndexAlwaysInv, PTL DEF Spec, FailureRestores

\* No operation that gives the lock back leaves a note with rows of an older
\* revision than it found: whatever reindex_note and full_reindex commit was
\* read after the lock was taken.
THEOREM CommitsAlwaysMoveForward == Spec => CommitsMoveForward
<1>1. IndexInv /\ [Next]_vars =>
        [lock # Free /\ lock' = Free /\ ~Crash =>
            \A n \in Notes : \/ rows'["canonical"]["chunks"][n] = 0
                             \/ rows'["canonical"]["chunks"][n] >=
                                  before["chunks"][n]]_vars
  <2> SUFFICES ASSUME IndexInv, Next, lock # Free, lock' = Free, ~Crash
               PROVE  \A n \in Notes : \/ rows'["canonical"]["chunks"][n] = 0
                                       \/ rows'["canonical"]["chunks"][n] >=
                                            before["chunks"][n]
    BY DEF vars
  <2>1. lock \in Threads /\ Holder(lock) /\ lock' # lock
    BY FreeAssumption DEF IndexInv, TypeOK
  <2>2. rows' = rows
    <3>1. ASSUME NEW t \in Threads, NoteStep(t) PROVE rows' = rows
      BY <2>1, <3>1 DEF NoteStep, NoteLock, NoteExists, NoteParse, NoteParseFails,
         NoteParseError, NoteEmbedFails, NoteApply, NoteApplyFails, NoteUndo,
         NoteUndoFails, NoteDone, Undo
    <3>2. ASSUME NEW t \in Threads, FullStep(t) PROVE rows' = rows
      BY <2>1, <3>2 DEF FullStep, FullLock, FullReset, FullGraph, FullGiveUp,
         FullStagingFails, FullParse, FullPublish, FullPublishFails, FullUndo,
         FullUndoFails, FullUndone, FullFailed, FullRestoreFails, FullReturned,
         FullCompleted, Undo
    <3>3. ASSUME NEW t \in Threads, SyncStep(t) \/ FullScan(t) \/ SyncScan(t)
                   \/ \E n \in Notes : ReindexNote(t, n)
          PROVE  rows' = rows
      BY <3>3 DEF SyncStep, SyncOpen, SyncRead, SyncReadFails, SyncNext, SyncDone,
         SyncReturned, FullScan, SyncScan, ReindexNote
    <3>4. ASSUME NEW n \in Notes, Delete(n) \/ \E time \in Times : Edit(n, time)
          PROVE  rows' = rows
      BY <3>4 DEF Delete, Edit
    <3>. QED
      BY <3>1, <3>2, <3>3, <3>4 DEF Next
  <2>. QED
    BY <2>1, <2>2 DEF Holder, MovesForward
<1>. QED
  BY <1>1, IndexAlwaysInv, PTL DEF Spec, CommitsMoveForward


-----------------------------------------------------------------------------
(***************************************************************************)
(* sync_check.  A pass that nothing disturbs has opened the tables with    *)
(* the lock free, so whoever holds the lock since then has read the vault  *)
(* as the pass saw it, and no rollback is under way.  A note that is not   *)
(* on its list is in step, or is about to be: the holder has deleted its   *)
(* chunks and adds them next, or publishes a rebuild, which disturbs the   *)
(* pass when it completes.                                                 *)
(***************************************************************************)

InStep(n) ==
    LET r == rows["canonical"]["chunks"][n]
    IN  /\ disk[n] = 0 => r = 0
        /\ disk[n] # 0 /\ n \notin Blank => r # 0 /\ disk[n] <= r + 1

\* The lock's holder works on the vault as it is.
Recent ==
    \A s \in Threads : lock = s =>
      /\ pc[s] \notin {"note_undo", "full_undo", "full_restore"}
      /\ pc[s] = "note_parse_error" => disk[note[s]] = 0
      /\ pc[s] = "note_apply" => newRows = RowsOf(note[s], disk[note[s]])

InHand(n) ==
    \E s \in Threads :
      /\ lock = s
      /\ \/ pc[s] = "full_publish"
         \/ pc[s] = "note_apply" /\ note[s] = n /\ step = 1

Settled(n) == InStep(n) \/ InHand(n)

\* A pass of t that nothing has disturbed.
CalmPass(t) ==
    /\ pc[t] \in {"sync_open", "sync_read", "sync_next", "sync_done", "note_lock"}
                   \cup NoteHolding
    /\ seen[t] = disk
    /\ pc[t] \in NoteHolding \cup {"note_lock"} => note[t] \in todo[t]
    /\ pc[t] = "sync_done" => todo[t] = {}
    /\ pc[t] # "sync_open" => Recent
    /\ pc[t] = "sync_read" /\ ~damaged => opened[t] = "canonical"
    /\ ~damaged /\ pc[t] \notin {"sync_open", "sync_read"} =>
         \A n \in Notes \ todo[t] : Settled(n)

CalmInv == \A t \in calm : CalmPass(t)


\* A step leaves no settled note behind.
SettledStay == \A n \in Notes : Settled(n) => Settled(n)'

LEMMA InStepRead ==
    ASSUME IndexInv, NEW n \in Notes,
           rows["canonical"]["chunks"][n] = RowsOf(n, disk[n])
    PROVE  InStep(n)
<1>1. disk[n] \in Int
  BY DEF IndexInv, TypeOK, Contents, Times
<1>2. disk[n] # 0 => disk[n] <= disk[n] + 1
  BY <1>1
<1>. QED
  BY <1>2 DEF InStep, RowsOf

\* Who is not in a pass.
LEMMA NotCalm ==
    ASSUME CalmInv, NEW s \in Threads,
           \/ pc[s] \in FullHolding \cup {"idle", "full_lock", "full_failed"}
           \/ pc[s] \in NoteHolding /\ ~Recent
    PROVE  s \notin calm
BY DEF CalmInv, CalmPass, FullHolding, NoteHolding

\* Passes of the threads that do not move.
LEMMA OthersCalm ==
    ASSUME IndexInv, CalmInv, NEW s \in Threads, disk' = disk, ~damaged' => ~damaged,
           \A t \in Threads \ {s} :
             /\ pc'[t] = pc[t] /\ note'[t] = note[t] /\ todo'[t] = todo[t]
             /\ seen'[t] = seen[t] /\ opened'[t] = opened[t],
           Recent => Recent', Recent /\ ~damaged => SettledStay,
           calm' \subseteq calm \cup {s}, s \in calm' => CalmPass(s)'
    PROVE  CalmInv'
<1> SUFFICES ASSUME NEW t \in calm', t # s PROVE CalmPass(t)'
  BY DEF CalmInv
<1>1. t \in calm /\ t \in Threads \ {s}
  BY DEF IndexInv, TypeOK
<1>2. CalmPass(t)
  BY <1>1 DEF CalmInv
<1>3. /\ pc'[t] = pc[t] /\ note'[t] = note[t] /\ todo'[t] = todo[t]
      /\ seen'[t] = seen[t] /\ opened'[t] = opened[t]
  BY <1>1
<1>4. ASSUME ~damaged', pc[t] \notin {"sync_open", "sync_read"}
      PROVE  \A n \in Notes \ todo[t] : Settled(n)'
  <2>1. Recent /\ ~damaged /\ \A n \in Notes \ todo[t] : Settled(n)
    BY <1>2, <1>4 DEF CalmPass
  <2>. QED
    BY <2>1 DEF SettledStay
<1>. QED
  BY <1>2, <1>3, <1>4 DEF CalmPass

\* A step outside the lock leaves its holder where it is.
LEMMA HolderSettles ==
    ASSUME IndexInv, NEW s \in Threads, pc[s] \notin Holding,
           UNCHANGED <<disk, rows, lock, step, newRows>>,
           \A t \in Threads \ {s} : pc'[t] = pc[t] /\ note'[t] = note[t]
    PROVE  (Recent => Recent') /\ SettledStay
<1>1. \A t \in Threads : lock = t => pc'[t] = pc[t] /\ note'[t] = note[t]
  BY DEF IndexInv, LockHeld
<1>2. Recent => Recent'
  BY <1>1 DEF Recent
<1>3. \A n \in Notes : InStep(n) => InStep(n)'
  BY DEF InStep
<1>4. \A n \in Notes : InHand(n) => InHand(n)'
  BY <1>1 DEF InHand
<1>. QED
  BY <1>2, <1>3, <1>4 DEF SettledStay, Settled

LEMMA CalmInit == Init => CalmInv
BY DEF Init, CalmInv

\* What threads do outside the lock.
LEMMA UnlockedCalm ==
    ASSUME IndexInv, CalmInv, NEW s \in Threads,
           \/ \E n \in Notes : ReindexNote(s, n) \/ SyncNext(s, n)
           \/ FullScan(s) \/ FullReturned(s) \/ SyncScan(s) \/ SyncOpen(s)
           \/ SyncRead(s) \/ SyncDone(s) \/ SyncReturned(s)
    PROVE  CalmInv'
<1>1. pc[s] \in {"idle", "full_failed", "sync_open", "sync_read", "sync_next", "sync_done"}
  BY DEF ReindexNote, SyncNext, FullScan, FullReturned, SyncScan, SyncOpen, SyncRead,
     SyncDone, SyncReturned, Goto
<1>2. UNCHANGED <<disk, rows, lock, step, newRows, damaged>>
  BY DEF ReindexNote, SyncNext, FullScan, FullReturned, SyncScan, SyncOpen, SyncRead,
     SyncDone, SyncReturned, diskVars, holderVars
<1>3. \A t \in Threads \ {s} :
         /\ pc'[t] = pc[t] /\ note'[t] = note[t] /\ todo'[t] = todo[t]
         /\ seen'[t] = seen[t] /\ opened'[t] = opened[t]
  BY DEF ReindexNote, SyncNext, FullScan, FullReturned, SyncScan, SyncOpen, SyncRead,
     SyncDone, SyncReturned, Goto, syncVars, IndexInv, TypeOK
<1>4. (Recent => Recent') /\ SettledStay
  BY <1>1, <1>2, <1>3, HolderSettles DEF Holding, NoteHolding, FullHolding
<1>5. ASSUME calm' \subseteq calm \cup {s}, s \in calm' => CalmPass(s)' PROVE CalmInv'
  BY <1>2, <1>3, <1>4, <1>5, OthersCalm
<1>6. pc \in [Threads -> Positions] /\ note \in [Threads -> Notes \cup {NoNote}]
      /\ todo \in [Threads -> SUBSET Notes] /\ seen \in [Threads -> Contents]
      /\ opened \in [Threads -> Generations]
  BY DEF IndexInv, TypeOK
<1>7. s \in calm => CalmPass(s)
  BY DEF CalmInv
<1>8. CASE \/ \E n \in Notes : ReindexNote(s, n)
           \/ FullScan(s) \/ FullReturned(s)
  <2>1. pc[s] \in {"idle", "full_failed"} /\ calm' = calm
    BY <1>8 DEF ReindexNote, FullScan, FullReturned, Goto
  <2>. QED
    BY <1>5, <2>1, NotCalm
<1>9. CASE SyncScan(s)
  <2>1. pc'[s] = "sync_open" /\ seen'[s] = disk /\ calm' = calm \cup {s}
    BY <1>6, <1>9 DEF SyncScan, Goto
  <2>2. CalmPass(s)'
    BY <1>2, <2>1 DEF CalmPass, NoteHolding
  <2>. QED
    BY <1>5, <2>1, <2>2
<1>10. CASE SyncOpen(s)
  <2>1. /\ pc[s] = "sync_open" /\ pc'[s] = "sync_read" /\ seen'[s] = seen[s]
        /\ opened'[s] = EnsureTable /\ lock = Free /\ calm' = calm
    BY <1>6, <1>10 DEF SyncOpen, Goto
  <2>2. Recent'
    BY <1>2, <2>1, FreeAssumption DEF Recent
  <2>3. ~damaged => EnsureTable = "canonical"
    BY <2>1 DEF EnsureTable, IndexInv, HandlesCanonical, TypeOK, Generations
  <2>4. s \in calm => CalmPass(s)'
    BY <1>2, <1>7, <2>1, <2>2, <2>3 DEF CalmPass, NoteHolding
  <2>. QED
    BY <1>5, <2>1, <2>4
<1>11. CASE SyncRead(s)
  <2>1. /\ pc[s] = "sync_read" /\ pc'[s] = "sync_next" /\ seen'[s] = seen[s]
        /\ todo'[s] = OutOfSync(seen[s], rows[opened[s]]["chunks"]) /\ calm' = calm
    BY <1>6, <1>11 DEF SyncRead, Goto, syncVars
  <2>2. ASSUME s \in calm PROVE CalmPass(s)'
    <3>1. seen[s] = disk /\ Recent /\ (~damaged => opened[s] = "canonical")
      BY <1>7, <2>1, <2>2 DEF CalmPass
    <3>2. ASSUME ~damaged, NEW n \in Notes \ todo'[s] PROVE Settled(n)'
      <4>1. /\ (disk[n] = 0) = (rows["canonical"]["chunks"][n] = 0)
            /\ ~(disk[n] > rows["canonical"]["chunks"][n] + 1)
        BY <2>1, <3>1, <3>2 DEF OutOfSync
      <4>2. disk[n] \in Int /\ rows["canonical"]["chunks"][n] \in Int
        BY DEF IndexInv, TypeOK, Contents, Times, Generations, Tables
      <4>3. InStep(n)
        BY <4>1, <4>2 DEF InStep
      <4>. QED
        BY <1>4, <4>3 DEF Settled, SettledStay
    <3>. QED
      BY <1>2, <1>4, <2>1, <3>1, <3>2 DEF CalmPass, NoteHolding
  <2>. QED
    BY <1>5, <2>1, <2>2
<1>12. ASSUME NEW n \in Notes, SyncNext(s, n) PROVE CalmInv'
  <2>1. /\ pc[s] = "sync_next" /\ pc'[s] = "note_lock" /\ seen'[s] = seen[s]
        /\ n \in todo[s] /\ todo'[s] = todo[s] /\ note'[s] = n /\ calm' = calm
    BY <1>6, <1>12 DEF SyncNext, Goto, syncVars
  <2>2. s \in calm => CalmPass(s)'
    BY <1>2, <1>4, <1>7, <2>1 DEF CalmPass, NoteHolding, SettledStay
  <2>. QED
    BY <1>5, <2>1, <2>2
<1>13. CASE SyncDone(s)
  <2>1. /\ pc[s] = "sync_next" /\ pc'[s] = "sync_done" /\ seen'[s] = seen[s]
        /\ todo[s] = {} /\ todo'[s] = todo[s] /\ calm' = calm
    BY <1>6, <1>13 DEF SyncDone, Goto, syncVars
  <2>2. s \in calm => CalmPass(s)'
    BY <1>2, <1>4, <1>7, <2>1 DEF CalmPass, NoteHolding, SettledStay
  <2>. QED
    BY <1>5, <2>1, <2>2
<1>14. CASE SyncReturned(s)
  <2>1. calm' = calm \ {s}
    BY <1>14 DEF SyncReturned
  <2>. QED
    BY <1>5, <2>1
<1>. QED
  BY <1>8, <1>9, <1>10, <1>11, <1>12, <1>13, <1>14


\* A holder of the lock for a note goes on; its own pass, if it is in one, too.
LEMMA NoteGoesOn ==
    ASSUME IndexInv, CalmInv, NEW s \in Threads,
           pc[s] \in NoteHolding \cup {"note_lock"},
           NEW to \in NoteHolding, pc' = [pc EXCEPT ![s] = to],
           UNCHANGED <<disk, note, todo, seen, opened, calm, damaged>>,
           Recent => Recent', Recent /\ ~damaged => SettledStay
    PROVE  CalmInv'
<1>1. pc'[s] = to /\ \A t \in Threads \ {s} : pc'[t] = pc[t]
  BY DEF IndexInv, TypeOK
<1>2. ASSUME s \in calm PROVE CalmPass(s)'
  <2>1. CalmPass(s)
    BY <1>2 DEF CalmInv
  <2>2. Recent
    BY <2>1 DEF CalmPass, NoteHolding
  <2>3. ~damaged => \A n \in Notes \ todo[s] : Settled(n)'
    BY <2>1, <2>2 DEF CalmPass, SettledStay, NoteHolding
  <2>. QED
    BY <1>1, <2>1, <2>2, <2>3 DEF CalmPass, NoteHolding
<1>. QED
  BY <1>1, <1>2, OthersCalm

\* The canonical chunks stay and no note was in the holder's hands.
LEMMA ChunksStay ==
    ASSUME IndexInv, disk' = disk,
           rows'["canonical"]["chunks"] = rows["canonical"]["chunks"],
           \/ lock = Free
           \/ \E s \in Threads : /\ lock = s /\ pc[s] # "full_publish"
                                 /\ pc[s] = "note_apply" => step # 1
    PROVE  SettledStay
<1>1. \A n \in Notes : ~InHand(n)
  BY FreeAssumption DEF InHand
<1>2. \A n \in Notes : InStep(n) => InStep(n)'
  BY DEF InStep
<1>. QED
  BY <1>1, <1>2 DEF SettledStay, Settled

\* What the holder makes of the vault as it is.
LEMMA HolderRecent ==
    ASSUME IndexInv, NEW s \in Threads, lock' = s,
           pc'[s] \notin {"note_undo", "full_undo", "full_restore"},
           pc'[s] = "note_parse_error" => disk'[note'[s]] = 0,
           pc'[s] = "note_apply" => newRows' = RowsOf(note'[s], disk'[note'[s]])
    PROVE  Recent'
BY DEF Recent

LEMMA LockCalm ==
    ASSUME IndexInv, CalmInv, NEW s \in Threads, NoteLock(s) \/ FullLock(s)
    PROVE  CalmInv'
<1>1. /\ lock = Free /\ lock' = s
      /\ UNCHANGED <<disk, rows, note, todo, seen, opened, calm, damaged>>
  BY DEF NoteLock, FullLock, Acquire, diskVars, syncVars
<1>2. SettledStay
  BY <1>1, ChunksStay
<1>3. CASE NoteLock(s)
  <2>1. pc[s] = "note_lock" /\ pc' = [pc EXCEPT ![s] = "note_exists"]
    BY <1>3 DEF NoteLock, Acquire, Goto
  <2>2. pc'[s] = "note_exists" /\ "note_exists" \in NoteHolding
    BY <2>1 DEF IndexInv, TypeOK, NoteHolding
  <2>3. Recent'
    BY <1>1, <2>2, HolderRecent
  <2>. QED
    BY <1>1, <1>2, <2>1, <2>2, <2>3, NoteGoesOn
<1>4. CASE FullLock(s)
  <2>1. pc[s] = "full_lock" /\ pc' = [pc EXCEPT ![s] = "full_reset"]
    BY <1>4 DEF FullLock, Acquire, Goto
  <2>2. pc'[s] = "full_reset" /\ \A t \in Threads \ {s} : pc'[t] = pc[t]
    BY <2>1 DEF IndexInv, TypeOK
  <2>3. Recent'
    BY <1>1, <2>2, HolderRecent
  <2>4. s \notin calm
    BY <2>1, NotCalm
  <2>. QED
    BY <1>1, <1>2, <2>2, <2>3, <2>4, OthersCalm
<1>. QED
  BY <1>3, <1>4

\* reindex_note returns; a pass of its thread goes on when the note is settled.
LEMMA NoteReturnCalm ==
    ASSUME IndexInv, CalmInv, NEW s \in Threads, lock = s, pc[s] \in NoteHolding,
           NoteReturn(s), UNCHANGED <<disk, rows, seen, opened, calm, damaged>>,
           Recent => /\ pc[s] # "note_apply" \/ step # 1
                     /\ ~damaged => InStep(note[s])
    PROVE  CalmInv'
<1>1. /\ lock' = Free
      /\ pc' = [pc EXCEPT ![s] = IF note[s] \in todo[s] THEN "sync_next" ELSE "idle"]
      /\ todo' = [todo EXCEPT ![s] = @ \ {note[s]}]
      /\ note' = [note EXCEPT ![s] = NoNote]
  BY DEF NoteReturn, Release
<1>2. \A t \in Threads \ {s} :
         /\ pc'[t] = pc[t] /\ note'[t] = note[t] /\ todo'[t] = todo[t]
         /\ seen'[t] = seen[t] /\ opened'[t] = opened[t]
  BY <1>1 DEF IndexInv, TypeOK
<1>3. /\ todo'[s] = todo[s] \ {note[s]}
      /\ note[s] \in todo[s] => pc'[s] = "sync_next"
  BY <1>1 DEF IndexInv, TypeOK
<1>4. Recent'
  BY <1>1, FreeAssumption DEF Recent
<1>5. Recent => SettledStay
  BY ChunksStay DEF NoteHolding
<1>6. ASSUME s \in calm PROVE CalmPass(s)'
  <2>1. CalmPass(s)
    BY <1>6 DEF CalmInv
  <2>2. Recent /\ pc'[s] = "sync_next" /\ note[s] \in todo[s]
    BY <1>3, <2>1 DEF CalmPass, NoteHolding
  <2>3. ASSUME ~damaged, NEW n \in Notes \ todo'[s] PROVE Settled(n)'
    <3>1. CASE n \in todo[s]
      <4>1. n = note[s]
        BY <1>3, <2>3, <3>1
      <4>2. Settled(n)
        BY <2>2, <2>3, <4>1 DEF Settled
      <4>. QED
        BY <1>5, <2>2, <4>2 DEF SettledStay
    <3>2. CASE n \notin todo[s]
      <4>1. Settled(n)
        BY <2>1, <2>3, <3>2 DEF CalmPass, NoteHolding
      <4>. QED
        BY <1>5, <2>2, <4>1 DEF SettledStay
    <3>. QED
      BY <3>1, <3>2
  <2>. QED
    BY <1>4, <2>1, <2>2, <2>3 DEF CalmPass, NoteHolding
<1>. QED
  BY <1>2, <1>4, <1>5, <1>6, OthersCalm

LEMMA NoteReadCalm ==
    ASSUME IndexInv, CalmInv, NEW s \in Threads,
           NoteExists(s) \/ NoteParse(s) \/ NoteParseError(s)
    PROVE  CalmInv'
<1>1. /\ pc[s] \in {"note_exists", "note_parse", "note_parse_error"}
      /\ pc[s] \in NoteHolding /\ pc[s] \in Holding
      /\ UNCHANGED <<disk, rows, seen, opened, calm, damaged>>
  BY DEF NoteExists, NoteParse, NoteParseError, Goto, diskVars, syncVars, Holding,
     NoteHolding
<1>2. lock = s /\ Holder(s)
  BY <1>1, AtPlace
<1>3. SettledStay
  BY <1>1, <1>2, ChunksStay
<1>4. /\ disk[note[s]] = 0 => RowsOf(note[s], disk[note[s]]) = 0
  BY DEF RowsOf
<1>5. CASE ~NoteReturn(s)
  <2>1. PICK to \in {"note_apply", "note_parse", "note_parse_error"} :
           /\ pc' = [pc EXCEPT ![s] = to] /\ UNCHANGED <<lock, note, todo>>
           /\ to = "note_parse_error" => disk[note[s]] = 0
           /\ to = "note_apply" => newRows' = RowsOf(note[s], disk[note[s]])
    <3>1. CASE NoteExists(s)
      <4>1. newRows = 0
        BY <1>2, <3>1 DEF NoteExists, Goto, Holder, Untouched
      <4>. QED
        BY <1>4, <3>1, <4>1 DEF NoteExists, Goto, holderVars
    <3>2. CASE NoteParse(s)
      BY <3>2 DEF NoteParse, Goto
    <3>3. CASE NoteParseError(s)
      BY <1>4, <1>5, <3>3 DEF NoteParseError
    <3>. QED
      BY <3>1, <3>2, <3>3
  <2>2. pc'[s] = to /\ to \in NoteHolding
    BY <2>1 DEF IndexInv, TypeOK, NoteHolding
  <2>3. Recent'
    BY <1>1, <1>2, <2>1, <2>2, HolderRecent
  <2>. QED
    BY <1>1, <1>3, <2>1, <2>2, <2>3, NoteGoesOn
<1>6. CASE NoteReturn(s)
  <2>1. pc[s] = "note_parse_error" /\ disk[note[s]] # 0
    <3>1. \A u \in Threads : u # Free
      BY FreeAssumption
    <3>2. lock' = Free
      BY <1>6 DEF NoteReturn, Release
    <3>. QED
      BY <1>2, <3>1, <3>2 DEF NoteExists, NoteParse, NoteParseError
  <2>2. ~Recent
    BY <1>2, <2>1 DEF Recent
  <2>. QED
    BY <1>1, <1>2, <1>6, <2>2, NoteReturnCalm
<1>. QED
  BY <1>5, <1>6

LEMMA NoteApplyCalm ==
    ASSUME IndexInv, CalmInv, NEW s \in Threads, NoteApply(s) PROVE CalmInv'
<1> DEFINE j == (step \div 2) + 1
           table == NoteOrder[j]
           g == EnsureTable
           value == IF step % 2 = 0 THEN 0 ELSE newRows
<1>1. /\ pc[s] = "note_apply" /\ step < 6 /\ step' = step + 1
      /\ rows' = [rows EXCEPT ![g][table][note[s]] = value]
      /\ UNCHANGED <<disk, lock, pc, note, todo, seen, opened, newRows, calm, damaged>>
  BY DEF NoteApply, diskVars, syncVars
<1>2. lock = s /\ Holder(s) /\ note[s] \in Notes
  BY <1>1, AtPlace DEF Holding, NoteHolding, IndexInv, HasNote
<1>3. step \in 0..5 /\ depth \in 0..3 /\ (2 * depth = step \/ 2 * depth = step + 1)
  BY <1>1, <1>2 DEF Holder, Applying, IndexInv, TypeOK
<1>4. /\ j \in 1..3 /\ (step = 0 => j = 1) /\ (step = 1 => j = 1 /\ value = newRows)
      /\ step > 1 => j # 1
  <2>1. step \in {0, 1, 2, 3, 4, 5}
    BY <1>3
  <2>. QED
    BY <2>1
<1>5. /\ table \in Tables /\ (j = 1 => table = "chunks") /\ (j # 1 => table # "chunks")
  BY <1>4, Orders
<1>6. g \in Generations /\ value \in Times /\ (~damaged => g = "canonical")
  BY <1>1, <1>2, BoundsAssumption DEF EnsureTable, Generations, IndexInv, TypeOK, Times,
     Holder, FoundSound, NoteHolding
<1>. HIDE DEF j, table, g, value
<1>7. rows \in AllTables
  BY TypesInside
<1>8. \A n \in Notes : rows'["canonical"]["chunks"][n] =
                         IF g = "canonical" /\ table = "chunks" /\ n = note[s]
                         THEN value ELSE rows["canonical"]["chunks"][n]
  BY <1>1, <1>2, <1>5, <1>6, <1>7 DEF AllTables, Contents, Generations, Tables
<1>9. Recent => Recent'
  BY <1>1 DEF Recent
<1>10. ASSUME Recent, ~damaged PROVE SettledStay
  <2> SUFFICES ASSUME NEW n \in Notes, Settled(n) PROVE Settled(n)'
    BY DEF SettledStay
  <2>1. CASE n = note[s] /\ step = 0
    BY <1>1, <1>2, <2>1 DEF Settled, InHand
  <2>2. CASE n = note[s] /\ step = 1
    <3>1. rows'["canonical"]["chunks"][n] = RowsOf(n, disk[n])
      BY <1>1, <1>2, <1>4, <1>5, <1>6, <1>8, <1>10, <2>2 DEF Recent
    <3>2. disk[n] \in Int /\ (disk[n] # 0 => disk[n] <= disk[n] + 1)
      BY DEF IndexInv, TypeOK, Contents, Times
    <3>3. InStep(n)'
      BY <1>1, <3>1, <3>2 DEF InStep, RowsOf
    <3>. QED
      BY <3>3 DEF Settled
  <2>3. CASE n # note[s] \/ step > 1
    <3>1. rows'["canonical"]["chunks"][n] = rows["canonical"]["chunks"][n]
      BY <1>4, <1>5, <1>8, <2>3
    <3>2. ~InHand(n)
      BY <1>1, <1>2, <1>3, <2>3 DEF InHand
    <3>. QED
      BY <1>1, <3>1, <3>2 DEF Settled, InStep
  <2>. QED
    BY <1>3, <2>1, <2>2, <2>3
<1>11. pc[s] \in NoteHolding /\ pc' = [pc EXCEPT ![s] = pc[s]]
  BY <1>1, <1>2, HolderStays DEF Holding, NoteHolding
<1>. QED
  BY <1>1, <1>9, <1>10, <1>11, NoteGoesOn

LEMMA NoteDoneCalm ==
    ASSUME IndexInv, CalmInv, NEW s \in Threads, NoteDone(s) PROVE CalmInv'
<1>1. /\ NoteReturn(s) /\ UNCHANGED <<disk, rows, seen, opened, calm, damaged>>
      /\ \/ pc[s] = "note_apply" /\ step = 6
         \/ pc[s] = "note_undo"
      /\ pc[s] \in NoteHolding /\ pc[s] \in Holding
  BY DEF NoteDone, diskVars, syncVars, Holding, NoteHolding
<1>2. lock = s /\ Holder(s) /\ note[s] \in Notes
  BY <1>1, AtPlace DEF IndexInv, HasNote
<1>3. ASSUME Recent PROVE pc[s] = "note_apply" /\ step = 6 /\ (~damaged => InStep(note[s]))
  <2>1. pc[s] = "note_apply" /\ step = 6 /\ newRows = RowsOf(note[s], disk[note[s]])
    BY <1>1, <1>2, <1>3 DEF Recent
  <2>2. ASSUME ~damaged PROVE InStep(note[s])
    <3>1. handles = "canonical"
      BY <1>2, <2>1, <2>2 DEF Holder, Applying, FoundSound, NoteHolding, Generations
    <3>2. rows["canonical"][NoteOrder[1]][note[s]] = newRows
      BY <1>2, <2>1, <3>1 DEF Holder, Applying
    <3>. QED
      BY <1>2, <2>1, <3>2, Orders, InStepRead
  <2>. QED
    BY <2>1, <2>2
<1>. QED
  BY <1>1, <1>2, <1>3, NoteReturnCalm


\* No pass that has opened the tables goes on during a rollback.
LEMMA UndoCalm ==
    ASSUME IndexInv, CalmInv, NEW s \in Threads,
           NoteUndo(s) \/ FullUndo(s) \/ FullUndone(s)
    PROVE  CalmInv'
<1>1. /\ pc[s] \in {"note_undo", "full_undo"} /\ pc[s] \in NoteHolding \cup FullHolding
      /\ UNCHANGED <<disk, note, todo, seen, opened, calm, damaged>>
      /\ \A t \in Threads \ {s} : pc'[t] = pc[t]
  BY DEF NoteUndo, FullUndo, FullUndone, Undo, Goto, diskVars, syncVars, NoteHolding,
     FullHolding, IndexInv, TypeOK
<1>2. ~Recent
  BY <1>1, AtPlace DEF Recent, Holding
<1>3. s \notin calm
  BY <1>1, <1>2, NotCalm
<1>. QED
  BY <1>1, <1>2, <1>3, OthersCalm

LEMMA FullCalm ==
    ASSUME IndexInv, CalmInv, NEW s \in Threads, calm' = calm,
           \/ FullReset(s) \/ FullGraph(s) \/ FullGiveUp(s)
           \/ \E n \in Notes : FullParse(s, n)
           \/ FullPublish(s) \/ FullFailed(s)
    PROVE  CalmInv'
<1>1. /\ pc[s] \in {"full_reset", "full_parse", "full_giveup", "full_publish", "full_restore"}
      /\ UNCHANGED <<disk, note, seen, opened, damaged>>
  BY DEF FullReset, FullGraph, FullGiveUp, FullParse, FullPublish, FullFailed, Goto,
     diskVars, syncVars
<1>2. pc[s] \in FullHolding /\ pc[s] \in Holding
  BY <1>1 DEF Holding, FullHolding
<1>3. lock = s /\ s \notin calm
  BY <1>2, AtPlace, NotCalm
<1>4. \A t \in Threads \ {s} : pc'[t] = pc[t] /\ todo'[t] = todo[t]
  BY DEF FullReset, FullGraph, FullGiveUp, FullParse, FullPublish, FullFailed, Goto,
     IndexInv, TypeOK
<1>5. ASSUME Recent => Recent', Recent => SettledStay PROVE CalmInv'
  BY <1>1, <1>3, <1>4, <1>5, OthersCalm
<1>6. CASE FullPublish(s) \/ FullGraph(s)
  <2>1. lock' = s /\ pc'[s] = "full_publish"
    BY <1>3, <1>6 DEF FullPublish, FullGraph, Goto, IndexInv, TypeOK
  <2>2. Recent'
    BY <2>1, HolderRecent
  <2>3. SettledStay
    BY <2>1 DEF SettledStay, Settled, InHand
  <2>. QED
    BY <1>5, <2>2, <2>3
<1>7. CASE \/ FullReset(s) \/ FullGiveUp(s)
           \/ \E n \in Notes : FullParse(s, n)
  <2>1. /\ lock' = s /\ pc'[s] \in {"full_parse", "full_giveup"}
        /\ pc[s] \in {"full_reset", "full_parse"}
    BY <1>3, <1>7 DEF FullReset, FullGiveUp, FullParse, Goto, IndexInv, TypeOK
  <2>2. Recent'
    BY <2>1, HolderRecent
  <2>3. rows'["canonical"] = rows["canonical"]
    <3>1. rows \in AllTables
      BY TypesInside
    <3>2. CASE FullReset(s) \/ FullGiveUp(s)
      BY <3>1, <3>2 DEF FullReset, FullGiveUp, AllTables, Generations
    <3>3. ASSUME NEW n \in Notes, FullParse(s, n)
          PROVE  rows'["canonical"] = rows["canonical"]
      <4>1. \/ rows' = rows
            \/ rows' = [rows EXCEPT !["staging"]["chunks"][n] = RowsOf(n, disk[n])]
        BY <3>3 DEF FullParse
      <4>. QED
        BY <3>1, <4>1 DEF AllTables, Generations
    <3>. QED
      BY <1>7, <3>2, <3>3
  <2>4. SettledStay
    BY <1>1, <1>3, <2>1, <2>3, ChunksStay
  <2>. QED
    BY <1>5, <2>2, <2>4
<1>8. CASE FullFailed(s)
  <2>1. lock' = Free /\ rows' = rows /\ pc[s] \in {"full_giveup", "full_restore"}
    BY <1>8 DEF FullFailed, Release
  <2>2. Recent'
    BY <2>1, FreeAssumption DEF Recent
  <2>3. SettledStay
    BY <1>1, <1>3, <2>1, ChunksStay
  <2>. QED
    BY <1>5, <2>2, <2>3
<1>. QED
  BY <1>6, <1>7, <1>8

\* A failure, an edit, a kill or a completed rebuild disturbs every pass.
LEMMA Disturbed == calm' = {} => CalmInv'
BY DEF CalmInv

LEMMA CalmNext == IndexInv /\ CalmInv /\ [Next]_vars => CalmInv'
<1> SUFFICES ASSUME IndexInv, CalmInv, [Next]_vars PROVE CalmInv'
  OBVIOUS
<1>1. ASSUME NEW n \in Notes, Delete(n) \/ \E time \in Times : Edit(n, time)
      PROVE  CalmInv'
  BY <1>1, Disturbed DEF Delete, Edit
<1>2. CASE Crash
  BY <1>2, Disturbed DEF Crash, Fault
<1>3. ASSUME NEW s \in Threads,
             \/ \E n \in Notes : ReindexNote(s, n)
             \/ FullScan(s) \/ SyncScan(s) \/ SyncStep(s) \/ FullReturned(s)
      PROVE  CalmInv'
  <2>1. CASE SyncReadFails(s)
    BY <2>1, Disturbed DEF SyncReadFails, Fault
  <2>2. CASE ~SyncReadFails(s)
    BY <1>3, <2>2, UnlockedCalm DEF SyncStep
  <2>. QED
    BY <2>1, <2>2
<1>4. ASSUME NEW s \in Threads, NoteStep(s) PROVE CalmInv'
  <2>1. CASE \/ NoteParseFails(s) \/ NoteEmbedFails(s) \/ NoteApplyFails(s)
             \/ NoteUndoFails(s)
    BY <2>1, Disturbed DEF NoteParseFails, NoteEmbedFails, NoteApplyFails, NoteUndoFails,
       Fault
  <2>2. CASE NoteExists(s) \/ NoteParse(s) \/ NoteParseError(s)
    BY <2>2, NoteReadCalm
  <2>3. CASE NoteLock(s) \/ NoteUndo(s)
    BY <2>3, LockCalm, UndoCalm
  <2>4. CASE NoteApply(s) \/ NoteDone(s)
    BY <2>4, NoteApplyCalm, NoteDoneCalm
  <2>. QED
    BY <1>4, <2>1, <2>2, <2>3, <2>4 DEF NoteStep
<1>5. ASSUME NEW s \in Threads, FullStep(s) PROVE CalmInv'
  <2>1. CASE \/ FullStagingFails(s) \/ FullPublishFails(s) \/ FullUndoFails(s)
             \/ FullRestoreFails(s) \/ FullCompleted(s)
    BY <2>1, Disturbed DEF FullStagingFails, FullPublishFails, FullUndoFails,
       FullRestoreFails, FullCompleted, Fault
  <2>2. ASSUME \/ FullReset(s) \/ FullGraph(s) \/ FullGiveUp(s)
               \/ \E n \in Notes : FullParse(s, n)
               \/ FullPublish(s) \/ FullFailed(s)
        PROVE  CalmInv'
    <3>1. calm' = {} \/ calm' = calm
      BY <2>2 DEF FullReset, FullGraph, FullGiveUp, FullParse, FullPublish, FullFailed,
         Fault
    <3>. QED
      BY <2>2, <3>1, FullCalm, Disturbed
  <2>3. CASE FullLock(s) \/ FullUndo(s) \/ FullUndone(s)
    BY <2>3, LockCalm, UndoCalm
  <2>4. CASE FullReturned(s)
    BY <1>3, <2>4
  <2>. QED
    BY <1>5, <2>1, <2>2, <2>3, <2>4 DEF FullStep
<1>6. CASE UNCHANGED vars
  <2>1. UNCHANGED <<disk, rows, lock, pc, note, todo, seen, opened, newRows, step, calm,
                    damaged>>
    BY <1>6 DEF vars, diskVars, syncVars, holderVars
  <2>2. Recent <=> Recent'
    BY <2>1 DEF Recent
  <2>3. \A n \in Notes : Settled(n) => Settled(n)'
    BY <2>1 DEF Settled, InStep, InHand
  <2>. QED
    BY <2>1, <2>2, <2>3 DEF CalmInv, CalmPass
<1>. QED
  BY <1>1, <1>2, <1>3, <1>4, <1>5, <1>6 DEF Next

\* A sync_check that nothing disturbs, whatever other threads index meanwhile
\* and although it reads the chunks without the lock, leaves an index that
\* agrees with the vault up to the second granted to rounding.
THEOREM SyncAlwaysConverges == Spec => []SyncConverges
<1>1. IndexInv /\ CalmInv => SyncConverges
  <2> SUFFICES ASSUME IndexInv, CalmInv, NEW t \in Threads, pc[t] = "sync_done",
                      t \in calm, lock = Free, ~damaged, NEW n \in Notes
               PROVE  InStep(n)
    BY DEF SyncConverges, InStep
  <2>1. CalmPass(t) /\ ~InHand(n)
    BY FreeAssumption DEF CalmInv, InHand
  <2>. QED
    BY <2>1 DEF CalmPass, Settled
<1>. QED
  BY <1>1, CalmInit, CalmNext, IndexAlwaysInv, PTL DEF Spec

=============================================================================
