----------------------------- MODULE NoteWrites -----------------------------
(***************************************************************************)
(* crud/write.py, crud/delete.py and safe_read_text and safe_write_text of *)
(* crud/validation.py: the mutations of notes by several threads and       *)
(* processes, next to an editor that knows nothing of the path locks.      *)
(*                                                                         *)
(* A revision (inode, mtime_ns, size) is a number that no other write      *)
(* shares; a rename keeps it.  The locks are those of PathExclusion.       *)
(***************************************************************************)
EXTENDS NoteText, Naturals

CONSTANTS
    Threads,
    Paths,
    Processes,
    ProcessOf,    \* ProcessOf[t]: the process thread t belongs to
    Fcntl,        \* fcntl is available
    Editor,       \* the writer of a file that takes no locks
    MaxActs,      \* bound: calls of the tools and acts of the editor
    MaxEdits      \* bound: acts of the editor

ASSUME BoundsAssumption == MaxActs \in Nat /\ MaxEdits \in Nat
ASSUME EditorThread == Editor \notin Threads
ASSUME MissingAssumption == Missing \notin [body : SUBSET Nat, meta : SUBSET Nat,
                                            id : Nat \cup {NoId},
                                            field : {"none", "user", "ai"}]
ASSUME NoIdAssumption == NoId \notin Nat

VARIABLES
    note,         \* note[p]: the content of path p, or Missing
    rev,          \* rev[p]: its revision, 0 for no file
    by,           \* by[p]: who wrote it last
    bin,          \* the marks recoverable from .trash
    pc,           \* pc[t]: where thread t is
    call,         \* call[t]: its operation, paths and mark
    seen,         \* seen[t]: the revision it has observed
    base,         \* base[t]: the content it has read
    inside,       \* inside[t]: the paths whose locks it holds
    answer,       \* answer[t]: the error_code or outcome of its last call
    told,         \* told[p]: the ids reported for the note at p
    tick,         \* the last revision given
    calls, edits  \* numbers of calls and of acts of the editor

files == <<note, rev, by, bin, told, tick>>
vars == <<note, rev, by, bin, pc, call, seen, base, inside, answer, told,
          tick, calls, edits>>

Lock == INSTANCE PathExclusion

Ops == {"create", "write", "append", "update", "replace", "ensure", "enrich",
        "delete", "move"}

NoCall == [op |-> "none", path |-> Missing, to |-> Missing, mark |-> 0]

PathsOf(t) == {call[t].path, call[t].to}
Path(t) == call[t].path
Op(t) == call[t].op

InitialNotes == {Missing, Written(0)}

Init ==
    /\ note \in [Paths -> InitialNotes]
    /\ rev = [p \in Paths |-> IF note[p] = Missing THEN 0 ELSE 1]
    /\ by = [p \in Paths |-> Editor]
    /\ bin = {}
    /\ pc = [t \in Threads |-> "idle"]
    /\ call = [t \in Threads |-> NoCall]
    /\ seen = [t \in Threads |-> 0]
    /\ base = [t \in Threads |-> Missing]
    /\ Lock!Init
    /\ answer = [t \in Threads |-> "none"]
    /\ told = [p \in Paths |-> {}]
    /\ tick = 1
    /\ calls = 0
    /\ edits = 0

-----------------------------------------------------------------------------

\* A tool is called; move_note names a second path.
Call(t, op, p, q) ==
    /\ pc[t] = "idle"
    /\ calls + edits < MaxActs
    /\ op # "move" => q = p
    /\ pc' = [pc EXCEPT ![t] = "lock"]
    /\ call' = [call EXCEPT ![t] = [op |-> op, path |-> p, to |-> q,
                                    mark |-> calls + 1]]
    /\ answer' = [answer EXCEPT ![t] = "none"]
    /\ calls' = calls + 1
    /\ UNCHANGED <<files, seen, base, inside, edits>>

Goto(t, to) == pc' = [pc EXCEPT ![t] = to]

\* Defect: the locks of the paths stay with the thread.
LeaveKeepsLock(t) == UNCHANGED inside

\* The with statement ends.
Leave(t) == Lock!Leave({t})

\* The call returns, and with it ends its with statement.
Return(t, result) ==
    /\ Goto(t, "idle")
    /\ Leave(t)
    /\ answer' = [answer EXCEPT ![t] = result]
    /\ call' = [call EXCEPT ![t] = NoCall]
    /\ seen' = [seen EXCEPT ![t] = 0]
    /\ base' = [base EXCEPT ![t] = Missing]
    /\ UNCHANGED <<calls, edits>>

Reject(t, result) == Return(t, result) /\ UNCHANGED files

Free(t) ==
    \A u \in Threads : Lock!Coordinated(t, u) => PathsOf(t) \cap inside[u] = {}

\* Defect: the lock is entered although another writer is inside.
EnterLockUnchecked(t) ==
    /\ pc[t] = "lock"
    /\ inside' = [inside EXCEPT ![t] = PathsOf(t)]
    /\ Goto(t, "look")
    /\ UNCHANGED <<files, call, seen, base, answer, calls, edits>>

\* with advisory_path_lock(...), advisory_path_locks(...)
EnterLock(t) ==
    /\ pc[t] = "lock"
    /\ Lock!Enter(t, PathsOf(t))
    /\ Goto(t, "look")
    /\ UNCHANGED <<files, call, seen, base, answer, calls, edits>>

LockTimeout(t) ==
    /\ pc[t] = "lock"
    /\ ~Free(t)
    /\ Reject(t, "write_lock_timeout")

\* The first file_revision of the operation.
LookMissing(t) ==
    /\ pc[t] = "look"
    /\ Op(t) \notin {"create", "write"}
    /\ rev[Path(t)] = 0
    /\ Reject(t, "not_found")

LookExists(t) ==
    /\ pc[t] = "look"
    /\ \/ Op(t) = "create" /\ rev[Path(t)] # 0
       \/ Op(t) = "move" /\ rev[Path(t)] # 0 /\ rev[call[t].to] # 0
    /\ Reject(t, "exists")

Look(t) ==
    /\ pc[t] = "look"
    /\ Op(t) = "create" => rev[Path(t)] = 0
    /\ Op(t) \notin {"create", "write"} => rev[Path(t)] # 0
    /\ Op(t) = "move" => rev[call[t].to] = 0
    /\ seen' = [seen EXCEPT ![t] = rev[Path(t)]]
    /\ Goto(t, IF Op(t) \in {"create", "write", "delete", "move"}
               THEN "check" ELSE "read")
    /\ UNCHANGED <<files, call, base, inside, answer, calls, edits>>

\* safe_read_text; a file that is gone is an error.
Read(t) ==
    /\ pc[t] = "read"
    /\ IF note[Path(t)] = Missing
       THEN Reject(t, "failed")
       ELSE /\ base' = [base EXCEPT ![t] = note[Path(t)]]
            /\ Goto(t, "recheck")
            /\ UNCHANGED <<files, call, seen, inside, answer, calls, edits>>

\* The second file_revision: the content read is that of the revision seen.
RecheckConflict(t) ==
    /\ pc[t] = "recheck"
    /\ rev[Path(t)] # seen[t]
    /\ Reject(t, "write_conflict")

Rechecked(t) == pc[t] = "recheck" /\ rev[Path(t)] = seen[t]

\* ensure_note_id finds an id and reports it.
ReportId(t) ==
    /\ Rechecked(t)
    /\ Op(t) = "ensure" /\ base[t].id # NoId
    /\ told' = [told EXCEPT ![Path(t)] = @ \cup {base[t].id}]
    /\ Return(t, "ok")
    /\ UNCHANGED <<note, rev, by, bin, tick>>

\* Nothing to enrich, at first or after the provider has answered.
NothingMissing(t) ==
    /\ Rechecked(t)
    /\ Op(t) \in {"enrich", "fill"} /\ base[t].field # "none"
    /\ Reject(t, "ok")

\* The note is read; the provider works without the lock.
AskProvider(t) ==
    /\ Rechecked(t)
    /\ Op(t) = "enrich" /\ base[t].field = "none"
    /\ Goto(t, "provider")
    /\ Leave(t)
    /\ UNCHANGED <<files, call, seen, base, answer, calls, edits>>

\* Defect: what was read before the provider was asked is written.
ProviderAnswersAndWrites(t) ==
    /\ pc[t] = "provider"
    /\ Lock!Enter(t, PathsOf(t))
    /\ call' = [call EXCEPT ![t].op = "fill"]
    /\ seen' = [seen EXCEPT ![t] = rev[Path(t)]]
    /\ Goto(t, "check")
    /\ UNCHANGED <<files, base, answer, calls, edits>>

\* _persist_generated_frontmatter takes the lock and reads again.
ProviderAnswers(t) ==
    /\ pc[t] = "provider"
    /\ call' = [call EXCEPT ![t].op = "fill"]
    /\ seen' = [seen EXCEPT ![t] = 0]
    /\ base' = [base EXCEPT ![t] = Missing]
    /\ Goto(t, "lock")
    /\ UNCHANGED <<files, inside, answer, calls, edits>>

Merge(t) ==
    /\ Rechecked(t)
    /\ Op(t) \in Merging
    /\ Applicable(Op(t), base[t])
    /\ Goto(t, "check")
    /\ UNCHANGED <<files, call, seen, base, inside, answer, calls, edits>>

\* Any exception or error on the way: a note that cannot be decoded or does
\* not fit the schema, a provider that fails, a full disk.
Fail(t) ==
    /\ pc[t] \notin {"idle"}
    /\ Reject(t, "failed")

Changed(t) ==
    \/ rev[Path(t)] # seen[t]
    \/ Op(t) = "move" /\ rev[call[t].to] # 0

\* The last file_revision before the file is touched.  safe_write_text
\* reports the conflict without an error_code.
CheckConflict(t) ==
    /\ pc[t] = "check"
    /\ Changed(t)
    /\ Reject(t, IF Op(t) \in Writing THEN "conflict" ELSE "write_conflict")

Check(t) ==
    /\ pc[t] = "check"
    /\ ~Changed(t)
    /\ Goto(t, "touch")
    /\ UNCHANGED <<files, call, seen, base, inside, answer, calls, edits>>

\* The ids reported for a note hold until it is written as a whole.
Promised(t) ==
    CASE Op(t) \in {"create", "write", "replace"} -> {}
      [] Op(t) = "ensure" -> told[Path(t)] \cup {call[t].mark}
      [] OTHER -> told[Path(t)]

\* os.replace in safe_write_text
Replace(t) ==
    /\ pc[t] = "touch"
    /\ Op(t) \in Writing
    /\ note' = [note EXCEPT ![Path(t)] = Result(Op(t), base[t], call[t].mark)]
    /\ rev' = [rev EXCEPT ![Path(t)] = tick + 1]
    /\ by' = [by EXCEPT ![Path(t)] = t]
    /\ told' = [told EXCEPT ![Path(t)] = Promised(t)]
    /\ tick' = tick + 1
    /\ Return(t, "ok")
    /\ UNCHANGED bin

\* shutil.move raises when its source is gone.
MoveFails(t) ==
    /\ pc[t] = "touch"
    /\ Op(t) \in {"delete", "move"}
    /\ note[Path(t)] = Missing
    /\ Reject(t, "failed")

\* Defect: the note is removed.
UnlinkNote(t) ==
    /\ pc[t] = "touch"
    /\ Op(t) = "delete"
    /\ note[Path(t)] # Missing
    /\ note' = [note EXCEPT ![Path(t)] = Missing]
    /\ rev' = [rev EXCEPT ![Path(t)] = 0]
    /\ told' = [told EXCEPT ![Path(t)] = {}]
    /\ Return(t, "ok")
    /\ UNCHANGED <<by, bin, tick>>

\* delete_note: the move to a name in .trash that is free
MoveToTrash(t) ==
    /\ pc[t] = "touch"
    /\ Op(t) = "delete"
    /\ note[Path(t)] # Missing
    /\ bin' = bin \cup MarksOf(note[Path(t)])
    /\ note' = [note EXCEPT ![Path(t)] = Missing]
    /\ rev' = [rev EXCEPT ![Path(t)] = 0]
    /\ told' = [told EXCEPT ![Path(t)] = {}]
    /\ Return(t, "ok")
    /\ UNCHANGED <<by, tick>>

\* move_note: a rename, which takes the place of what is there
Rename(t) ==
    LET p == Path(t)  q == call[t].to
        Moved(f, v) == [f EXCEPT ![p] = v, ![q] = f[p]]
    IN  /\ pc[t] = "touch"
        /\ Op(t) = "move"
        /\ note[p] # Missing
        /\ note' = Moved(note, Missing)
        /\ rev' = Moved(rev, 0)
        /\ by' = Moved(by, by[p])
        /\ told' = Moved(told, {})
        /\ Return(t, "ok")
        /\ UNCHANGED <<bin, tick>>

-----------------------------------------------------------------------------

EditorActs ==
    /\ edits < MaxEdits
    /\ calls + edits < MaxActs
    /\ edits' = edits + 1
    /\ UNCHANGED <<bin, pc, call, seen, base, inside, answer, calls>>

\* The editor saves a note, and may fill the field by hand.
Edit(p, byHand) ==
    LET saved == IF note[p] = Missing THEN Written(MaxActs + edits + 1)
                 ELSE Appended(note[p], MaxActs + edits + 1)
    IN  /\ EditorActs
        /\ note' = [note EXCEPT ![p] =
                       IF byHand THEN [saved EXCEPT !.field = "user"] ELSE saved]
        /\ rev' = [rev EXCEPT ![p] = tick + 1]
        /\ by' = [by EXCEPT ![p] = Editor]
        /\ tick' = tick + 1
        /\ UNCHANGED told

Remove(p) ==
    /\ EditorActs
    /\ note[p] # Missing
    /\ note' = [note EXCEPT ![p] = Missing]
    /\ rev' = [rev EXCEPT ![p] = 0]
    /\ by' = [by EXCEPT ![p] = Editor]
    /\ told' = [told EXCEPT ![p] = {}]
    /\ UNCHANGED tick

Step(t) ==
    \/ EnterLock(t) \/ LockTimeout(t)
    \/ LookMissing(t) \/ LookExists(t) \/ Look(t)
    \/ Read(t) \/ RecheckConflict(t) \/ ReportId(t) \/ NothingMissing(t)
    \/ AskProvider(t) \/ ProviderAnswers(t) \/ Merge(t)
    \/ CheckConflict(t) \/ Check(t)
    \/ Replace(t) \/ MoveFails(t) \/ MoveToTrash(t) \/ Rename(t)
    \/ Fail(t)

Calling(t) == \E op \in Ops, p, q \in Paths : Call(t, op, p, q)

Editing ==
    \E p \in Paths : Remove(p) \/ \E byHand \in BOOLEAN : Edit(p, byHand)

Next == (\E t \in Threads : Calling(t) \/ Step(t)) \/ Editing

Spec == Init /\ [][Next]_vars

-----------------------------------------------------------------------------
(***************************************************************************)
(* Properties.                                                             *)
(***************************************************************************)

Marks == 0..(MaxActs + MaxEdits)

Notes == [body : SUBSET Nat, meta : SUBSET Nat, id : Nat \cup {NoId},
          field : {"none", "user", "ai"}]

Working == {"look", "read", "recheck", "check", "touch"}

\* Types of the files, the locks and the threads' locals.
TypeOK ==
    /\ note \in [Paths -> Notes \cup {Missing}]
    /\ rev \in [Paths -> Nat]
    /\ by \in [Paths -> Threads \cup {Editor}]
    /\ bin \subseteq Nat
    /\ pc \in [Threads -> Working \cup {"idle", "lock", "provider"}]
    /\ call \in [Threads -> [op : Ops \cup {"none", "fill"},
                             path : Paths \cup {Missing},
                             to : Paths \cup {Missing}, mark : Nat]]
    /\ seen \in [Threads -> Nat]
    /\ base \in [Threads -> Notes \cup {Missing}]
    /\ inside \in [Threads -> SUBSET Paths]
    /\ told \in [Paths -> SUBSET Nat]
    /\ tick \in Nat /\ calls \in Nat /\ edits \in Nat

\* A thread touches a note only while it has the locks of all its paths, and
\* it has none while it waits, is asking the provider, or has returned.
LocksBracketWork ==
    \A t \in Threads :
        inside[t] = IF pc[t] \in Working THEN PathsOf(t) ELSE {}

\* The file t touches in this step, if it touches one.
Touches(t) ==
    /\ pc[t] = "touch"
    /\ pc'[t] = "idle"
    /\ note' # note

\* The editor has changed a path of t after t has looked at it.
EditorRaced(t) ==
    \/ by[Path(t)] = Editor /\ rev[Path(t)] # seen[t]
    \/ Op(t) = "move" /\ rev[call[t].to] # 0 /\ by[call[t].to] = Editor

Kept == bin \cup UNION {MarksOf(note[p]) : p \in Paths}

\* Text that is in the vault stays in it or is found in .trash, unless a
\* write_note or a replacement of the frontmatter that has seen it takes its
\* place, or the editor acts: no append, merge, id, enrichment, move or
\* creation loses what another call has written.
NothingLost ==
    [][\/ Kept \subseteq Kept'
       \/ edits' # edits
       \/ \E t \in Threads :
             /\ Touches(t)
             /\ \/ Op(t) \in {"write", "replace"} /\ seen[t] = rev[Path(t)]
                \/ EditorRaced(t)]_vars

\* Every id ensure_note_id has reported is the id of the note, until the note
\* is overwritten or removed: two concurrent calls report the same id.
IdsAgree ==
    \A p \in Paths : \A i \in told[p] : note[p] # Missing /\ note[p].id = i

\* Calls on notes: each works under its lock and gives it back on every path,
\* and callers are told ids that the notes have.
CallsSound == LocksBracketWork /\ IdsAgree

\* Enrichment never overwrites a field that is filled, although the provider
\* works from what was in the note before.
EnrichmentKeepsFields ==
    [][\A t \in Threads :
          Touches(t) /\ Op(t) = "fill" /\ ~EditorRaced(t) =>
              note[Path(t)].field = "none"]_vars

\* Every call is one step on the note as it is, unless the editor has raced
\* it: the mutations implement NoteStore.
Store == INSTANCE NoteStore
ImplementsStore ==
    /\ Store!Init
    /\ [][\/ Store!Next
          \/ edits' # edits
          \/ \E t \in Threads : Touches(t) /\ EditorRaced(t)]_<<note, bin>>

=============================================================================
