------------------------------ MODULE NoteText ------------------------------
(***************************************************************************)
(* The content of a note as far as the mutations of crud/write.py tell it  *)
(* apart.  Every call carries a mark; body and meta are the marks of the   *)
(* calls whose text is in the body and in the frontmatter, id is the mark  *)
(* of the call that generated the id, field is who filled the required     *)
(* field.                                                                  *)
(***************************************************************************)

CONSTANTS
    Missing,      \* there is no file
    NoId          \* the frontmatter has no id

\* The calls that read the note, change what they read and write it back.
Merging == {"append", "update", "replace", "ensure", "fill"}

Writing == Merging \cup {"create", "write"}

Note(body, meta, id, field) ==
    [body |-> body, meta |-> meta, id |-> id, field |-> field]

\* create_note: the body, and an id.
Created(n) == Note({n}, {}, n, "none")

\* write_note: complete content, here without frontmatter.
Written(n) == Note({n}, {}, NoId, "none")

\* append_note
Appended(note, n) == [note EXCEPT !.body = @ \cup {n}]

\* update_frontmatter with merge
Updated(note, n) == [note EXCEPT !.meta = @ \cup {n}, !.field = "user"]

\* update_frontmatter without merge
Replaced(note, n) == Note(note.body, {n}, NoId, "user")

\* ensure_note_id
Identified(note, n) == [note EXCEPT !.id = n]

\* _persist_generated_frontmatter
Filled(note) == [note EXCEPT !.field = "ai"]

\* What call n writes, given the note it has read.
Result(op, note, n) ==
    CASE op = "create"  -> Created(n)
      [] op = "write"   -> Written(n)
      [] op = "append"  -> Appended(note, n)
      [] op = "update"  -> Updated(note, n)
      [] op = "replace" -> Replaced(note, n)
      [] op = "ensure"  -> Identified(note, n)
      [] op = "fill"    -> Filled(note)

\* Defect: an id that is there is not looked at.
ApplicableAnyId(op, note) ==
    /\ op = "create" => note = Missing
    /\ op \in Merging => note # Missing
    /\ op = "fill" => note.field = "none"

\* The notes the call has something to write for.
Applicable(op, note) ==
    /\ op = "create" => note = Missing
    /\ op \in Merging => note # Missing
    /\ op = "ensure" => note.id = NoId
    /\ op = "fill" => note.field = "none"

MarksOf(note) == IF note = Missing THEN {} ELSE note.body \cup note.meta

=============================================================================
