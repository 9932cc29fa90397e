----------------------------- MODULE NoteStore -----------------------------
(***************************************************************************)
(* What the CRUD operations promise to writers that share the path locks:  *)
(* each mutation is one step on the note as it is at that moment.          *)
(***************************************************************************)
EXTENDS NoteText

CONSTANTS
    Paths,
    Marks         \* the marks of the calls

VARIABLES
    note,         \* note[p]: the content of path p, or Missing
    bin           \* the marks recoverable from .trash

Init == note \in [Paths -> {Missing, Written(0)}] /\ bin = {}

Mutate(op, p, n) ==
    /\ Applicable(op, note[p])
    /\ note' = [note EXCEPT ![p] = Result(op, note[p], n)]
    /\ UNCHANGED bin

Delete(p) ==
    /\ note[p] # Missing
    /\ note' = [note EXCEPT ![p] = Missing]
    /\ bin' = bin \cup MarksOf(note[p])

Move(p, q) ==
    /\ note[p] # Missing
    /\ note[q] = Missing
    /\ note' = [note EXCEPT ![p] = Missing, ![q] = note[p]]
    /\ UNCHANGED bin

Next ==
    \/ \E op \in Writing, p \in Paths, n \in Marks : Mutate(op, p, n)
    \/ \E p \in Paths : Delete(p)
    \/ \E p, q \in Paths : Move(p, q)

Spec == Init /\ [][Next]_<<note, bin>>

=============================================================================
