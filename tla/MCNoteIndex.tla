---------------------------- MODULE MCNoteIndex ----------------------------
(***************************************************************************)
(* Small instances of NoteIndex.                                           *)
(***************************************************************************)
EXTENDS NoteIndex, TLC

CONSTANTS n1, n2, t1, t2

NoteAndFull == [t \in Threads |-> {"note", "full"}]
SyncBesideWriter == (t1 :> {"sync"}) @@ (t2 :> {"note", "full"})

Symmetry == Permutations({t1, t2})

=============================================================================
