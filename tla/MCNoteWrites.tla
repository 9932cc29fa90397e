---------------------------- MODULE MCNoteWrites ----------------------------
(***************************************************************************)
(* Two threads of two processes and an editor, for TLC.                    *)
(***************************************************************************)
EXTENDS NoteWrites, TLC

CONSTANTS t1, t2, p1, p2, a, b

TwoProcesses == (t1 :> p1) @@ (t2 :> p2)

Symmetry == Permutations(Paths)

=============================================================================
