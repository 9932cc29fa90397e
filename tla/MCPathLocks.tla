---------------------------- MODULE MCPathLocks ----------------------------
(***************************************************************************)
(* Small instances of PathLocks: three threads in two processes.           *)
(***************************************************************************)
EXTENDS PathLocks, TLC

CONSTANTS t1, t2, t3, p1, p2

Symmetry == Permutations({t1, t2})

TwoProcesses == [t \in Threads |-> IF t = t3 THEN p2 ELSE p1]

=============================================================================
