---------------------------- MODULE MCVaultWatch ----------------------------
(***************************************************************************)
(* Small instances of VaultWatch.                                          *)
(***************************************************************************)
EXTENDS VaultWatch, TLC

CONSTANTS n1, n2, g1, g2

Symmetry == Permutations(Notes) \cup Permutations(Generations)

\* How often each note may be changed.
OneEach == [n \in Notes |-> 1]
TwoEach == [n \in Notes |-> 2]

=============================================================================
