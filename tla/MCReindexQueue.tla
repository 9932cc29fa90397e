--------------------------- MODULE MCReindexQueue ---------------------------
(***************************************************************************)
(* Small instances of ReindexQueue.                                        *)
(***************************************************************************)
EXTENDS ReindexQueue

CONSTANTS k1, k2, k3, c1, c2, w1, w2

\* One key is changed again while it is queued or being indexed.
OneChangesTwice == [k \in Keys |-> IF k = k1 THEN 2 ELSE 1]

=============================================================================
