-------------------------- MODULE CoalescingQueue --------------------------
(***************************************************************************)
(* What a bounded coalescing work queue promises, without threads, FIFO    *)
(* order or version counters.  A key is in one of four states:             *)
(*                                                                         *)
(*    "clean"    no change of it awaits an index update                    *)
(*    "waiting"  an accepted change awaits an update that has not started  *)
(*    "running"  an update started after the last accepted change          *)
(*    "rerun"    an update is running and a later change was accepted      *)
(*                                                                         *)
(* ReindexQueue is shown to implement this specification.                  *)
(***************************************************************************)
EXTENDS Naturals, FiniteSets

CONSTANTS
    Keys,         \* vault paths and the reconciliation key
    MaxPending    \* how many keys may be other than "clean"

VARIABLES
    phase,        \* [Keys -> Phases]
    open          \* TRUE until the queue is stopped

Phases == {"clean", "waiting", "running", "rerun"}

Busy == {k \in Keys : phase[k] # "clean"}

Init ==
    /\ phase = [k \in Keys |-> "clean"]
    /\ open = TRUE

\* A change of a clean key is accepted while there is room for it.
Accept(k) ==
    /\ open
    /\ phase[k] = "clean"
    /\ Cardinality(Busy) < MaxPending
    /\ phase' = [phase EXCEPT ![k] = "waiting"]
    /\ UNCHANGED open

\* A change of a key whose update is running asks for one more update.
AcceptAgain(k) ==
    /\ open
    /\ phase[k] = "running"
    /\ phase' = [phase EXCEPT ![k] = "rerun"]
    /\ UNCHANGED open

\* One update runs at a time.
Start(k) ==
    /\ phase[k] = "waiting"
    /\ \A j \in Keys : phase[j] \notin {"running", "rerun"}
    /\ phase' = [phase EXCEPT ![k] = "running"]
    /\ UNCHANGED open

Finish(k) ==
    /\ \/ phase[k] = "running" /\ phase' = [phase EXCEPT ![k] = "clean"]
       \/ phase[k] = "rerun" /\ phase' = [phase EXCEPT ![k] = "waiting"]
    /\ UNCHANGED open

Close ==
    /\ open
    /\ open' = FALSE
    /\ UNCHANGED phase

Next ==
    \/ \E k \in Keys : Accept(k) \/ AcceptAgain(k) \/ Start(k) \/ Finish(k)
    \/ Close

Spec == Init /\ [][Next]_<<phase, open>>

=============================================================================
