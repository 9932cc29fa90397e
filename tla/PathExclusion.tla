--------------------------- MODULE PathExclusion ---------------------------
(***************************************************************************)
(* What the path locks of crud/locking.py promise: a thread that is inside *)
(* a set of paths shares none of them with another thread it is            *)
(* coordinated with.  Without fcntl only the threads of one process are    *)
(* coordinated.                                                            *)
(***************************************************************************)

CONSTANTS
    Threads,
    Paths,
    Processes,
    ProcessOf,    \* ProcessOf[t]: the process thread t belongs to
    Fcntl         \* fcntl is available

VARIABLE inside   \* inside[t]: the paths t has entered, {} when outside

Coordinated(t, u) == t # u /\ (Fcntl \/ ProcessOf[t] = ProcessOf[u])

Init == inside = [t \in Threads |-> {}]

Enter(t, S) ==
    /\ inside[t] = {}
    /\ S # {}
    /\ \A u \in Threads : Coordinated(t, u) => S \cap inside[u] = {}
    /\ inside' = [inside EXCEPT ![t] = S]

\* Threads leave one by one, or all at once when their process is killed.
Leave(T) == inside' = [t \in Threads |-> IF t \in T THEN {} ELSE inside[t]]

Next ==
    \/ \E t \in Threads, S \in SUBSET Paths : Enter(t, S)
    \/ \E T \in SUBSET Threads : Leave(T)

Spec == Init /\ [][Next]_inside

=============================================================================
