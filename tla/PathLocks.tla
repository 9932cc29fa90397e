----------------------------- MODULE PathLocks -----------------------------
(***************************************************************************)
(* crud/locking.py: advisory_path_lock and advisory_path_locks.  A path is *)
(* entered by taking a lock shared by the threads of the process, and then *)
(* the flock on its lock file, which is shared by all processes; several   *)
(* paths are entered one after the other under a single deadline.          *)
(*                                                                         *)
(* Paths are numbered in the order of their canonical names.  Time is the  *)
(* passing of a call's deadline: late[t].                                  *)
(***************************************************************************)
EXTENDS Naturals, Sequences, FiniteSets

CONSTANTS
    Threads,
    Paths,        \* canonical paths, numbered in the order of sorted()
    Processes,
    ProcessOf,    \* ProcessOf[t]: the process thread t belongs to
    Fcntl,        \* fcntl is available
    Free,         \* nobody holds the lock
    MaxArgs       \* bound: paths given to advisory_path_locks

ASSUME PathsAssumption == Paths \subseteq Nat /\ IsFiniteSet(Paths)
ASSUME MaxArgsAssumption == MaxArgs \in Nat
ASSUME ProcessAssumption == ProcessOf \in [Threads -> Processes]
ASSUME FcntlAssumption == Fcntl \in BOOLEAN
ASSUME FreeThread == Free \notin Threads

VARIABLES
    pc,           \* pc[t]: where thread t is
    args,         \* args[t]: the paths of its call, as given
    want,         \* want[t]: the paths it has still to enter
    held,         \* held[t]: the paths on its ExitStack
    late,         \* late[t]: its deadline has passed
    mutex,        \* mutex[p][q]: holder of _thread_locks[q] in process p
    flock         \* flock[q]: holder of the flock on the lock file of q

vars == <<pc, args, want, held, late, mutex, flock>>

Elements(s) == {s[i] : i \in 1..Len(s)}

\* Defect: the paths are entered in the order of the arguments.
NextPathAsGiven(t) ==
    args[t][CHOOSE i \in 1..Len(args[t]) :
               /\ args[t][i] \in want[t]
               /\ \A j \in 1..(i - 1) : args[t][j] \notin want[t]]

\* for key in sorted(unique_paths)
NextPath(t) == CHOOSE q \in want[t] : \A r \in want[t] : q =< r

\* The ExitStack is unwound from its end.
LastPath(t) == held[t][Len(held[t])]

Goto(t, at, to) == pc[t] = at /\ pc' = [pc EXCEPT ![t] = to]

Init ==
    /\ pc = [t \in Threads |-> "idle"]
    /\ args = [t \in Threads |-> <<>>]
    /\ want = [t \in Threads |-> {}]
    /\ held = [t \in Threads |-> <<>>]
    /\ late = [t \in Threads |-> FALSE]
    /\ mutex = [p \in Processes |-> [q \in Paths |-> Free]]
    /\ flock = [q \in Paths |-> Free]

Call(t, s) ==
    /\ Goto(t, "idle", "mutex")
    /\ args' = [args EXCEPT ![t] = s]
    /\ want' = [want EXCEPT ![t] = Elements(s)]
    /\ UNCHANGED <<held, late, mutex, flock>>

\* The monotonic clock passes the deadline.
Expire(t) ==
    /\ pc[t] \in {"mutex", "open", "flock"}
    /\ ~late[t]
    /\ late' = [late EXCEPT ![t] = TRUE]
    /\ UNCHANGED <<pc, args, want, held, mutex, flock>>

\* Nothing is left to enter: arguments and deadline have no further use.
Forget(t) ==
    /\ args' = [args EXCEPT ![t] = <<>>]
    /\ want' = [want EXCEPT ![t] = {}]
    /\ late' = [late EXCEPT ![t] = FALSE]

\* The path is entered: the next one follows, or the body of the with.
Entered(t, q) ==
    /\ held' = [held EXCEPT ![t] = Append(@, q)]
    /\ IF want[t] = {q}
       THEN /\ pc' = [pc EXCEPT ![t] = "inside"]
            /\ Forget(t)
       ELSE /\ pc' = [pc EXCEPT ![t] = "mutex"]
            /\ want' = [want EXCEPT ![t] = @ \ {q}]
            /\ UNCHANGED <<args, late>>

MutexAvailable(p, q) == mutex[p][q] = Free

\* _acquire_thread_lock: a lock that is free is taken, late or not.
AcquireMutex(t) ==
    LET q == NextPath(t)  p == ProcessOf[t]
    IN  /\ pc[t] = "mutex"
        /\ MutexAvailable(p, q)
        /\ mutex' = [mutex EXCEPT ![p][q] = t]
        /\ IF Fcntl
           THEN /\ pc' = [pc EXCEPT ![t] = "open"]
                /\ UNCHANGED <<args, want, late, held>>
           ELSE Entered(t, q)
        /\ UNCHANGED flock

\* _lock_path raises: the directory of the lock files cannot be made.
LockPathFails(t) ==
    /\ Goto(t, "mutex", "exit")
    /\ Forget(t)
    /\ UNCHANGED <<held, mutex, flock>>

MutexTimeout(t) ==
    /\ Goto(t, "mutex", "exit")
    /\ ~MutexAvailable(ProcessOf[t], NextPath(t))
    /\ late[t]
    /\ Forget(t)
    /\ UNCHANGED <<held, mutex, flock>>

\* _open_lock_file opens the lock file, creating it, ...
OpenLockFile(t) ==
    /\ Goto(t, "open", "flock")
    /\ UNCHANGED <<args, want, held, late, mutex, flock>>

\* Defect: the lock of the process is kept when the flock is not obtained.
GiveBackNothing(t) == UNCHANGED mutex

\* The finally of advisory_path_lock when the flock was not obtained.
GiveBack(t) == mutex' = [mutex EXCEPT ![ProcessOf[t]][NextPath(t)] = Free]

\* ... or raises, after its directory vanished twice.
OpenFails(t) ==
    /\ Goto(t, "open", "exit")
    /\ GiveBack(t)
    /\ Forget(t)
    /\ UNCHANGED <<held, flock>>

\* Defect: the answer of flock is not looked at.
FlockAvailableUnchecked(q) == TRUE

FlockAvailable(q) == flock[q] = Free

\* _acquire_flock: LOCK_NB is tried at least once.
AcquireFlock(t) ==
    LET q == NextPath(t)
    IN  /\ pc[t] = "flock"
        /\ FlockAvailable(q)
        /\ flock' = [flock EXCEPT ![q] = t]
        /\ Entered(t, q)
        /\ UNCHANGED mutex

\* Defect: the loop never looks at the deadline.
FlockTimeoutNever(t) == FALSE /\ UNCHANGED vars

FlockTimeout(t) ==
    /\ Goto(t, "flock", "exit")
    /\ ~FlockAvailable(NextPath(t))
    /\ late[t]
    /\ GiveBack(t)
    /\ Forget(t)
    /\ UNCHANGED <<held, flock>>

\* flock raises anything but EACCES and EAGAIN.
FlockFails(t) ==
    /\ Goto(t, "flock", "exit")
    /\ GiveBack(t)
    /\ Forget(t)
    /\ UNCHANGED <<held, flock>>

\* The body ends, by returning or by raising.
Leave(t) ==
    /\ Goto(t, "inside", "exit")
    /\ UNCHANGED <<args, want, held, late, mutex, flock>>

ReleaseFlock(t) ==
    /\ Goto(t, "exit", "unlocked")
    /\ held[t] # <<>>
    /\ flock' = IF Fcntl THEN [flock EXCEPT ![LastPath(t)] = Free] ELSE flock
    /\ UNCHANGED <<args, want, held, late, mutex>>

ReleaseMutex(t) ==
    /\ Goto(t, "unlocked", "exit")
    /\ mutex' = [mutex EXCEPT ![ProcessOf[t]][LastPath(t)] = Free]
    /\ held' = [held EXCEPT ![t] = SubSeq(@, 1, Len(@) - 1)]
    /\ UNCHANGED <<args, want, late, flock>>

Returned(t) ==
    /\ Goto(t, "exit", "idle")
    /\ held[t] = <<>>
    /\ UNCHANGED <<args, want, held, late, mutex, flock>>

\* A process is killed: its threads and their locks are gone, and the system
\* closes its files, which gives up its flocks.
Kill(p) ==
    LET gone == {t \in Threads : ProcessOf[t] = p}
        Reset(f, v) == [t \in Threads |-> IF t \in gone THEN v ELSE f[t]]
    IN  /\ pc' = Reset(pc, "idle")
        /\ args' = Reset(args, <<>>)
        /\ want' = Reset(want, {})
        /\ held' = Reset(held, <<>>)
        /\ late' = Reset(late, FALSE)
        /\ mutex' = [mutex EXCEPT ![p] = [q \in Paths |-> Free]]
        /\ flock' = [q \in Paths |-> IF flock[q] \in gone THEN Free ELSE flock[q]]

\* What a thread does when the operating system raises nothing ...
Proceed(t) ==
    \/ AcquireMutex(t) \/ MutexTimeout(t) \/ OpenLockFile(t)
    \/ AcquireFlock(t) \/ FlockTimeout(t) \/ Leave(t)
    \/ ReleaseFlock(t) \/ ReleaseMutex(t) \/ Returned(t)

\* ... and when it does.
Fail(t) == LockPathFails(t) \/ OpenFails(t) \/ FlockFails(t)

Step(t) == Proceed(t) \/ Fail(t)

Calls == UNION {[1..n -> Paths] : n \in 1..MaxArgs}

Next ==
    \/ \E t \in Threads :
          \/ \E s \in Calls : Call(t, s)
          \/ Expire(t)
          \/ Step(t)
    \/ \E p \in Processes : Kill(p)

Spec == Init /\ [][Next]_vars

\* Every thread keeps running and time passes; kills and failures may happen
\* but are not counted on.
FairSpec ==
    Spec /\ \A t \in Threads : WF_vars(Proceed(t)) /\ WF_vars(Expire(t))

-----------------------------------------------------------------------------
(***************************************************************************)
(* Properties.                                                             *)
(***************************************************************************)

Positions == {"idle", "mutex", "open", "flock", "inside", "exit", "unlocked"}

\* Types of the locks and of the locals of every thread.
TypeOK ==
    /\ pc \in [Threads -> Positions]
    /\ args \in [Threads -> Seq(Paths)]
    /\ want \in [Threads -> SUBSET Paths]
    /\ held \in [Threads -> Seq(Paths)]
    /\ late \in [Threads -> BOOLEAN]
    /\ mutex \in [Processes -> [Paths -> Threads \cup {Free}]]
    /\ flock \in [Paths -> Threads \cup {Free}]

Inside(t) == IF pc[t] = "inside" THEN Elements(held[t]) ELSE {}

Coordinated(t, u) == t # u /\ (Fcntl \/ ProcessOf[t] = ProcessOf[u])

\* Two threads that are coordinated are never inside the same path: whoever
\* writes a note under its lock is the only one.
MutualExclusion ==
    \A t, u \in Threads : Coordinated(t, u) => Inside(t) \cap Inside(u) = {}

\* A thread waits only for paths that come after all those it holds.
WaitsUpward ==
    \A t \in Threads : \A q \in Elements(held[t]), r \in want[t] : q < r

Blocked(t) ==
    \/ pc[t] = "mutex" /\ mutex[ProcessOf[t]][NextPath(t)] # Free
    \/ pc[t] = "flock" /\ flock[NextPath(t)] # Free

\* Two calls that name the same paths in opposite order never wait for each
\* other: when a thread is blocked, some thread can go on without a timeout.
SomeoneRuns ==
    (\E t \in Threads : Blocked(t)) =>
        \E u \in Threads : pc[u] # "idle" /\ ~Blocked(u)

\* No deadlock, and why: calls wait only for paths above those they hold.
DeadlockFree == WaitsUpward /\ SomeoneRuns

\* Locks belong to threads that are about to use or to release them: no path
\* of return leaves one behind.
NoAbandonedLock ==
    /\ \A q \in Paths, t \in Threads : flock[q] = t => q \in Elements(held[t])
    /\ \A p \in Processes, q \in Paths, t \in Threads :
          mutex[p][q] = t =>
              \/ q \in Elements(held[t])
              \/ pc[t] \in {"open", "flock"} /\ q = NextPath(t)

\* lock_paths as a lock: no two calls are inside the same path, and nothing
\* stays locked by a call that has ended or failed.
LocksSound == MutualExclusion /\ NoAbandonedLock

\* The locks implement the exclusion the CRUD operations rely on.
inside == [t \in Threads |-> Inside(t)]
Exclusion == INSTANCE PathExclusion
ImplementsExclusion == Exclusion!Spec

\* Every call gets in or times out, whatever the others do.
CallEnds == \A t \in Threads : (pc[t] = "mutex") ~> (pc[t] \in {"inside", "idle"})

=============================================================================
