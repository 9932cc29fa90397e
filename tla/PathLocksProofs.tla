-------------------------- MODULE PathLocksProofs --------------------------
(***************************************************************************)
(* Proofs about PathLocks, for every set of threads, processes and paths:  *)
(* its inductive invariant IInv, mutual exclusion, the absence of          *)
(* abandoned locks and of circular waiting, and the refinement of          *)
(* PathExclusion.                                                          *)
(***************************************************************************)
EXTENDS PathLocks, FiniteSetTheorems, WellFoundedInduction, TLAPS

Entering == {"mutex", "open", "flock"}

\* What is on the stack and what is still wanted, at every position.
LocalsOf(t) ==
    /\ want[t] = {} <=> pc[t] \notin Entering
    /\ pc[t] = "idle" => held[t] = <<>>
    /\ pc[t] = "unlocked" => held[t] # <<>>
    /\ pc[t] \in {"open", "flock"} => Fcntl

Locals == \A t \in Threads : LocalsOf(t)

\* The stack of entered paths grows upward.
StackSorted ==
    \A t \in Threads : \A i, j \in 1..Len(held[t]) :
        i < j => held[t][i] < held[t][j]

\* A thread has the process lock of every path it has entered or is entering.
MutexOwnedBy(t) ==
    /\ \A i \in 1..Len(held[t]) : mutex[ProcessOf[t]][held[t][i]] = t
    /\ pc[t] \in {"open", "flock"} => mutex[ProcessOf[t]][NextPath(t)] = t

MutexOwned == \A t \in Threads : MutexOwnedBy(t)

\* It has the flock of every path it has entered, up to the moment between
\* the two releases.
FlockOwned ==
    Fcntl => \A t \in Threads : \A i \in 1..Len(held[t]) :
                pc[t] # "unlocked" \/ i < Len(held[t]) =>
                    flock[held[t][i]] = t

\* Between the two releases the flock is no longer the thread's.
FlockReleased ==
    /\ \A t \in Threads :
          pc[t] = "unlocked" => flock[held[t][Len(held[t])]] # t
    /\ ~Fcntl => \A q \in Paths : flock[q] = Free

\* A process lock is held by threads of its process.
MutexLocal ==
    \A p \in Processes, q \in Paths, t \in Threads :
        mutex[p][q] = t => ProcessOf[t] = p

IInv ==
    /\ TypeOK
    /\ Locals
    /\ StackSorted
    /\ WaitsUpward
    /\ MutexOwned
    /\ FlockOwned
    /\ FlockReleased
    /\ MutexLocal
    /\ NoAbandonedLock

-----------------------------------------------------------------------------

\* sorted() has a first element: the path a waiting thread is about to enter
\* is one it wants, and the least of them.
LEMMA NextPathIsLeast ==
    ASSUME NEW t \in Threads, want \in [Threads -> SUBSET Paths], want[t] # {}
    PROVE  /\ NextPath(t) \in want[t]
           /\ \A r \in want[t] : NextPath(t) =< r
<1>1. want[t] \subseteq Nat
  BY PathsAssumption
<1>2. PICK q \in want[t] : \A r \in want[t] : ~(<<r, q>> \in OpToRel(<, Nat))
  BY <1>1, NatLessThanWellFounded, WFMin, Zenon
<1>3. \A r \in want[t] : q =< r
  <2>1. \A r \in Nat : r < q => <<r, q>> \in OpToRel(<, Nat)
    BY <1>1 DEF OpToRel
  <2>2. ASSUME NEW r \in want[t], r < q PROVE FALSE
    BY <1>1, <1>2, <2>1, <2>2, Zenon
  <2>. QED
    BY <1>1, <2>2
<1>. QED
  BY <1>3 DEF NextPath

\* The next path depends on what is wanted only.
LEMMA NextPathUnchanged ==
    ASSUME NEW t \in Threads, want'[t] = want[t]
    PROVE  NextPath(t)' = NextPath(t)
BY DEF NextPath

\* The paths on a stack are paths.
LEMMA StackOfPaths ==
    ASSUME TypeOK, NEW t \in Threads
    PROVE  /\ held[t] \in Seq(Paths)
           /\ Len(held[t]) \in Nat
           /\ \A i \in 1..Len(held[t]) :
                 held[t][i] \in Paths /\ held[t][i] \in Nat
<1>1. held[t] \in Seq(Paths)
  BY DEF TypeOK
<1>2. Len(held[t]) \in Nat /\ \A i \in 1..Len(held[t]) : held[t][i] \in Paths
  BY <1>1
<1>. QED
  BY <1>1, <1>2, PathsAssumption

\* What entering path q does to the stack and to the wanted paths of t.
Pushed(t, q) ==
    /\ q \in want[t] /\ q \in Paths /\ q \in Nat
    /\ \A r \in want[t] : q =< r /\ r \in Nat
    /\ held' \in [Threads -> Seq(Paths)]
    /\ want' \in [Threads -> SUBSET Paths]
    /\ args' \in [Threads -> Seq(Paths)]
    /\ late' \in [Threads -> BOOLEAN]
    /\ pc' \in [Threads -> Positions]
    /\ Len(held[t]) \in Nat
    /\ Len(held'[t]) = Len(held[t]) + 1
    /\ \A i \in 1..Len(held[t]) :
          /\ held'[t][i] = held[t][i]
          /\ held[t][i] \in Nat /\ held[t][i] < q
    /\ held'[t][Len(held[t]) + 1] = q
    /\ want'[t] = want[t] \ {q}
    /\ pc'[t] = IF want'[t] = {} THEN "inside" ELSE "mutex"
    /\ \A u \in Threads \ {t} :
          held'[u] = held[u] /\ want'[u] = want[u] /\ pc'[u] = pc[u]

\* Entering the next path pushes it.
LEMMA PathEntered ==
    ASSUME IInv, NEW t \in Threads, NEW q, q = NextPath(t),
           pc[t] \in Entering, Entered(t, q)
    PROVE  Pushed(t, q)
<1>. USE DEF IInv
<1>1. want[t] # {}
  BY DEF Locals, LocalsOf
<1>2. q \in want[t] /\ \A r \in want[t] : q =< r
  BY <1>1, NextPathIsLeast DEF TypeOK
<1>3. q \in Paths /\ q \in Nat /\ \A r \in want[t] : r \in Nat
  BY <1>2, PathsAssumption DEF TypeOK
<1>5. held' = [held EXCEPT ![t] = Append(held[t], q)]
  BY DEF Entered
<1>6. /\ held' \in [Threads -> Seq(Paths)]
      /\ held'[t] = Append(held[t], q)
      /\ \A u \in Threads \ {t} : held'[u] = held[u]
  BY <1>3, <1>5, StackOfPaths DEF TypeOK
<1>7. /\ Len(held'[t]) = Len(held[t]) + 1
      /\ held'[t][Len(held[t]) + 1] = q
      /\ \A i \in 1..Len(held[t]) : held'[t][i] = held[t][i]
  BY <1>3, <1>6, StackOfPaths
<1>8. \A i \in 1..Len(held[t]) : held[t][i] < q
  BY <1>2 DEF WaitsUpward, Elements
<1>9. CASE want[t] = {q}
  <2>1. /\ want' = [want EXCEPT ![t] = {}]
        /\ args' = [args EXCEPT ![t] = <<>>]
        /\ late' = [late EXCEPT ![t] = FALSE]
        /\ pc' = [pc EXCEPT ![t] = "inside"]
    BY <1>9 DEF Entered, Forget
  <2>2. /\ want' \in [Threads -> SUBSET Paths] /\ want'[t] = {}
        /\ args' \in [Threads -> Seq(Paths)]
        /\ late' \in [Threads -> BOOLEAN]
        /\ pc' \in [Threads -> Positions] /\ pc'[t] = "inside"
        /\ \A u \in Threads \ {t} : want'[u] = want[u] /\ pc'[u] = pc[u]
    BY <2>1 DEF TypeOK, Positions
  <2>. QED
    BY <1>2, <1>3, <1>6, <1>7, <1>8, <1>9, <2>2, StackOfPaths DEF Pushed
<1>10. CASE want[t] # {q}
  <2>1. /\ want' = [want EXCEPT ![t] = want[t] \ {q}]
        /\ args' = args /\ late' = late
        /\ pc' = [pc EXCEPT ![t] = "mutex"]
    BY <1>10 DEF Entered
  <2>2. /\ want' \in [Threads -> SUBSET Paths] /\ want'[t] = want[t] \ {q}
        /\ args' \in [Threads -> Seq(Paths)]
        /\ late' \in [Threads -> BOOLEAN]
        /\ pc' \in [Threads -> Positions] /\ pc'[t] = "mutex"
        /\ \A u \in Threads \ {t} : want'[u] = want[u] /\ pc'[u] = pc[u]
    BY <2>1 DEF TypeOK, Positions
  <2>3. want'[t] # {}
    BY <1>2, <1>10, <2>2
  <2>. QED
    BY <1>2, <1>3, <1>6, <1>7, <1>8, <2>2, <2>3, StackOfPaths DEF Pushed
<1>. QED
  BY <1>9, <1>10

\* A thread that has entered a path holds it and what it held before.
LEMMA PushedElements ==
    ASSUME NEW t \in Threads, NEW q, Pushed(t, q)
    PROVE  /\ q \in Elements(held'[t])
           /\ Elements(held[t]) \subseteq Elements(held'[t])
           /\ \A i \in 1..Len(held'[t]) :
                 i \in 1..Len(held[t]) \/ i = Len(held[t]) + 1
<1>1. /\ Len(held[t]) \in Nat
      /\ Len(held'[t]) = Len(held[t]) + 1
      /\ held'[t][Len(held[t]) + 1] = q
      /\ \A i \in 1..Len(held[t]) : held'[t][i] = held[t][i]
  BY DEF Pushed
<1>2. Len(held[t]) + 1 \in 1..Len(held'[t])
  BY <1>1
<1>3. \A i \in 1..Len(held[t]) : i \in 1..Len(held'[t])
  BY <1>1
<1>4. q \in Elements(held'[t])
  BY <1>1, <1>2 DEF Elements
<1>5. Elements(held[t]) \subseteq Elements(held'[t])
  BY <1>1, <1>3 DEF Elements
<1>. QED
  BY <1>1, <1>4, <1>5

\* Entering a path keeps the stack sorted and below what is wanted.
LEMMA StackGrows ==
    ASSUME IInv, NEW t \in Threads, NEW q, Pushed(t, q)
    PROVE  StackSorted' /\ WaitsUpward'
<1>1. \A i \in 1..Len(held'[t]) : i \in 1..Len(held[t]) \/ i = Len(held[t]) + 1
  BY PushedElements
<1>3. StackSorted'
  <2>1. SUFFICES ASSUME NEW u \in Threads, NEW i \in 1..Len(held'[u]),
                        NEW j \in 1..Len(held'[u]), i < j
                 PROVE  held'[u][i] < held'[u][j]
    BY DEF StackSorted
  <2>2. CASE u # t
    BY <2>1, <2>2 DEF IInv, StackSorted, Pushed
  <2>3. CASE u = t
    <3>1. i \in 1..Len(held[t])
      BY <2>1, <2>3 DEF Pushed
    <3>2. CASE j \in 1..Len(held[t])
      BY <2>1, <2>3, <3>1, <3>2 DEF IInv, StackSorted, Pushed
    <3>3. CASE j = Len(held[t]) + 1
      BY <2>3, <3>1, <3>3 DEF Pushed
    <3>. QED
      BY <1>1, <2>3, <3>2, <3>3
  <2>. QED
    BY <2>2, <2>3
<1>4. WaitsUpward'
  <2>1. SUFFICES ASSUME NEW u \in Threads, NEW i \in 1..Len(held'[u]),
                        NEW r \in want'[u]
                 PROVE  held'[u][i] < r
    BY DEF WaitsUpward, Elements
  <2>2. CASE u # t
    <3>1. held'[u] = held[u] /\ want'[u] = want[u]
      BY <2>2 DEF Pushed
    <3>. QED
      BY <2>1, <3>1 DEF IInv, WaitsUpward, Elements
  <2>3. CASE u = t
    <3>1. r \in want[t] /\ q < r /\ r \in Nat /\ q \in Nat
      BY <2>1, <2>3 DEF Pushed
    <3>2. CASE i \in 1..Len(held[t])
      <4>1. held'[t][i] \in Nat /\ held'[t][i] < q
        BY <3>2 DEF Pushed
      <4>. QED
        BY <2>3, <3>1, <4>1
    <3>3. CASE i = Len(held[t]) + 1
      BY <2>3, <3>1, <3>3 DEF Pushed
    <3>. QED
      BY <1>1, <2>3, <3>2, <3>3
  <2>. QED
    BY <2>2, <2>3
<1>. QED
  BY <1>3, <1>4

\* A call names the paths it wants and holds nothing yet.
LEMMA CallKeeps ==
    ASSUME IInv, NEW t \in Threads, NEW s \in Calls, Call(t, s)
    PROVE  IInv'
<1>. USE ProcessAssumption, FreeThread DEF IInv
<1>1. TypeOK'
  <2>1. s \in Seq(Paths) /\ Elements(s) \subseteq Paths
    BY MaxArgsAssumption DEF Calls, Elements
  <2>. QED
    BY <2>1 DEF Call, Goto, TypeOK, Positions
<1>2. Locals'
  <2>0. PICK n \in 1..MaxArgs : s \in [1..n -> Paths]
    BY DEF Calls
  <2>1. Elements(s) # {}
    BY <2>0, MaxArgsAssumption DEF Elements
  <2>. QED
    BY <2>1 DEF Call, Goto, TypeOK, Locals, LocalsOf, Entering
<1>3. StackSorted' /\ WaitsUpward'
  BY DEF Call, Goto, Calls,
     TypeOK, StackSorted, WaitsUpward, Elements, Locals, LocalsOf
<1>4. FlockOwned' /\ FlockReleased'
  BY DEF Call, Goto, Calls,
     TypeOK, FlockOwned, FlockReleased
<1>5. MutexLocal'
  <2>1. mutex' = mutex
    BY DEF Call
  <2>. QED
    BY <2>1 DEF MutexLocal
<1>6. MutexOwned'
  BY NextPathUnchanged DEF Call, Goto, Calls,
     TypeOK, MutexOwned, MutexOwnedBy
<1>7. NoAbandonedLock'
  <2>1. \A u \in Threads \ {t} : NextPath(u)' = NextPath(u) /\ pc'[u] = pc[u]
    BY NextPathUnchanged DEF Call, Goto, TypeOK
  <2>2. pc[t] = "idle" /\ held' = held /\ mutex' = mutex /\ flock' = flock
    BY DEF Call, Goto
  <2>3. ASSUME NEW p \in Processes, NEW q \in Paths, NEW u \in Threads,
               mutex[p][q] = u
        PROVE  \/ q \in Elements(held[u])
               \/ pc'[u] \in {"open", "flock"} /\ q = NextPath(u)'
    BY <2>1, <2>2, <2>3 DEF NoAbandonedLock
  <2>. QED
    BY <2>2, <2>3 DEF NoAbandonedLock
<1>. QED
  BY <1>1, <1>2, <1>3, <1>4, <1>5, <1>6, <1>7

\* The clock touches no lock.
LEMMA ExpireKeeps ==
    ASSUME IInv, NEW t \in Threads, Expire(t)
    PROVE  IInv'
<1>. USE ProcessAssumption, FreeThread DEF IInv
<1>1. TypeOK'
  BY DEF Expire,
     TypeOK, Positions
<1>2. Locals'
  BY DEF Expire,
     TypeOK, Locals, LocalsOf, Entering
<1>3. StackSorted' /\ WaitsUpward'
  BY DEF Expire,
     TypeOK, StackSorted, WaitsUpward, Elements, Locals, LocalsOf
<1>4. FlockOwned' /\ FlockReleased'
  BY DEF Expire,
     TypeOK, FlockOwned, FlockReleased
<1>5. MutexLocal'
  <2>1. mutex' = mutex
    BY DEF Expire
  <2>. QED
    BY <2>1 DEF MutexLocal
<1>6. MutexOwned'
  BY NextPathUnchanged DEF Expire,
     TypeOK, MutexOwned, MutexOwnedBy
<1>7. NoAbandonedLock'
  BY NextPathUnchanged DEF Expire,
     TypeOK, NoAbandonedLock
<1>. QED
  BY <1>1, <1>2, <1>3, <1>4, <1>5, <1>6, <1>7

\* Taking the lock of the process; without fcntl this enters the path.
LEMMA AcquireMutexKeeps ==
    ASSUME IInv, NEW t \in Threads, AcquireMutex(t)
    PROVE  IInv'
<1>. USE ProcessAssumption, FreeThread DEF IInv
<1>a. PICK q \in want[t] : q = NextPath(t)
  BY NextPathIsLeast DEF AcquireMutex, TypeOK, Locals, LocalsOf, Entering
<1>b. /\ q \in Paths
      /\ mutex[ProcessOf[t]][q] = Free
      /\ mutex' = [mutex EXCEPT ![ProcessOf[t]][q] = t]
      /\ pc[t] = "mutex"
      /\ flock' = flock
  BY <1>a DEF AcquireMutex, MutexAvailable, TypeOK
<1>c. /\ mutex' \in [Processes -> [Paths -> Threads \cup {Free}]]
      /\ mutex'[ProcessOf[t]][q] = t
      /\ \A p \in Processes, r \in Paths :
            mutex[p][r] # Free => mutex'[p][r] = mutex[p][r]
      /\ \A p \in Processes, r \in Paths :
            mutex'[p][r] = mutex[p][r] \/ (p = ProcessOf[t] /\ r = q)
  BY <1>b DEF TypeOK
<1>7. MutexLocal'
  <2>1. ASSUME NEW p \in Processes, NEW r \in Paths, NEW u \in Threads,
               mutex'[p][r] = u
        PROVE  ProcessOf[u] = p
    <3>1. mutex[p][r] = u \/ (u = t /\ p = ProcessOf[t])
      BY <1>c, <2>1 DEF TypeOK
    <3>. QED
      BY <3>1 DEF MutexLocal
  <2>. QED
    BY <2>1 DEF MutexLocal
<1>d. \A u \in Threads : \A i \in 1..Len(held[u]) : held[u][i] \in Paths
  BY DEF TypeOK
<1>e. \A u \in Threads : pc[u] \in {"open", "flock"} => NextPath(u) \in Paths
  BY NextPathIsLeast DEF TypeOK, Locals, LocalsOf, Entering
<1>A. CASE Fcntl
  <2>1. /\ pc' = [pc EXCEPT ![t] = "open"]
        /\ held' = held /\ want' = want /\ args' = args /\ late' = late
    BY <1>A DEF AcquireMutex
  <2>2. TypeOK'
    BY <1>b, <1>c, <2>1 DEF TypeOK, Positions
  <2>3. Locals' /\ StackSorted' /\ WaitsUpward'
    BY <1>A, <1>b, <2>1
       DEF Locals, LocalsOf, Entering, StackSorted, WaitsUpward, TypeOK
  <2>4. \A u \in Threads : NextPath(u)' = NextPath(u)
    BY <2>1, NextPathUnchanged
  <2>5. MutexOwned'
    <3>1. \A u \in Threads : \A i \in 1..Len(held[u]) :
              mutex'[ProcessOf[u]][held[u][i]] = u
      BY <1>c, <1>d DEF MutexOwned, MutexOwnedBy
    <3>2. \A u \in Threads : pc'[u] \in {"open", "flock"} =>
              mutex'[ProcessOf[u]][NextPath(u)] = u
      BY <1>a, <1>c, <1>e, <2>1 DEF MutexOwned, MutexOwnedBy, TypeOK
    <3>. QED
      BY <2>1, <2>4, <3>1, <3>2 DEF MutexOwned, MutexOwnedBy
  <2>6. FlockOwned'
    BY <1>b, <2>1 DEF FlockOwned, TypeOK
  <2>7. NoAbandonedLock'
    <3>1. ASSUME NEW p \in Processes, NEW r \in Paths, NEW u \in Threads,
                 mutex'[p][r] = u
          PROVE  \/ r \in Elements(held[u])
                 \/ pc'[u] \in {"open", "flock"} /\ r = NextPath(u)
      <4>1. CASE p = ProcessOf[t] /\ r = q
        BY <1>a, <1>c, <2>1, <3>1, <4>1 DEF TypeOK
      <4>2. CASE mutex'[p][r] = mutex[p][r]
        BY <1>b, <2>1, <3>1, <4>2 DEF NoAbandonedLock, TypeOK
      <4>. QED
        BY <1>c, <4>1, <4>2
    <3>. QED
      BY <1>b, <2>1, <2>4, <3>1 DEF NoAbandonedLock
  <2>8. FlockReleased'
    BY <1>b, <2>1 DEF FlockReleased, TypeOK
  <2>. QED
    BY <1>7, <2>2, <2>3, <2>5, <2>6, <2>7, <2>8
<1>B. CASE ~Fcntl
  <2>1. Entered(t, q)
    BY <1>a, <1>B DEF AcquireMutex
  <2>0. Pushed(t, q)
    BY <1>a, <1>b, <2>1, PathEntered DEF Entering
  <2>2. TypeOK'
    BY <1>b, <1>c, <2>0 DEF Pushed, TypeOK
  <2>3. Locals'
    <3>1. ASSUME NEW u \in Threads PROVE LocalsOf(u)'
      <4>1. CASE u = t
        BY <2>0, <4>1 DEF Pushed, LocalsOf, Entering
      <4>2. CASE u # t
        <5>1. held'[u] = held[u] /\ want'[u] = want[u] /\ pc'[u] = pc[u]
          BY <2>0, <4>2 DEF Pushed
        <5>. QED
          BY <5>1 DEF Locals, LocalsOf
      <4>. QED
        BY <4>1, <4>2
    <3>. QED
      BY <3>1 DEF Locals, LocalsOf
  <2>4. StackSorted' /\ WaitsUpward'
    BY <2>0, StackGrows
  <2>5. MutexOwned'
    <3>1. ASSUME NEW u \in Threads PROVE MutexOwnedBy(u)'
      <4>1. CASE u = t
        <5>1. pc'[t] \notin {"open", "flock"}
          BY <2>0 DEF Pushed
        <5>2. \A i \in 1..Len(held'[t]) :
                  mutex'[ProcessOf[t]][held'[t][i]] = t
          <6>1. \A i \in 1..Len(held'[t]) :
                    i \in 1..Len(held[t]) \/ i = Len(held[t]) + 1
            BY <2>0, PushedElements
          <6>2. \A i \in 1..Len(held[t]) :
                    mutex'[ProcessOf[t]][held[t][i]] = t
            BY <1>c, <1>d DEF MutexOwned, MutexOwnedBy
          <6>. QED
            BY <1>c, <2>0, <6>1, <6>2 DEF Pushed
        <5>. QED
          BY <4>1, <5>1, <5>2 DEF MutexOwnedBy
      <4>2. CASE u # t
        <5>1. held'[u] = held[u] /\ pc'[u] = pc[u] /\ want'[u] = want[u]
          BY <2>0, <4>2 DEF Pushed
        <5>2. NextPath(u)' = NextPath(u)
          BY <5>1, NextPathUnchanged
        <5>. QED
          BY <1>c, <1>d, <1>e, <5>1, <5>2 DEF MutexOwned, MutexOwnedBy
      <4>. QED
        BY <4>1, <4>2
    <3>. QED
      BY <3>1 DEF MutexOwned, MutexOwnedBy
  <2>6. FlockOwned'
    BY <1>B DEF FlockOwned
  <2>7. NoAbandonedLock'
    <3>1. \A u \in Threads : /\ Elements(held[u]) \subseteq Elements(held'[u])
                             /\ pc[u] \in {"open", "flock"} => FALSE
      <4>1. Elements(held[t]) \subseteq Elements(held'[t])
        BY <2>0, PushedElements
      <4>2. \A u \in Threads \ {t} : held'[u] = held[u]
        BY <2>0 DEF Pushed
      <4>3. \A u \in Threads : pc[u] \notin {"open", "flock"}
        BY <1>B DEF Locals, LocalsOf
      <4>. QED
        BY <4>1, <4>2, <4>3
    <3>2. q \in Elements(held'[t])
      BY <2>0, PushedElements
    <3>. QED
      BY <1>b, <1>c, <3>1, <3>2 DEF NoAbandonedLock, TypeOK
  <2>8. FlockReleased'
    <3>1. \A u \in Threads : pc'[u] = "unlocked" =>
              held'[u][Len(held'[u])] \in Paths
      BY <2>2, <2>3 DEF Locals, LocalsOf, TypeOK
    <3>. QED
      BY <1>B, <1>b, <3>1 DEF FlockReleased
  <2>. QED
    BY <1>7, <2>2, <2>3, <2>4, <2>5, <2>6, <2>7, <2>8
<1>. QED
  BY <1>A, <1>B

\* A call that gives up on the first lock leaves with what it has entered:
\* LockPathFails and MutexTimeout.
BacksOut(t) ==
    /\ Goto(t, "mutex", "exit")
    /\ Forget(t)
    /\ UNCHANGED <<held, mutex, flock>>

\* Backing out keeps the invariant.
LEMMA BacksOutKeeps ==
    ASSUME IInv, NEW t \in Threads, BacksOut(t)
    PROVE  IInv'
<1>. USE ProcessAssumption, FreeThread DEF IInv
<1>1. TypeOK'
  BY DEF BacksOut, Goto, Forget,
     TypeOK, Positions
<1>2. Locals'
  BY DEF BacksOut, Goto, Forget,
     TypeOK, Locals, LocalsOf, Entering
<1>3. StackSorted' /\ WaitsUpward'
  BY DEF BacksOut, Goto, Forget,
     TypeOK, StackSorted, WaitsUpward, Elements, Locals, LocalsOf
<1>4. FlockOwned' /\ FlockReleased'
  BY DEF BacksOut, Goto, Forget,
     TypeOK, FlockOwned, FlockReleased
<1>5. MutexLocal'
  <2>1. mutex' = mutex
    BY DEF BacksOut
  <2>. QED
    BY <2>1 DEF MutexLocal
<1>6. MutexOwned'
  BY NextPathUnchanged DEF BacksOut, Goto, Forget,
     TypeOK, MutexOwned, MutexOwnedBy
<1>7. NoAbandonedLock'
  BY NextPathUnchanged DEF BacksOut, Goto, Forget,
     TypeOK, NoAbandonedLock
<1>. QED
  BY <1>1, <1>2, <1>3, <1>4, <1>5, <1>6, <1>7

\* Opening the lock file touches no lock.
LEMMA OpenLockFileKeeps ==
    ASSUME IInv, NEW t \in Threads, OpenLockFile(t)
    PROVE  IInv'
<1>. USE ProcessAssumption, FreeThread DEF IInv
<1>1. TypeOK'
  BY DEF OpenLockFile, Goto,
     TypeOK, Positions
<1>2. Locals'
  BY DEF OpenLockFile, Goto,
     TypeOK, Locals, LocalsOf, Entering
<1>3. StackSorted' /\ WaitsUpward'
  BY DEF OpenLockFile, Goto,
     TypeOK, StackSorted, WaitsUpward, Elements, Locals, LocalsOf
<1>4. FlockOwned' /\ FlockReleased'
  BY DEF OpenLockFile, Goto,
     TypeOK, FlockOwned, FlockReleased
<1>5. MutexLocal'
  <2>1. mutex' = mutex
    BY DEF OpenLockFile
  <2>. QED
    BY <2>1 DEF MutexLocal
<1>6. MutexOwned'
  BY NextPathUnchanged DEF OpenLockFile, Goto,
     TypeOK, MutexOwned, MutexOwnedBy
<1>7. NoAbandonedLock'
  BY NextPathUnchanged DEF OpenLockFile, Goto,
     TypeOK, NoAbandonedLock
<1>. QED
  BY <1>1, <1>2, <1>3, <1>4, <1>5, <1>6, <1>7

\* Taking the flock enters the path.
LEMMA AcquireFlockKeeps ==
    ASSUME IInv, NEW t \in Threads, AcquireFlock(t)
    PROVE  IInv'
<1>. USE ProcessAssumption, FreeThread DEF IInv
<1>a. PICK q \in want[t] : q = NextPath(t)
  BY NextPathIsLeast DEF AcquireFlock, TypeOK, Locals, LocalsOf, Entering
<1>b. /\ q \in Paths
      /\ flock[q] = Free
      /\ flock' = [flock EXCEPT ![q] = t]
      /\ pc[t] = "flock"
      /\ mutex' = mutex
      /\ Entered(t, q)
  BY <1>a DEF AcquireFlock, FlockAvailable, TypeOK
<1>c. /\ flock' \in [Paths -> Threads \cup {Free}]
      /\ flock'[q] = t
      /\ \A r \in Paths : flock[r] # Free => flock'[r] = flock[r]
      /\ \A r \in Paths : flock'[r] = flock[r] \/ r = q
  BY <1>b DEF TypeOK
<1>d. \A u \in Threads : \A i \in 1..Len(held[u]) : held[u][i] \in Paths
  BY DEF TypeOK
<1>f. Pushed(t, q)
  BY <1>a, <1>b, PathEntered DEF Entering
<1>g. \A i \in 1..Len(held'[t]) : i \in 1..Len(held[t]) \/ i = Len(held[t]) + 1
  BY <1>f, PushedElements
<1>h. \A u \in Threads \ {t} :
          NextPath(u)' = NextPath(u) /\ held'[u] = held[u] /\ pc'[u] = pc[u]
  BY <1>f, NextPathUnchanged DEF Pushed
<1>1. TypeOK'
  BY <1>b, <1>c, <1>f DEF Pushed, TypeOK
<1>2. Locals'
  <2>1. ASSUME NEW u \in Threads PROVE LocalsOf(u)'
    <3>1. CASE u = t
      BY <1>f, <3>1 DEF Pushed, LocalsOf, Entering
    <3>2. CASE u # t
      <4>1. held'[u] = held[u] /\ want'[u] = want[u] /\ pc'[u] = pc[u]
        BY <1>f, <3>2 DEF Pushed
      <4>. QED
        BY <4>1 DEF Locals, LocalsOf
    <3>. QED
      BY <3>1, <3>2
  <2>. QED
    BY <2>1 DEF Locals, LocalsOf
<1>3. StackSorted' /\ WaitsUpward'
  BY <1>f, StackGrows
<1>4. MutexOwned'
  <2>1. ASSUME NEW u \in Threads PROVE MutexOwnedBy(u)'
    <3>1. CASE u = t
      <4>1. pc'[t] \notin {"open", "flock"}
        BY <1>f DEF Pushed
      <4>2. \A i \in 1..Len(held'[t]) : mutex[ProcessOf[t]][held'[t][i]] = t
        <5>1. \A i \in 1..Len(held[t]) : mutex[ProcessOf[t]][held[t][i]] = t
          BY DEF MutexOwned, MutexOwnedBy
        <5>2. mutex[ProcessOf[t]][q] = t
          BY <1>a, <1>b DEF MutexOwned, MutexOwnedBy
        <5>. QED
          BY <1>f, <1>g, <5>1, <5>2 DEF Pushed
      <4>. QED
        BY <1>b, <3>1, <4>1, <4>2 DEF MutexOwnedBy
    <3>2. CASE u # t
      BY <1>b, <1>h, <3>2 DEF MutexOwned, MutexOwnedBy
    <3>. QED
      BY <3>1, <3>2
  <2>. QED
    BY <2>1 DEF MutexOwned, MutexOwnedBy
<1>5. FlockOwned'
  <2>0. Fcntl
    BY <1>b DEF Locals, LocalsOf
  <2>1. ASSUME NEW u \in Threads, NEW i \in 1..Len(held'[u]),
               pc'[u] # "unlocked" \/ i < Len(held'[u])
        PROVE  flock'[held'[u][i]] = u
    <3>1. CASE u = t
      <4>1. CASE i \in 1..Len(held[t])
        <5>1. /\ held'[t][i] = held[t][i] /\ held[t][i] \in Paths
              /\ flock[held[t][i]] = t
          BY <1>b, <1>d, <1>f, <2>0, <4>1 DEF Pushed, FlockOwned
        <5>. QED
          BY <1>c, <3>1, <5>1
      <4>2. CASE i = Len(held[t]) + 1
        BY <1>c, <1>f, <3>1, <4>2 DEF Pushed
      <4>. QED
        BY <1>g, <3>1, <4>1, <4>2
    <3>2. CASE u # t
      <4>1. /\ held'[u] = held[u] /\ held[u][i] \in Paths
            /\ flock[held[u][i]] = u
        BY <1>d, <1>h, <2>0, <2>1, <3>2 DEF FlockOwned
      <4>. QED
        BY <1>c, <4>1
    <3>. QED
      BY <3>1, <3>2
  <2>. QED
    BY <2>1 DEF FlockOwned
<1>6. MutexLocal'
  BY <1>b DEF MutexLocal
<1>7. NoAbandonedLock'
  <2>2. q \in Elements(held'[t])
    BY <1>f, PushedElements
  <2>3. Elements(held[t]) \subseteq Elements(held'[t])
    BY <1>f, PushedElements
  <2>4. \A u \in Threads : Elements(held[u]) \subseteq Elements(held'[u])
    BY <1>h, <2>3
  <2>5. \A r \in Paths, u \in Threads :
            flock'[r] = u => r \in Elements(held'[u])
    BY <1>c, <2>2, <2>4 DEF NoAbandonedLock, TypeOK
  <2>6. ASSUME NEW p \in Processes, NEW r \in Paths, NEW u \in Threads,
               mutex[p][r] = u
        PROVE  \/ r \in Elements(held'[u])
               \/ pc'[u] \in {"open", "flock"} /\ r = NextPath(u)'
    <3>1. CASE u = t
      BY <1>a, <2>2, <2>3, <2>6, <3>1 DEF NoAbandonedLock
    <3>2. CASE u # t
      BY <1>h, <2>6, <3>2 DEF NoAbandonedLock
    <3>. QED
      BY <3>1, <3>2
  <2>. QED
    BY <1>b, <2>5, <2>6 DEF NoAbandonedLock
<1>8. FlockReleased'
  <2>1. pc'[t] # "unlocked"
    BY <1>f DEF Pushed
  <2>2. Fcntl
    BY <1>b DEF Locals, LocalsOf
  <2>3. ASSUME NEW u \in Threads \ {t}, pc[u] = "unlocked"
        PROVE  flock'[held[u][Len(held[u])]] # u
    <3>1. held[u][Len(held[u])] \in Paths
      BY <2>3 DEF Locals, LocalsOf, TypeOK
    <3>. QED
      BY <1>c, <2>3, <3>1 DEF FlockReleased
  <2>. QED
    BY <1>h, <2>1, <2>2, <2>3 DEF FlockReleased
<1>. QED
  BY <1>1, <1>2, <1>3, <1>4, <1>5, <1>6, <1>7, <1>8

\* A call that gives up on the flock gives back the lock of the process:
\* OpenFails, FlockTimeout and FlockFails.
GivesUp(t) ==
    /\ pc[t] \in {"open", "flock"}
    /\ pc' = [pc EXCEPT ![t] = "exit"]
    /\ GiveBack(t)
    /\ Forget(t)
    /\ UNCHANGED <<held, flock>>

\* Giving up keeps the invariant.
LEMMA GivesUpKeeps ==
    ASSUME IInv, NEW t \in Threads, GivesUp(t)
    PROVE  IInv'
<1>. USE ProcessAssumption, FreeThread DEF IInv
<1>a. PICK q \in want[t] : q = NextPath(t)
  BY NextPathIsLeast DEF GivesUp, TypeOK, Locals, LocalsOf, Entering
<1>b. q \in Paths /\ mutex' = [mutex EXCEPT ![ProcessOf[t]][q] = Free]
  BY <1>a DEF GivesUp, GiveBack, TypeOK
<1>1. TypeOK'
  <2>1. mutex' \in [Processes -> [Paths -> Threads \cup {Free}]]
    BY <1>b DEF TypeOK
  <2>. QED
    BY <2>1 DEF GivesUp, Forget, TypeOK, Positions
<1>2. Locals'
  BY DEF GivesUp, Forget, GiveBack,
     TypeOK, Locals, LocalsOf, Entering
<1>3. StackSorted' /\ WaitsUpward'
  BY DEF GivesUp, Forget, GiveBack,
     TypeOK, StackSorted, WaitsUpward, Elements, Locals, LocalsOf
<1>4. FlockOwned' /\ FlockReleased'
  BY DEF GivesUp, Forget, GiveBack,
     TypeOK, FlockOwned, FlockReleased
<1>5. MutexLocal'
  <2>1. ASSUME NEW p \in Processes, NEW r \in Paths, NEW u \in Threads,
               mutex'[p][r] = u
        PROVE  ProcessOf[u] = p
    <3>1. mutex[p][r] = u
      BY <1>b, <2>1 DEF TypeOK
    <3>. QED
      BY <3>1 DEF MutexLocal
  <2>. QED
    BY <2>1 DEF MutexLocal
<1>6. MutexOwned'
  <2>1. \A i \in 1..Len(held[t]) : held[t][i] < q
    BY <1>a DEF WaitsUpward, Elements
  <2>2. \A u \in Threads \ {t} : NextPath(u)' = NextPath(u) /\ pc'[u] = pc[u]
    BY NextPathUnchanged DEF GivesUp, Forget, TypeOK
  <2>3. mutex[ProcessOf[t]][q] = t
    BY <1>a DEF GivesUp, MutexOwned, MutexOwnedBy
  <2>4. pc'[t] = "exit" /\ held' = held
    BY DEF GivesUp, TypeOK
  <2>5. SUFFICES ASSUME NEW u \in Threads
                 PROVE  MutexOwnedBy(u)'
    BY DEF MutexOwned, MutexOwnedBy
  <2>6. CASE u = t
    <3>1. \A i \in 1..Len(held[t]) : held[t][i] \in Paths /\ held[t][i] # q
      BY <1>b, <2>1, StackOfPaths
    <3>2. \A i \in 1..Len(held[t]) : mutex'[ProcessOf[t]][held[t][i]] = t
      BY <1>b, <3>1 DEF MutexOwned, MutexOwnedBy, TypeOK
    <3>. QED
      BY <2>4, <2>6, <3>2 DEF MutexOwnedBy
  <2>7. CASE u # t
    <3>1. \A p \in Processes, r \in Paths :
              mutex[p][r] # t => mutex'[p][r] = mutex[p][r]
      BY <1>b, <2>3 DEF TypeOK
    <3>2. pc[u] \in {"open", "flock"} => NextPath(u) \in Paths
      BY NextPathIsLeast DEF TypeOK, Locals, LocalsOf, Entering
    <3>. QED
      BY <2>2, <2>4, <2>7, <3>1, <3>2 DEF MutexOwned, MutexOwnedBy, TypeOK
  <2>. QED
    BY <2>6, <2>7
<1>7. NoAbandonedLock'
  <2>2. \A u \in Threads \ {t} : NextPath(u)' = NextPath(u) /\ pc'[u] = pc[u]
    BY NextPathUnchanged DEF GivesUp, Forget, TypeOK
  <2>4. held' = held /\ flock' = flock
    BY DEF GivesUp
  <2>5. \A p \in Processes, r \in Paths, u \in Threads :
            mutex'[p][r] = u =>
                mutex[p][r] = u /\ (p # ProcessOf[t] \/ r # q)
    BY <1>b DEF TypeOK
  <2>6. ASSUME NEW p \in Processes, NEW r \in Paths, NEW u \in Threads,
               mutex'[p][r] = u
        PROVE  \/ r \in Elements(held[u])
               \/ pc'[u] \in {"open", "flock"} /\ r = NextPath(u)'
    <3>1. CASE u = t
      <4>1. mutex[p][r] = t /\ r # q
        BY <2>5, <2>6, <3>1 DEF MutexLocal
      <4>. QED
        BY <1>a, <3>1, <4>1 DEF NoAbandonedLock
    <3>2. CASE u # t
      BY <2>2, <2>5, <2>6, <3>2 DEF NoAbandonedLock
    <3>. QED
      BY <3>1, <3>2
  <2>. QED
    BY <2>4, <2>6 DEF NoAbandonedLock
<1>. QED
  BY <1>1, <1>2, <1>3, <1>4, <1>5, <1>6, <1>7

\* Leaving the body releases nothing yet.
LEMMA LeaveKeeps ==
    ASSUME IInv, NEW t \in Threads, Leave(t)
    PROVE  IInv'
<1>. USE ProcessAssumption, FreeThread DEF IInv
<1>1. TypeOK'
  BY DEF Leave, Goto,
     TypeOK, Positions
<1>2. Locals'
  BY DEF Leave, Goto,
     TypeOK, Locals, LocalsOf, Entering
<1>3. StackSorted' /\ WaitsUpward'
  BY DEF Leave, Goto,
     TypeOK, StackSorted, WaitsUpward, Elements, Locals, LocalsOf
<1>4. FlockOwned' /\ FlockReleased'
  BY DEF Leave, Goto,
     TypeOK, FlockOwned, FlockReleased
<1>5. MutexLocal'
  <2>1. mutex' = mutex
    BY DEF Leave
  <2>. QED
    BY <2>1 DEF MutexLocal
<1>6. MutexOwned'
  BY NextPathUnchanged DEF Leave, Goto,
     TypeOK, MutexOwned, MutexOwnedBy
<1>7. NoAbandonedLock'
  BY NextPathUnchanged DEF Leave, Goto,
     TypeOK, NoAbandonedLock
<1>. QED
  BY <1>1, <1>2, <1>3, <1>4, <1>5, <1>6, <1>7

\* Giving up the flock of the last path.
LEMMA ReleaseFlockKeeps ==
    ASSUME IInv, NEW t \in Threads, ReleaseFlock(t)
    PROVE  IInv'
<1>. USE ProcessAssumption, FreeThread DEF IInv
<1>a. PICK n \in Nat : n = Len(held[t]) /\ n > 0
  BY DEF ReleaseFlock, TypeOK
<1>b. PICK q \in Paths : q = held[t][n] /\ q \in Nat
  BY <1>a, StackOfPaths
<1>c. /\ flock' = IF Fcntl THEN [flock EXCEPT ![q] = Free] ELSE flock
      /\ pc[t] = "exit"
      /\ pc' = [pc EXCEPT ![t] = "unlocked"]
      /\ held' = held /\ want' = want /\ mutex' = mutex
      /\ args' = args /\ late' = late
  BY <1>a, <1>b DEF ReleaseFlock, Goto, LastPath
<1>d. \A u \in Threads : NextPath(u)' = NextPath(u)
  BY <1>c, NextPathUnchanged
<1>1. TypeOK'
  BY <1>c DEF TypeOK, Positions
<1>2. Locals' /\ StackSorted' /\ WaitsUpward'
  BY <1>a, <1>c DEF Locals, LocalsOf, Entering, StackSorted, WaitsUpward, TypeOK
<1>3. MutexOwned'
  BY <1>c, <1>d DEF MutexOwned, MutexOwnedBy, TypeOK
<1>4. FlockOwned'
  <2>1. ASSUME Fcntl, NEW u \in Threads, NEW i \in 1..Len(held[u]),
               pc'[u] # "unlocked" \/ i < Len(held[u])
        PROVE  flock'[held[u][i]] = u
    <3>1. flock[q] = t
      BY <1>a, <1>b, <1>c, <2>1 DEF FlockOwned
    <3>2. held[u][i] \in Paths /\ flock[held[u][i]] = u
      BY <1>c, <2>1 DEF FlockOwned, TypeOK
    <3>3. CASE u # t
      BY <1>c, <2>1, <3>1, <3>2, <3>3 DEF TypeOK
    <3>4. CASE u = t
      <4>1. i < n
        BY <1>a, <1>c, <2>1, <3>4 DEF TypeOK
      <4>2. held[t][i] < q
        BY <1>a, <1>b, <2>1, <3>4, <4>1 DEF StackSorted
      <4>. QED
        <5>1. held[t][i] # q
          BY <1>b, <2>1, <3>4, <4>2, StackOfPaths
        <5>. QED
          BY <1>c, <2>1, <3>2, <3>4, <5>1 DEF TypeOK
    <3>. QED
      BY <3>3, <3>4
  <2>. QED
    BY <1>c, <2>1 DEF FlockOwned
<1>5. MutexLocal'
  BY <1>c DEF MutexLocal
<1>6. NoAbandonedLock'
  BY <1>c, <1>d DEF NoAbandonedLock, TypeOK
<1>7. FlockReleased'
  <2>1. ASSUME NEW u \in Threads, pc'[u] = "unlocked"
        PROVE  flock'[held[u][Len(held[u])]] # u
    <3>1. CASE u = t
      BY <1>a, <1>b, <1>c, <3>1 DEF FlockReleased, TypeOK
    <3>2. CASE u # t
      <4>1. pc[u] = "unlocked" /\ held[u][Len(held[u])] \in Paths
        BY <1>c, <2>1, <3>2 DEF Locals, LocalsOf, TypeOK
      <4>. QED
        BY <1>c, <4>1 DEF FlockReleased, TypeOK
    <3>. QED
      BY <3>1, <3>2
  <2>. QED
    BY <1>c, <2>1 DEF FlockReleased, TypeOK
<1>. QED
  BY <1>1, <1>2, <1>3, <1>4, <1>5, <1>6, <1>7

\* Giving up the lock of the process and popping the stack.
LEMMA ReleaseMutexKeeps ==
    ASSUME IInv, NEW t \in Threads, ReleaseMutex(t)
    PROVE  IInv'
<1>. USE ProcessAssumption, FreeThread DEF IInv
<1>a. PICK n \in Nat : n = Len(held[t]) /\ n > 0
  BY DEF ReleaseMutex, Goto, Locals, LocalsOf, TypeOK
<1>b. PICK q \in Paths : q = held[t][n] /\ q \in Nat
  BY <1>a, StackOfPaths
<1>c. /\ mutex' = [mutex EXCEPT ![ProcessOf[t]][q] = Free]
      /\ pc[t] = "unlocked"
      /\ pc' = [pc EXCEPT ![t] = "exit"]
      /\ held' = [held EXCEPT ![t] = SubSeq(held[t], 1, n - 1)]
      /\ want' = want /\ flock' = flock /\ args' = args /\ late' = late
  BY <1>a, <1>b DEF ReleaseMutex, Goto, LastPath
<1>d. \A u \in Threads : NextPath(u)' = NextPath(u)
  BY <1>c, NextPathUnchanged
<1>e. /\ held' \in [Threads -> Seq(Paths)]
      /\ Len(held'[t]) = n - 1
      /\ \A i \in 1..(n - 1) : held'[t][i] = held[t][i]
      /\ \A u \in Threads \ {t} : held'[u] = held[u] /\ pc'[u] = pc[u]
      /\ pc'[t] = "exit"
  <2>1. held[t] \in Seq(Paths) /\ held'[t] = SubSeq(held[t], 1, n - 1)
    BY <1>c DEF TypeOK
  <2>2. SubSeq(held[t], 1, n - 1) \in Seq(Paths)
    BY <1>a, <2>1
  <2>. QED
    BY <1>a, <1>c, <2>1, <2>2 DEF TypeOK
<1>f. /\ mutex' \in [Processes -> [Paths -> Threads \cup {Free}]]
      /\ \A p \in Processes, r \in Paths :
            \/ mutex'[p][r] = mutex[p][r]
            \/ p = ProcessOf[t] /\ r = q /\ mutex'[p][r] = Free
      /\ mutex'[ProcessOf[t]][q] = Free
  BY <1>c DEF TypeOK
<1>g. mutex[ProcessOf[t]][q] = t
  BY <1>a, <1>b DEF MutexOwned, MutexOwnedBy
<1>h. \A i \in 1..(n - 1) : i \in 1..Len(held[t]) /\ held[t][i] < q
  BY <1>a, <1>b DEF StackSorted
<1>1. TypeOK'
  BY <1>c, <1>e, <1>f DEF TypeOK, Positions
<1>2. Locals'
  BY <1>c, <1>e DEF Locals, LocalsOf, Entering, TypeOK
<1>3. StackSorted'
  <2>1. ASSUME NEW u \in Threads, NEW i \in 1..Len(held'[u]),
               NEW j \in 1..Len(held'[u]), i < j
        PROVE  held'[u][i] < held'[u][j]
    <3>1. CASE u = t
      <4>1. /\ i \in 1..Len(held[t]) /\ j \in 1..Len(held[t])
            /\ held'[t][i] = held[t][i] /\ held'[t][j] = held[t][j]
        BY <1>a, <1>e, <2>1, <3>1
      <4>. QED
        BY <2>1, <3>1, <4>1 DEF StackSorted
    <3>2. CASE u # t
      BY <1>e, <2>1, <3>2 DEF StackSorted
    <3>. QED
      BY <3>1, <3>2
  <2>. QED
    BY <2>1 DEF StackSorted
<1>4. WaitsUpward'
  <2>1. ASSUME NEW u \in Threads, NEW i \in 1..Len(held'[u]), NEW r \in want[u]
        PROVE  held'[u][i] < r
    BY <1>a, <1>e, <1>h, <2>1 DEF WaitsUpward, Elements
  <2>. QED
    BY <1>c, <2>1 DEF WaitsUpward, Elements
<1>5. MutexOwned'
  <2>1. ASSUME NEW u \in Threads, NEW i \in 1..Len(held'[u])
        PROVE  mutex'[ProcessOf[u]][held'[u][i]] = u
    <3>1. CASE u = t
      <4>1. /\ i \in 1..(n - 1)
            /\ held'[t][i] = held[t][i] /\ held[t][i] < q
            /\ i \in 1..Len(held[t])
        BY <1>e, <1>h, <2>1, <3>1
      <4>2. held[t][i] \in Paths /\ mutex[ProcessOf[t]][held[t][i]] = t
        BY <4>1 DEF MutexOwned, MutexOwnedBy, TypeOK
      <4>3. held[t][i] # q
        BY <1>b, <4>1, StackOfPaths
      <4>. QED
        BY <1>f, <3>1, <4>1, <4>2, <4>3
    <3>2. CASE u # t
      <4>1. /\ held'[u][i] = held[u][i]
            /\ held[u][i] \in Paths
            /\ mutex[ProcessOf[u]][held[u][i]] = u
        BY <1>e, <2>1, <3>2 DEF MutexOwned, MutexOwnedBy, TypeOK
      <4>. QED
        BY <1>f, <1>g, <3>2, <4>1
    <3>. QED
      BY <3>1, <3>2
  <2>2. ASSUME NEW u \in Threads, pc'[u] \in {"open", "flock"}
        PROVE  mutex'[ProcessOf[u]][NextPath(u)] = u
    <3>1. u # t /\ pc[u] \in {"open", "flock"}
      BY <1>e, <2>2
    <3>2. NextPath(u) \in Paths
      BY <3>1, NextPathIsLeast DEF TypeOK, Locals, LocalsOf, Entering
    <3>. QED
      BY <1>f, <1>g, <3>1, <3>2 DEF MutexOwned, MutexOwnedBy
  <2>. QED
    BY <1>d, <2>1, <2>2 DEF MutexOwned, MutexOwnedBy
<1>6. FlockOwned'
  <2>1. ASSUME Fcntl, NEW u \in Threads, NEW i \in 1..Len(held'[u]),
               pc'[u] # "unlocked" \/ i < Len(held'[u])
        PROVE  flock[held'[u][i]] = u
    <3>1. CASE u = t
      <4>1. /\ i \in 1..Len(held[t]) /\ i < Len(held[t])
            /\ held'[t][i] = held[t][i]
        BY <1>a, <1>e, <2>1, <3>1
      <4>. QED
        BY <2>1, <3>1, <4>1 DEF FlockOwned
    <3>2. CASE u # t
      BY <1>e, <2>1, <3>2 DEF FlockOwned
    <3>. QED
      BY <3>1, <3>2
  <2>. QED
    BY <1>c, <2>1 DEF FlockOwned
<1>7. MutexLocal'
  <2>1. ASSUME NEW p \in Processes, NEW r \in Paths, NEW u \in Threads,
               mutex'[p][r] = u
        PROVE  ProcessOf[u] = p
    <3>1. mutex[p][r] = u
      BY <1>f, <2>1 DEF TypeOK
    <3>. QED
      BY <3>1 DEF MutexLocal
  <2>. QED
    BY <2>1 DEF MutexLocal
<1>8. NoAbandonedLock'
  <2>1. \A r \in Elements(held[t]) : r = q \/ r \in Elements(held'[t])
    <3>1. ASSUME NEW i \in 1..Len(held[t])
          PROVE  held[t][i] = q \/ held[t][i] \in Elements(held'[t])
      <4>1. i = n \/ i \in 1..(n - 1)
        BY <1>a
      <4>. QED
        BY <1>b, <1>e, <4>1 DEF Elements
    <3>. QED
      BY <3>1 DEF Elements
  <2>2. ASSUME NEW r \in Paths, NEW u \in Threads, flock[r] = u
        PROVE  r \in Elements(held'[u])
    <3>1. r \in Elements(held[u])
      BY <2>2 DEF NoAbandonedLock
    <3>2. CASE u # t
      BY <1>e, <3>1, <3>2
    <3>3. CASE u = t
      <4>1. r # q
        BY <1>a, <1>b, <1>c, <2>2, <3>3 DEF FlockReleased
      <4>. QED
        BY <2>1, <3>1, <3>3, <4>1
    <3>. QED
      BY <3>2, <3>3
  <2>3. ASSUME NEW p \in Processes, NEW r \in Paths, NEW u \in Threads,
               mutex'[p][r] = u
        PROVE  \/ r \in Elements(held'[u])
               \/ pc'[u] \in {"open", "flock"} /\ r = NextPath(u)
    <3>1. mutex[p][r] = u /\ ~(p = ProcessOf[t] /\ r = q)
      BY <1>f, <2>3
    <3>2. CASE u = t
      <4>1. p = ProcessOf[t]
        BY <3>1, <3>2 DEF MutexLocal
      <4>. QED
        BY <1>c, <2>1, <3>1, <3>2, <4>1 DEF NoAbandonedLock
    <3>3. CASE u # t
      BY <1>e, <3>1, <3>3 DEF NoAbandonedLock
    <3>. QED
      BY <3>2, <3>3
  <2>. QED
    BY <1>c, <1>d, <2>2, <2>3 DEF NoAbandonedLock
<1>9. FlockReleased'
  BY <1>c, <1>e DEF FlockReleased
<1>. QED
  BY <1>1, <1>2, <1>3, <1>4, <1>5, <1>6, <1>7, <1>8, <1>9

\* A call returns with an empty stack.
LEMMA ReturnedKeeps ==
    ASSUME IInv, NEW t \in Threads, Returned(t)
    PROVE  IInv'
<1>. USE ProcessAssumption, FreeThread DEF IInv
<1>1. TypeOK'
  BY DEF Returned, Goto,
     TypeOK, Positions
<1>2. Locals'
  BY DEF Returned, Goto,
     TypeOK, Locals, LocalsOf, Entering
<1>3. StackSorted' /\ WaitsUpward'
  BY DEF Returned, Goto,
     TypeOK, StackSorted, WaitsUpward, Elements, Locals, LocalsOf
<1>4. FlockOwned' /\ FlockReleased'
  BY DEF Returned, Goto,
     TypeOK, FlockOwned, FlockReleased
<1>5. MutexLocal'
  <2>1. mutex' = mutex
    BY DEF Returned
  <2>. QED
    BY <2>1 DEF MutexLocal
<1>6. MutexOwned'
  BY NextPathUnchanged DEF Returned, Goto,
     TypeOK, MutexOwned, MutexOwnedBy
<1>7. NoAbandonedLock'
  BY NextPathUnchanged DEF Returned, Goto,
     TypeOK, NoAbandonedLock
<1>. QED
  BY <1>1, <1>2, <1>3, <1>4, <1>5, <1>6, <1>7

\* The death of a process frees its locks and no others.
LEMMA KillKeeps ==
    ASSUME IInv, NEW p \in Processes, Kill(p)
    PROVE  IInv'
<1>. USE PathsAssumption, ProcessAssumption, FreeThread DEF IInv
<1>0. /\ pc' = [t \in Threads |-> IF ProcessOf[t] = p THEN "idle" ELSE pc[t]]
      /\ args' = [t \in Threads |-> IF ProcessOf[t] = p THEN <<>> ELSE args[t]]
      /\ want' = [t \in Threads |-> IF ProcessOf[t] = p THEN {} ELSE want[t]]
      /\ held' = [t \in Threads |-> IF ProcessOf[t] = p THEN <<>> ELSE held[t]]
      /\ late' = [t \in Threads |-> IF ProcessOf[t] = p THEN FALSE ELSE late[t]]
      /\ mutex' = [mutex EXCEPT ![p] = [q \in Paths |-> Free]]
      /\ flock' = [q \in Paths |->
                      IF flock[q] \in {t \in Threads : ProcessOf[t] = p}
                      THEN Free ELSE flock[q]]
  BY DEF Kill
<1>1. \A t \in Threads :
          /\ ProcessOf[t] = p =>
                pc'[t] = "idle" /\ want'[t] = {} /\ held'[t] = <<>>
          /\ ProcessOf[t] # p =>
                pc'[t] = pc[t] /\ want'[t] = want[t] /\ held'[t] = held[t]
  BY <1>0
<1>a. \A r \in Processes, q \in Paths, t \in Threads :
          mutex'[r][q] = t <=> mutex[r][q] = t /\ r # p
  BY <1>0 DEF TypeOK
<1>b. \A q \in Paths, t \in Threads :
          flock'[q] = t <=> flock[q] = t /\ ProcessOf[t] # p
  BY <1>0 DEF TypeOK
<1>2. \A t \in Threads : ProcessOf[t] # p => NextPath(t)' = NextPath(t)
  BY <1>1, NextPathUnchanged
<1>3. TypeOK'
  <2>1. pc' \in [Threads -> Positions]
    BY <1>0 DEF TypeOK, Positions
  <2>2. args' \in [Threads -> Seq(Paths)] /\ held' \in [Threads -> Seq(Paths)]
    BY <1>0 DEF TypeOK
  <2>3. want' \in [Threads -> SUBSET Paths] /\ late' \in [Threads -> BOOLEAN]
    BY <1>0 DEF TypeOK
  <2>4. mutex' \in [Processes -> [Paths -> Threads \cup {Free}]]
    BY <1>0 DEF TypeOK
  <2>5. flock' \in [Paths -> Threads \cup {Free}]
    BY <1>0 DEF TypeOK
  <2>. QED
    BY <2>1, <2>2, <2>3, <2>4, <2>5 DEF TypeOK
<1>4. Locals'
  BY <1>1 DEF Locals, LocalsOf, Entering
<1>5. StackSorted'
  BY <1>1 DEF StackSorted
<1>6. WaitsUpward'
  BY <1>1 DEF WaitsUpward, Elements
<1>7. MutexOwned'
  <2>1. ASSUME NEW t \in Threads PROVE MutexOwnedBy(t)'
    <3>1. CASE ProcessOf[t] = p
      BY <1>1, <3>1 DEF MutexOwnedBy
    <3>2. CASE ProcessOf[t] # p
      <4>1. \A i \in 1..Len(held[t]) :
                held[t][i] \in Paths /\ mutex[ProcessOf[t]][held[t][i]] = t
        BY StackOfPaths DEF MutexOwned, MutexOwnedBy
      <4>0. \A q \in Paths : mutex'[ProcessOf[t]][q] = mutex[ProcessOf[t]][q]
        BY <1>0, <3>2 DEF TypeOK
      <4>2. \A i \in 1..Len(held[t]) : mutex'[ProcessOf[t]][held[t][i]] = t
        BY <4>0, <4>1
      <4>3. pc[t] \in {"open", "flock"} =>
                NextPath(t) \in Paths /\ mutex[ProcessOf[t]][NextPath(t)] = t
        BY NextPathIsLeast
           DEF TypeOK, Locals, LocalsOf, Entering, MutexOwned, MutexOwnedBy
      <4>4. pc[t] \in {"open", "flock"} => mutex'[ProcessOf[t]][NextPath(t)] = t
        BY <4>0, <4>3
      <4>. QED
        BY <1>1, <1>2, <3>2, <4>2, <4>4 DEF MutexOwnedBy
    <3>. QED
      BY <3>1, <3>2
  <2>. QED
    BY <2>1 DEF MutexOwned
<1>8. FlockOwned'
  <2>1. ASSUME Fcntl, NEW t \in Threads, NEW i \in 1..Len(held'[t]),
               pc'[t] # "unlocked" \/ i < Len(held'[t])
        PROVE  flock'[held'[t][i]] = t
    <3>1. ProcessOf[t] # p
      BY <1>1, <2>1
    <3>2. held'[t] = held[t] /\ pc'[t] = pc[t]
      BY <1>1, <3>1
    <3>3. held[t][i] \in Paths
      BY <2>1, <3>2, StackOfPaths
    <3>4. flock[held[t][i]] = t
      BY <2>1, <3>2 DEF FlockOwned
    <3>. QED
      BY <1>b, <3>1, <3>2, <3>3, <3>4
  <2>. QED
    BY <2>1 DEF FlockOwned
<1>9. FlockReleased'
  <2>1. ASSUME NEW t \in Threads, pc'[t] = "unlocked"
        PROVE  flock'[held'[t][Len(held'[t])]] # t
    <3>1. ProcessOf[t] # p
      BY <1>1, <2>1
    <3>2. held'[t] = held[t] /\ pc[t] = "unlocked"
      BY <1>1, <2>1, <3>1
    <3>3. held[t][Len(held[t])] \in Paths
      BY <3>2 DEF Locals, LocalsOf, TypeOK
    <3>4. flock[held[t][Len(held[t])]] # t
      BY <3>2 DEF FlockReleased
    <3>. QED
      BY <1>b, <3>2, <3>3, <3>4
  <2>2. ~Fcntl => \A q \in Paths : flock'[q] = Free
    BY <1>0 DEF FlockReleased
  <2>. QED
    BY <2>1, <2>2 DEF FlockReleased
<1>10. MutexLocal'
  BY <1>a DEF MutexLocal
<1>11. NoAbandonedLock'
  <2>1. ASSUME NEW q \in Paths, NEW t \in Threads, flock'[q] = t
        PROVE  q \in Elements(held'[t])
    <3>1. flock[q] = t /\ ProcessOf[t] # p
      BY <1>b, <2>1
    <3>2. held'[t] = held[t]
      BY <1>1, <3>1
    <3>. QED
      BY <3>1, <3>2 DEF NoAbandonedLock
  <2>2. ASSUME NEW r \in Processes, NEW q \in Paths, NEW t \in Threads,
               mutex'[r][q] = t
        PROVE  \/ q \in Elements(held'[t])
               \/ pc'[t] \in {"open", "flock"} /\ q = NextPath(t)'
    <3>1. r # p /\ mutex[r][q] = t
      BY <1>a, <2>2
    <3>2. ProcessOf[t] # p
      BY <3>1 DEF MutexLocal
    <3>. QED
      BY <1>1, <1>2, <3>1, <3>2 DEF NoAbandonedLock
  <2>. QED
    BY <2>1, <2>2 DEF NoAbandonedLock
<1>. QED
  BY <1>3, <1>4, <1>5, <1>6, <1>7, <1>8, <1>9, <1>10, <1>11

\* The inductive invariant holds of every behaviour.
THEOREM Invariance == Spec => []IInv
<1>1. Init => IInv
  <2>. SUFFICES ASSUME Init PROVE IInv
    OBVIOUS
  <2>1. TypeOK
    BY DEF Init, TypeOK, Positions
  <2>. QED
    BY <2>1, FreeThread
       DEF Init, IInv, Locals, LocalsOf, Entering, StackSorted,
           WaitsUpward, MutexOwned, MutexOwnedBy,
           FlockOwned, FlockReleased, MutexLocal, NoAbandonedLock, Elements,
           TypeOK
<1>2. IInv /\ [Next]_vars => IInv'
  <2>. SUFFICES ASSUME IInv, [Next]_vars PROVE IInv'
    OBVIOUS
  <2>1. ASSUME NEW t \in Threads, Step(t) PROVE IInv'
    <3>1. OpenFails(t) \/ FlockTimeout(t) \/ FlockFails(t) => GivesUp(t)
      BY DEF OpenFails, FlockTimeout, FlockFails, Goto, GivesUp
    <3>2. LockPathFails(t) \/ MutexTimeout(t) => BacksOut(t)
      BY DEF LockPathFails, MutexTimeout, BacksOut
    <3>. QED
      BY <2>1, <3>1, <3>2, AcquireMutexKeeps, BacksOutKeeps, OpenLockFileKeeps,
         GivesUpKeeps, AcquireFlockKeeps, LeaveKeeps, ReleaseFlockKeeps,
         ReleaseMutexKeeps, ReturnedKeeps DEF Step, Proceed, Fail
  <2>2. CASE UNCHANGED vars
    <3>1. \A t \in Threads : NextPath(t)' = NextPath(t)
      BY <2>2, NextPathUnchanged DEF vars
    <3>. QED
      BY <2>2, <3>1
         DEF vars, IInv, TypeOK, Locals, LocalsOf, StackSorted,
             WaitsUpward, MutexOwned, MutexOwnedBy,
             FlockOwned, FlockReleased, MutexLocal, NoAbandonedLock
  <2>. QED
    BY <2>1, <2>2, CallKeeps, ExpireKeeps, KillKeeps DEF Next
<1>. QED
  BY <1>1, <1>2, PTL DEF Spec

\* The types of the locks and of the locals, for all constants.
THEOREM TypeCorrect == Spec => []TypeOK
BY Invariance, PTL DEF IInv

\* Two coordinated threads are never inside the same path: the flock, or the
\* lock of the process where there is no flock, has one holder.
LEMMA ExclusionFromOwnership ==
    ASSUME IInv
    PROVE  MutualExclusion
<1>. USE DEF IInv
<1>1. SUFFICES ASSUME NEW t \in Threads, NEW u \in Threads, Coordinated(t, u),
                      NEW q \in Inside(t), q \in Inside(u)
               PROVE  FALSE
  BY DEF MutualExclusion
<1>2. PICK i \in 1..Len(held[t]) : q = held[t][i] /\ pc[t] = "inside"
  BY <1>1 DEF Inside, Elements
<1>3. PICK j \in 1..Len(held[u]) : q = held[u][j] /\ pc[u] = "inside"
  BY <1>1 DEF Inside, Elements
<1>0. t # u
  BY <1>1 DEF Coordinated
<1>4. CASE Fcntl
  <2>1. flock[q] = t
    BY <1>2, <1>4 DEF FlockOwned
  <2>2. flock[q] = u
    BY <1>3, <1>4 DEF FlockOwned
  <2>. QED
    BY <1>0, <2>1, <2>2
<1>5. CASE ProcessOf[t] = ProcessOf[u]
  <2>1. mutex[ProcessOf[t]][q] = t
    BY <1>2 DEF MutexOwned, MutexOwnedBy
  <2>2. mutex[ProcessOf[u]][q] = u
    BY <1>3 DEF MutexOwned, MutexOwnedBy
  <2>. QED
    BY <1>0, <1>5, <2>1, <2>2
<1>. QED
  BY <1>1, <1>4, <1>5 DEF Coordinated

\* Mutual exclusion of coordinated threads.
THEOREM Excluded == Spec => []MutualExclusion
BY Invariance, ExclusionFromOwnership, PTL

\* Paths are waited for in ascending order.
THEOREM Upward == Spec => []WaitsUpward
BY Invariance, PTL DEF IInv

\* Every lock belongs to a thread that will release it.
THEOREM NoneAbandoned == Spec => []NoAbandonedLock
BY Invariance, PTL DEF IInv

\* A step of one thread is a step of the exclusion: it enters a set of paths
\* nobody it is coordinated with is inside of, or it is outside afterwards.
LEMMA StepOfOneThread ==
    ASSUME IInv, IInv', NEW t \in Threads,
           pc[t] # "inside" \/ pc'[t] # "inside",
           \A u \in Threads \ {t} : pc'[u] = pc[u] /\ held'[u] = held[u]
    PROVE  Exclusion!Next
<1>1. \A u \in Threads \ {t} : inside'[u] = inside[u]
  BY DEF inside, Inside
<1>2. inside' = [u \in Threads |-> IF u = t THEN inside'[t] ELSE inside[u]]
  BY <1>1 DEF inside
<1>3. CASE inside'[t] = {}
  <2>1. inside' = [u \in Threads |-> IF u \in {t} THEN {} ELSE inside[u]]
    BY <1>2, <1>3
  <2>2. Exclusion!Leave({t})
    BY <2>1 DEF Exclusion!Leave
  <2>. QED
    BY <2>2 DEF Exclusion!Next
<1>4. CASE inside'[t] # {}
  <2>1. pc'[t] = "inside" /\ inside'[t] = Elements(held'[t])
    BY <1>4 DEF inside, Inside
  <2>2. inside[t] = {}
    BY <2>1 DEF inside, Inside
  <2>3. inside' = [inside EXCEPT ![t] = inside'[t]]
    BY <1>2 DEF inside
  <2>4. ASSUME NEW u \in Threads, Exclusion!Coordinated(t, u)
        PROVE  inside'[t] \cap inside[u] = {}
    <3>1. Coordinated(t, u)
      BY <2>4 DEF Exclusion!Coordinated, Coordinated
    <3>2. inside'[u] = inside[u]
      BY <1>1, <3>1 DEF Coordinated
    <3>3. MutualExclusion'
      BY ExclusionFromOwnership, PTL
    <3>4. inside'[t] \cap inside'[u] = {}
      BY <3>1, <3>3 DEF MutualExclusion, Coordinated, inside
    <3>. QED
      BY <3>2, <3>4
  <2>5. inside'[t] \in SUBSET Paths
    BY <2>1 DEF IInv, TypeOK, Elements
  <2>6. Exclusion!Enter(t, inside'[t])
    BY <1>4, <2>2, <2>3, <2>4 DEF Exclusion!Enter
  <2>. QED
    BY <2>5, <2>6 DEF Exclusion!Next
<1>. QED
  BY <1>3, <1>4

\* The death of a process takes its threads outside.
LEMMA KillIsLeave ==
    ASSUME NEW p \in Processes, Kill(p)
    PROVE  Exclusion!Next
<1>. DEFINE T == {t \in Threads : ProcessOf[t] = p}
<1>1. \A t \in Threads :
          /\ t \in T => pc'[t] = "idle"
          /\ t \notin T => pc'[t] = pc[t] /\ held'[t] = held[t]
  BY DEF Kill
<1>2. \A t \in Threads : inside'[t] = IF t \in T THEN {} ELSE inside[t]
  BY <1>1 DEF inside, Inside
<1>3. Exclusion!Leave(T)
  BY <1>2 DEF Exclusion!Leave, inside
<1>. QED
  BY <1>3 DEF Exclusion!Next

\* The two-level lock with its deadline, its failures and the death of
\* processes implements the exclusion the CRUD operations rely on.
THEOREM Refinement == Spec => ImplementsExclusion
<1>1. Init => Exclusion!Init
  BY DEF Init, Exclusion!Init, inside, Inside
<1>2. IInv /\ IInv' /\ [Next]_vars => [Exclusion!Next]_inside
  <2>. SUFFICES ASSUME IInv, IInv', [Next]_vars
                PROVE  Exclusion!Next \/ inside' = inside
    OBVIOUS
  <2>1. ASSUME NEW t \in Threads, \/ \E s \in Calls : Call(t, s)
                                  \/ Expire(t)
                                  \/ Step(t)
        PROVE  Exclusion!Next
    <3>1. /\ pc[t] # "inside" \/ pc'[t] # "inside"
          /\ \A u \in Threads \ {t} : pc'[u] = pc[u] /\ held'[u] = held[u]
      <4>1. CASE \E s \in Calls : Call(t, s)
        BY <4>1 DEF IInv, TypeOK, Call, Goto
      <4>2. CASE Expire(t)
        BY <4>2 DEF Expire
      <4>3. CASE AcquireMutex(t)
        BY <4>3 DEF IInv, TypeOK, AcquireMutex, Entered
      <4>4. CASE AcquireFlock(t)
        BY <4>4 DEF IInv, TypeOK, AcquireFlock, Entered
      <4>5. CASE \/ LockPathFails(t) \/ MutexTimeout(t) \/ OpenLockFile(t)
                 \/ OpenFails(t) \/ FlockTimeout(t) \/ FlockFails(t)
        BY <4>5 DEF IInv, TypeOK, LockPathFails, MutexTimeout, OpenLockFile,
                    OpenFails, FlockTimeout, FlockFails, Goto
      <4>6. CASE Leave(t) \/ ReleaseFlock(t) \/ ReleaseMutex(t) \/ Returned(t)
        BY <4>6 DEF IInv, TypeOK, Leave, ReleaseFlock, ReleaseMutex, Returned,
                    Goto
      <4>. QED
        BY <2>1, <4>1, <4>2, <4>3, <4>4, <4>5, <4>6 DEF Step, Proceed, Fail
    <3>. QED
      BY <3>1, StepOfOneThread
  <2>2. CASE UNCHANGED vars
    BY <2>2 DEF vars, inside, Inside
  <2>. QED
    BY <2>1, <2>2, KillIsLeave DEF Next
<1>. QED
  BY <1>1, <1>2, Invariance, PTL DEF Spec, ImplementsExclusion, Exclusion!Spec

-----------------------------------------------------------------------------

\* Whoever blocks a thread is busy, and is itself blocked only on a path
\* that comes later.
LEMMA BlockersAreAhead ==
    ASSUME IInv, NEW t \in Threads, Blocked(t)
    PROVE  \E v \in Threads :
              /\ pc[v] # "idle"
              /\ Blocked(v) => NextPath(t) < NextPath(v)
<1>. USE DEF IInv
<1>0. ASSUME NEW v \in Threads, Blocked(v)
      PROVE  /\ want[v] # {} /\ NextPath(v) \in want[v]
             /\ NextPath(v) \in Paths
  BY <1>0, NextPathIsLeast DEF Blocked, Locals, LocalsOf, Entering, TypeOK
<1>1. PICK q \in Paths : q = NextPath(t)
  BY <1>0
<1>2. ASSUME NEW v \in Threads, q \in Elements(held[v])
      PROVE  /\ pc[v] # "idle"
             /\ Blocked(v) => NextPath(t) < NextPath(v)
  <2>1. pc[v] # "idle"
    BY <1>2 DEF Locals, LocalsOf, Elements
  <2>2. ASSUME Blocked(v) PROVE NextPath(t) < NextPath(v)
    BY <1>0, <1>1, <1>2, <2>2 DEF WaitsUpward
  <2>. QED
    BY <2>1, <2>2
<1>3. ASSUME NEW v \in Threads, flock[q] = v PROVE q \in Elements(held[v])
  BY <1>3 DEF NoAbandonedLock
<1>4. flock[q] # Free => \E v \in Threads : q \in Elements(held[v])
  BY <1>3 DEF TypeOK
<1>5. CASE flock[q] # Free
  BY <1>2, <1>4, <1>5
<1>6. CASE flock[q] = Free
  <2>1. ProcessOf[t] \in Processes /\ mutex[ProcessOf[t]][q] # Free
    BY <1>1, <1>6, ProcessAssumption DEF Blocked
  <2>2. PICK v \in Threads : mutex[ProcessOf[t]][q] = v
    BY <2>1 DEF TypeOK
  <2>3. CASE q \in Elements(held[v])
    BY <1>2, <2>3
  <2>4. CASE pc[v] \in {"open", "flock"} /\ q = NextPath(v)
    <3>1. pc[v] # "idle" /\ ~Blocked(v)
      BY <1>6, <2>4 DEF Blocked
    <3>. QED
      BY <3>1
  <2>. QED
    BY <2>1, <2>2, <2>3, <2>4 DEF NoAbandonedLock
<1>. QED
  BY <1>5, <1>6

\* The paths after q; the later the path, the fewer they are.
After(q) == {r \in Paths : q < r}

\* A later path has fewer paths after it.
LEMMA FewerAfterLater ==
    ASSUME NEW q \in Paths, NEW r \in Paths, q < r
    PROVE  /\ Cardinality(After(q)) \in Nat
           /\ Cardinality(After(r)) \in Nat
           /\ Cardinality(After(r)) < Cardinality(After(q))
<1>. USE PathsAssumption
<1>1. IsFiniteSet(After(q)) /\ IsFiniteSet(After(r))
  BY FS_Subset DEF After
<1>2. After(r) \subseteq After(q) /\ r \in After(q) /\ r \notin After(r)
  <2>1. q \in Nat /\ r \in Nat /\ \A x \in Paths : x \in Nat
    OBVIOUS
  <2>2. \A x \in Paths : r < x => q < x
    BY <2>1
  <2>3. After(r) \subseteq After(q)
    BY <2>2 DEF After
  <2>4. ~(r < r)
    BY <2>1
  <2>. QED
    BY <2>3, <2>4 DEF After
<1>3. Cardinality(After(r)) =< Cardinality(After(q))
  BY <1>1, <1>2, FS_Subset
<1>4. Cardinality(After(r)) # Cardinality(After(q))
  BY <1>1, <1>2, FS_Subset
<1>. QED
  BY <1>1, <1>3, <1>4, FS_CardinalityType

\* Not all threads wait for each other: a blocked thread of the latest path
\* waits for one that is not blocked.
LEMMA NoCircleOfWaiting ==
    ASSUME IInv
    PROVE  SomeoneRuns
<1>. DEFINE Waiting == {t \in Threads : Blocked(t)}
            Left(t) == Cardinality(After(NextPath(t)))
            Lefts == {Left(t) : t \in Waiting}
<1>1. SUFFICES ASSUME Waiting # {}
               PROVE  \E u \in Threads : pc[u] # "idle" /\ ~Blocked(u)
  BY DEF SomeoneRuns
<1>2. \A t \in Waiting : NextPath(t) \in Paths
  BY NextPathIsLeast
     DEF IInv, Blocked, Locals, LocalsOf, Entering, TypeOK
<1>3. \A t \in Waiting : Left(t) \in Nat
  <2>1. \A q \in Paths : Cardinality(After(q)) \in Nat
    BY PathsAssumption, FS_Subset, FS_CardinalityType DEF After
  <2>. QED
    BY <1>2, <2>1
<1>4. Lefts \subseteq Nat /\ Lefts # {}
  BY <1>1, <1>3
<1>. HIDE DEF Lefts
<1>5. PICK n \in Lefts : \A m \in Lefts : ~(<<m, n>> \in OpToRel(<, Nat))
  BY <1>4, NatLessThanWellFounded, WFMin, Zenon
<1>6. \A m \in Lefts : ~(m < n)
  <2>1. \A m \in Nat : m < n => <<m, n>> \in OpToRel(<, Nat)
    BY <1>4 DEF OpToRel
  <2>. QED
    BY <1>4, <1>5, <2>1, Zenon
<1>7. PICK t \in Waiting : n = Left(t)
  BY DEF Lefts
<1>8. PICK v \in Threads : /\ pc[v] # "idle"
                           /\ Blocked(v) => NextPath(t) < NextPath(v)
  BY BlockersAreAhead
<1>9. CASE Blocked(v)
  <2>1. v \in Waiting /\ NextPath(t) < NextPath(v)
    BY <1>8, <1>9
  <2>2. Left(v) < Left(t)
    BY <1>2, <2>1, FewerAfterLater
  <2>3. Left(v) \in Lefts
    BY <2>1 DEF Lefts
  <2>. QED
    BY <1>6, <1>7, <2>2, <2>3
<1>. QED
  BY <1>8, <1>9

\* Calls that name the same paths in opposite order do not deadlock.
THEOREM NoDeadlock == Spec => []SomeoneRuns
BY Invariance, NoCircleOfWaiting, PTL

\* lock_paths as a lock, for any threads, processes and paths: exclusion, and
\* nothing left locked.
THEOREM Sound == Spec => []LocksSound
<1>1. MutualExclusion /\ NoAbandonedLock => LocksSound
  BY DEF LocksSound
<1>. QED
  BY <1>1, Excluded, NoneAbandoned, PTL

\* lock_paths does not deadlock, because paths are taken in ascending order.
THEOREM Unblocked == Spec => []DeadlockFree
<1>1. WaitsUpward /\ SomeoneRuns => DeadlockFree
  BY DEF DeadlockFree
<1>. QED
  BY <1>1, Upward, NoDeadlock, PTL
=============================================================================
