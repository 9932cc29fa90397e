------------------------- MODULE ReindexQueueProofs -------------------------
(***************************************************************************)
(* Proofs about ReindexQueue, for every set of keys, tool threads and      *)
(* thread identities and every value of max_pending.                       *)
(*                                                                         *)
(* The inductive invariant has four parts besides the types: the life of   *)
(* the worker thread (Lifecycle), where a pending key is (KeysAccountedFor *)
(* with OwnedKeys), the bound (PendingCounted), and which changes were     *)
(* already read (ChangesCovered).                                          *)
(***************************************************************************)
EXTENDS ReindexQueue, TLAPS, FiniteSetTheorems

\* At most one thread is ever created; it ends only after stop, on an empty
\* queue; a pending key implies that the thread exists.
Lifecycle ==
    /\ accepting <=> (spc = "running")
    /\ stopSet <=> (spc \in {"joining", "drained", "timed_out"})
    /\ \A w \in Workers : w # worker => wpc[w] = "unborn"
    /\ worker \in Workers => wpc[worker] # "unborn"
    /\ worker \in Workers /\ wpc[worker] = "exited" => stopSet /\ queue = <<>>
    /\ Pending # {} => worker \in Workers
    /\ spc = "drained" => ~WorkerAlive

\* A thread that owns a key observed a version that is not newer than the
\* current one.
OwnedKeys ==
    /\ \A w \in Workers : wpc[w] \in Owning => wkey[w] \in Keys
    /\ \A w \in Workers :
          wpc[w] \in Owning \ {"observe"} =>
              /\ observed[w] # 0
              /\ observed[w] =< versions[wkey[w]]
    /\ \A c \in Clients : cpc[c] = "mutated" => ckey[c] \in Keys

PendingCounted ==
    /\ IsFiniteSet(Pending)
    /\ Cardinality(Pending) =< MaxPending

\* An accepted change not read yet belongs to a pending key; when the run of
\* that key is past its read, the version tells that the change came later.
ChangesCovered ==
    /\ \A k \in Keys : required[k] =< disk[k]
    /\ \A k \in Keys \ Pending : required[k] =< attempted[k]
    /\ \A w \in Workers :
          /\ wpc[w] \in {"commit", "finish"}
          /\ observed[w] = versions[wkey[w]]
          => required[wkey[w]] =< attempted[wkey[w]]

IInv ==
    /\ TypeOK
    /\ Lifecycle
    /\ OwnedKeys
    /\ KeysAccountedFor
    /\ PendingCounted
    /\ ChangesCovered

-----------------------------------------------------------------------------
(***************************************************************************)
(* Sequences and thread states.                                            *)
(***************************************************************************)

\* The queue after get: the other entries move up by one.
LEMMA TailOfQueue ==
    ASSUME NEW S, NEW q \in Seq(S), q # <<>>
    PROVE  /\ Head(q) = q[1] /\ Head(q) \in S
           /\ Tail(q) \in Seq(S)
           /\ Len(q) \in Nat \ {0}
           /\ Len(Tail(q)) = Len(q) - 1
           /\ \A i \in 1..Len(q) - 1 : Tail(q)[i] = q[i + 1]
  OBVIOUS

\* The queue after put_nowait: one more entry at the end.
LEMMA AppendToQueue ==
    ASSUME NEW S, NEW q \in Seq(S), NEW e \in S
    PROVE  /\ Append(q, e) \in Seq(S)
           /\ Len(q) \in Nat
           /\ Len(Append(q, e)) = Len(q) + 1
           /\ \A i \in 1..Len(q) : Append(q, e)[i] = q[i]
           /\ Append(q, e)[Len(q) + 1] = e
  OBVIOUS

USE MaxPendingAssumption, WorkersAssumption,
    NoKeyAssumption

\* Init establishes the inductive invariant.
LEMMA InitInv == Init => IInv
<1> SUFFICES ASSUME Init PROVE IInv
  OBVIOUS
<1>1. Pending = {}
  BY DEF Init, Pending
<1>2. InFlight = {}
  BY DEF Init, InFlight, Owning
<1>3. IsFiniteSet(Pending) /\ Cardinality(Pending) = 0
  BY <1>1, FS_EmptySet
<1>4. TypeOK
  <2>1. 0 \in Revisions
    BY DEF Revisions
  <2>2. queue \in Seq(Keys)
    BY DEF Init
  <2>3. wpc \in [Workers -> Owning \cup {"unborn", "check", "get", "exited"}]
    BY DEF Init
  <2>4. accepting \in BOOLEAN /\ stopSet \in BOOLEAN
    BY DEF Init
  <2> QED
    BY <2>1, <2>2, <2>3, <2>4 DEF Init, TypeOK
<1>5. Lifecycle
  BY <1>1 DEF Init, Lifecycle
<1>6. OwnedKeys
  BY DEF Init, OwnedKeys, Owning
<1>7. KeysAccountedFor
  BY <1>1, <1>2 DEF Init, KeysAccountedFor
<1>8. PendingCounted
  BY <1>3 DEF PendingCounted
<1>9. ChangesCovered
  BY DEF Init, ChangesCovered
<1> QED
  BY <1>4, <1>5, <1>6, <1>7, <1>8, <1>9 DEF IInv

\* What a step needs to leave alone for the accounting of keys.
LEMMA SameAccounting ==
    ASSUME IInv, UNCHANGED lockVars, InFlight' = InFlight
    PROVE  KeysAccountedFor' /\ PendingCounted' /\ Pending' = Pending
<1>1. Pending' = Pending
  BY DEF lockVars, Pending
<1> QED
  BY <1>1 DEF IInv, lockVars, KeysAccountedFor, PendingCounted

\* A tool changes a note and has not called the queue yet.
LEMMA MutateInv ==
    ASSUME IInv, NEW c \in Clients, NEW k \in Keys, Mutate(c, k)
    PROVE  IInv'
<1> USE DEF Mutate, lockVars, flagVars, loopVars
<1>1. InFlight' = InFlight
  BY DEF InFlight
<1>2. KeysAccountedFor' /\ PendingCounted' /\ Pending' = Pending
  BY <1>1, SameAccounting
<1>3. TypeOK'
  <2>1. disk' \in [Keys -> Revisions]
    BY DEF IInv, TypeOK, Revisions
  <2>2. cpc' \in [Clients -> {"idle", "mutated"}]
    BY DEF IInv, TypeOK
  <2>3. ckey' \in [Clients -> Keys \cup {NoKey}]
    BY DEF IInv, TypeOK
  <2> QED
    BY <2>1, <2>2, <2>3 DEF IInv, TypeOK
<1>4. Lifecycle'
  BY <1>2 DEF IInv, Lifecycle, WorkerAlive, Alive
<1>5. OwnedKeys'
  BY DEF IInv, TypeOK, OwnedKeys
<1>6. ChangesCovered'
  <2>1. \A j \in Keys : disk[j] =< disk'[j] /\ disk[j] \in Int /\ disk'[j] \in Int
    BY DEF IInv, TypeOK, Revisions
  <2>2. \A j \in Keys : required'[j] =< disk'[j]
    BY <2>1 DEF IInv, TypeOK, Revisions, ChangesCovered
  <2> QED
    BY <1>2, <2>2 DEF IInv, ChangesCovered
<1> QED
  BY <1>2, <1>3, <1>4, <1>5, <1>6 DEF IInv

\* With accepting set and the invariant, EnsureWorker leaves one live thread.
LEMMA EnsureWorkerStarts ==
    ASSUME IInv, accepting, EnsureWorker
    PROVE  /\ worker' \in Workers
           /\ wpc' \in [Workers -> Owning \cup {"unborn", "check", "get", "exited"}]
           /\ wpc'[worker'] \notin {"unborn", "exited"}
           /\ \A w \in Workers : w # worker' => wpc'[w] = "unborn"
           /\ \A w \in Workers : wpc[w] \in Owning => wpc'[w] = wpc[w]
           /\ \A w \in Workers : wpc'[w] \in Owning => wpc'[w] = wpc[w]
<1>1. CASE WorkerAlive
  BY <1>1 DEF IInv, TypeOK, Lifecycle, EnsureWorker, WorkerAlive, Alive
<1>2. CASE ~WorkerAlive
  <2>1. worker = NoWorker
    BY <1>2 DEF IInv, TypeOK, Lifecycle, WorkerAlive, Alive
  <2>2. \A w \in Workers : wpc[w] = "unborn"
    BY <2>1 DEF IInv, Lifecycle
  <2>3. PICK w \in Workers :
            worker' = w /\ wpc' = [wpc EXCEPT ![w] = "check"]
    BY <1>2 DEF EnsureWorker
  <2> QED
    BY <2>2, <2>3 DEF IInv, TypeOK, Owning
<1> QED
  BY <1>1, <1>2

\* An update with a value of the range keeps the type of a function.
LEMMA UpdateKeepsType ==
    ASSUME NEW S, NEW T, NEW f \in [S -> T], NEW x, NEW v \in T
    PROVE  [f EXCEPT ![x] = v] \in [S -> T]
OBVIOUS

\* _enqueue_key accepts a key that is not pending.
LEMMA QueueInv ==
    ASSUME IInv, NEW c \in Clients, Enqueue(c), Queue(ckey[c])
    PROVE  IInv'
<1> DEFINE k == ckey[c]
<1> USE DEF Enqueue, Queue, flagVars, loopVars
<1>0. k \in Keys
  BY DEF IInv, OwnedKeys
<1> HIDE DEF k
<1>1. /\ worker' \in Workers
      /\ wpc' \in [Workers -> Owning \cup {"unborn", "check", "get", "exited"}]
      /\ wpc'[worker'] \notin {"unborn", "exited"}
      /\ \A w \in Workers : w # worker' => wpc'[w] = "unborn"
      /\ \A w \in Workers : wpc[w] \in Owning => wpc'[w] = wpc[w]
      /\ \A w \in Workers : wpc'[w] \in Owning => wpc'[w] = wpc[w]
  BY EnsureWorkerStarts
<1>2. InFlight' = InFlight
  BY <1>1 DEF InFlight
<1>3. /\ k \notin Pending
      /\ versions[k] = 0
      /\ versions' = [versions EXCEPT ![k] = 1]
      /\ queue' = Append(queue, k)
      /\ required' = [required EXCEPT ![k] = disk[k]]
      /\ accepting
  BY <1>0 DEF k, Pending
<1>4. Pending' = Pending \cup {k}
  BY <1>0, <1>3 DEF Pending, IInv, TypeOK
<1>5. TypeOK'
  <2>1. versions' \in [Keys -> Nat] /\ required' \in [Keys -> Revisions]
    <3>1. /\ versions \in [Keys -> Nat]
          /\ required \in [Keys -> Revisions]
          /\ disk[k] \in Revisions
      BY <1>0 DEF IInv, TypeOK
    <3>2. versions' \in [Keys -> Nat]
      BY <1>3, <3>1, UpdateKeepsType
    <3>3. required' \in [Keys -> Revisions]
      BY <1>3, <3>1, UpdateKeepsType
    <3> QED
      BY <3>2, <3>3
  <2>2. queue' \in Seq(Keys)
    BY <1>0, <1>3, AppendToQueue DEF IInv, TypeOK
  <2>3. cpc' \in [Clients -> {"idle", "mutated"}]
    BY DEF IInv, TypeOK
  <2>4. ckey' \in [Clients -> Keys \cup {NoKey}]
    BY DEF IInv, TypeOK
  <2> QED
    BY <1>1, <2>1, <2>2, <2>3, <2>4 DEF IInv, TypeOK
<1>6. Lifecycle'
  BY <1>1, <1>3, <1>4 DEF IInv, TypeOK, Lifecycle
<1>7. OwnedKeys'
  <2>1. \A w \in Workers : wpc'[w] \in Owning => wpc[w] \in Owning
    BY <1>1
  <2>2. \A w \in Workers : wpc[w] \in Owning => wkey[w] # k
    BY <1>3 DEF IInv, KeysAccountedFor, InFlight
  <2> QED
    BY <1>1, <1>3, <2>1, <2>2 DEF IInv, TypeOK, OwnedKeys, k
<1>8. KeysAccountedFor'
  <2>1. k \notin InFlight
    BY <1>3 DEF IInv, KeysAccountedFor
  <2>2. \A i \in 1..Len(queue) : queue[i] # k
    BY <1>3 DEF IInv, KeysAccountedFor
  <2>3. /\ Len(queue) \in Nat
        /\ Len(queue') = Len(queue) + 1
        /\ \A i \in 1..Len(queue) : queue'[i] = queue[i]
        /\ queue'[Len(queue) + 1] = k
    BY <1>0, <1>3, AppendToQueue DEF IInv, TypeOK
  <2>4. \A i \in 1..Len(queue') : i \in 1..Len(queue) \/ i = Len(queue) + 1
    BY <2>3
  <2>5. \A i \in 1..Len(queue') : queue'[i] \in Pending' \ InFlight'
    BY <1>2, <1>4, <2>1, <2>3, <2>4 DEF IInv, KeysAccountedFor
  <2>6. \A i, j \in 1..Len(queue') : queue'[i] = queue'[j] => i = j
    BY <2>2, <2>3, <2>4 DEF IInv, KeysAccountedFor
  <2>7. \A l \in Pending' \ InFlight' : \E i \in 1..Len(queue') : queue'[i] = l
    <3> SUFFICES ASSUME NEW l \in Pending' \ InFlight'
                 PROVE  \E i \in 1..Len(queue') : queue'[i] = l
      OBVIOUS
    <3>1. CASE l = k
      <4>1. Len(queue) + 1 \in 1..Len(queue')
        BY <2>3
      <4> QED
        BY <2>3, <3>1, <4>1
    <3>2. CASE l # k
      <4>1. PICK i \in 1..Len(queue) : queue[i] = l
        BY <1>2, <1>4, <3>2 DEF IInv, KeysAccountedFor
      <4>2. i \in 1..Len(queue') /\ queue'[i] = l
        BY <2>3, <4>1
      <4> QED
        BY <4>2
    <3> QED
      BY <3>1, <3>2
  <2>8. InFlight' \subseteq Pending'
    BY <1>2, <1>4 DEF IInv, KeysAccountedFor
  <2> QED
    BY <2>5, <2>6, <2>7, <2>8 DEF KeysAccountedFor
<1>9. PendingCounted'
  <2>1. IsFiniteSet(Pending \cup {k}) /\
        Cardinality(Pending \cup {k}) = Cardinality(Pending) + 1
    BY <1>3, FS_AddElement DEF IInv, PendingCounted
  <2>2. Cardinality(Pending) \in Nat /\ Cardinality(Pending) < MaxPending
    BY FS_CardinalityType DEF IInv, PendingCounted
  <2> QED
    BY <1>4, <2>1, <2>2 DEF PendingCounted
<1>10. ChangesCovered'
  <2>1. \A w \in Workers : wpc'[w] \in {"commit", "finish"} =>
            wpc[w] \in {"commit", "finish"} /\ wkey[w] \in InFlight
    BY <1>1 DEF Owning, InFlight
  <2>2. k \notin InFlight
    BY <1>3 DEF IInv, KeysAccountedFor
  <2>3. \A w \in Workers : wpc'[w] \in {"commit", "finish"} =>
            wkey[w] \in Keys /\ versions'[wkey[w]] = versions[wkey[w]]
                /\ required'[wkey[w]] = required[wkey[w]]
    BY <1>3, <2>1, <2>2 DEF IInv, TypeOK, OwnedKeys, Owning
  <2>4. \A j \in Keys : required'[j] =< disk'[j]
    BY <1>0, <1>3 DEF IInv, TypeOK, Revisions, ChangesCovered
  <2>5. \A j \in Keys \ Pending' : required'[j] =< attempted'[j]
    BY <1>0, <1>3, <1>4 DEF IInv, TypeOK, ChangesCovered
  <2>6. \A w \in Workers :
          /\ wpc'[w] \in {"commit", "finish"}
          /\ observed'[w] = versions'[wkey'[w]]
          => required'[wkey'[w]] =< attempted'[wkey'[w]]
    BY <2>1, <2>3 DEF IInv, ChangesCovered
  <2> QED
    BY <2>4, <2>5, <2>6 DEF ChangesCovered
<1> QED
  BY <1>5, <1>6, <1>7, <1>8, <1>9, <1>10 DEF IInv

\* _enqueue_key increments the version of a pending key.
LEMMA CoalesceInv ==
    ASSUME IInv, NEW c \in Clients, Enqueue(c), Coalesce(ckey[c])
    PROVE  IInv'
<1> DEFINE k == ckey[c]
<1> USE DEF Enqueue, Coalesce, flagVars, loopVars
<1>0. k \in Keys
  BY DEF IInv, OwnedKeys
<1> HIDE DEF k
<1>1. /\ k \in Pending
      /\ versions' = [versions EXCEPT ![k] = @ + 1]
      /\ required' = [required EXCEPT ![k] = disk[k]]
  BY DEF k
<1>2. Pending' = Pending
  BY <1>0, <1>1 DEF Pending, IInv, TypeOK
<1>3. InFlight' = InFlight
  BY DEF InFlight
<1>4. TypeOK'
  <2>1. versions' \in [Keys -> Nat]
    <3>1. versions \in [Keys -> Nat] /\ versions[k] + 1 \in Nat
      BY <1>0 DEF IInv, TypeOK
    <3> QED
      BY <1>1, <3>1
  <2>2. cpc' \in [Clients -> {"idle", "mutated"}]
    BY DEF IInv, TypeOK
  <2>3. ckey' \in [Clients -> Keys \cup {NoKey}]
    BY DEF IInv, TypeOK
  <2>4. required' \in [Keys -> Revisions]
    <3>1. required \in [Keys -> Revisions] /\ disk[k] \in Revisions
      BY <1>0 DEF IInv, TypeOK
    <3> QED
      BY <1>1, <3>1
  <2> QED
    BY <2>1, <2>2, <2>3, <2>4 DEF IInv, TypeOK
<1>5. Lifecycle'
  BY <1>2 DEF IInv, Lifecycle, WorkerAlive, Alive
<1>6. \A j \in Keys : versions[j] =< versions'[j] /\ versions[j] \in Nat
                        /\ versions'[j] \in Nat
  BY <1>0, <1>1 DEF IInv, TypeOK
<1>7. OwnedKeys'
  <2>1. \A w \in Workers : wpc'[w] \in Owning \ {"observe"} =>
            /\ observed'[w] # 0
            /\ observed'[w] =< versions'[wkey'[w]]
    <3> SUFFICES ASSUME NEW w \in Workers, wpc[w] \in Owning \ {"observe"}
                 PROVE  observed[w] # 0 /\ observed[w] =< versions'[wkey[w]]
      OBVIOUS
    <3>1. wkey[w] \in Keys /\ observed[w] \in Nat
      BY DEF IInv, OwnedKeys, TypeOK
    <3>2. observed[w] # 0 /\ observed[w] =< versions[wkey[w]]
      BY DEF IInv, OwnedKeys
    <3> QED
      BY <1>6, <3>1, <3>2
  <2> QED
    BY <2>1 DEF IInv, TypeOK, OwnedKeys
<1>8. KeysAccountedFor'
  BY <1>2, <1>3 DEF IInv, KeysAccountedFor
<1>9. PendingCounted'
  BY <1>2 DEF IInv, PendingCounted
<1>10. ChangesCovered'
  <2>1. \A j \in Keys : required'[j] =< disk'[j]
    BY <1>0, <1>1 DEF IInv, TypeOK, Revisions, ChangesCovered
  <2>2. \A j \in Keys \ Pending' : required'[j] =< attempted'[j]
    BY <1>0, <1>1, <1>2 DEF IInv, TypeOK, ChangesCovered
  <2>3. ASSUME NEW w \in Workers,
               wpc'[w] \in {"commit", "finish"},
               observed'[w] = versions'[wkey'[w]]
        PROVE  required'[wkey'[w]] =< attempted'[wkey'[w]]
    <3>1. /\ wpc[w] \in Owning \ {"observe"}
          /\ wkey[w] \in Keys
          /\ observed[w] \in Nat
          /\ observed[w] =< versions[wkey[w]]
      BY <2>3 DEF IInv, OwnedKeys, Owning, TypeOK
    <3>2. wkey[w] # k
      BY <1>0, <1>1, <2>3, <3>1 DEF IInv, TypeOK
    <3>3. versions'[wkey[w]] = versions[wkey[w]]
            /\ required'[wkey[w]] = required[wkey[w]]
      BY <1>1, <3>1, <3>2 DEF IInv, TypeOK
    <3> QED
      BY <2>3, <3>3 DEF IInv, ChangesCovered
  <2> QED
    BY <2>1, <2>2, <2>3 DEF ChangesCovered
<1> QED
  BY <1>4, <1>5, <1>7, <1>8, <1>9, <1>10 DEF IInv

\* _enqueue_key returns "stopped" or "queue_full".
LEMMA RejectInv ==
    ASSUME IInv, NEW c \in Clients, Enqueue(c),
           RejectStopped(ckey[c]) \/ RejectFull(ckey[c])
    PROVE  IInv'
<1>0. /\ UNCHANGED <<lockVars, wpc, required, disk, flagVars, loopVars, indexed,
                     attempted>>
      /\ cpc' = [cpc EXCEPT ![c] = "idle"]
      /\ ckey' = [ckey EXCEPT ![c] = NoKey]
  BY DEF Enqueue, RejectStopped, RejectFull
<1> USE DEF lockVars, flagVars, loopVars
<1>1. InFlight' = InFlight
  BY <1>0 DEF InFlight
<1>2. KeysAccountedFor' /\ PendingCounted' /\ Pending' = Pending
  BY <1>0, <1>1, SameAccounting
<1>3. TypeOK'
  <2>1. cpc' \in [Clients -> {"idle", "mutated"}]
    BY <1>0 DEF IInv, TypeOK
  <2>2. ckey' \in [Clients -> Keys \cup {NoKey}]
    BY <1>0 DEF IInv, TypeOK
  <2> QED
    BY <1>0, <2>1, <2>2 DEF IInv, TypeOK
<1>4. Lifecycle'
  BY <1>0, <1>2 DEF IInv, Lifecycle, WorkerAlive, Alive
<1>5. OwnedKeys'
  BY <1>0 DEF IInv, TypeOK, OwnedKeys
<1>6. ChangesCovered'
  BY <1>0, <1>2 DEF IInv, ChangesCovered
<1> QED
  BY <1>2, <1>3, <1>4, <1>5, <1>6 DEF IInv

\* A worker step between critical sections that leaves its key alone.
\* The thread moves from one position to another, both owning or both not.
LEMMA QuietMove ==
    ASSUME IInv, NEW w \in Workers, NEW from, NEW to,
           Goto(w, from, to),
           UNCHANGED <<clientVars, lockVars, flagVars, wkey>>,
           (from \in Owning) <=> (to \in Owning),
           from \notin {"unborn", "exited"},
           to \in Owning \cup {"check", "get"}
    PROVE  /\ KeysAccountedFor' /\ PendingCounted' /\ Pending' = Pending
           /\ Lifecycle'
           /\ wpc' \in [Workers -> Owning \cup {"unborn", "check", "get", "exited"}]
           /\ \A v \in Workers \ {w} : wpc'[v] = wpc[v]
           /\ wpc'[w] = to
           /\ w = worker
<1>0. wpc \in [Workers -> Owning \cup {"unborn", "check", "get", "exited"}]
  BY DEF IInv, TypeOK
<1>1. /\ wpc' \in [Workers -> Owning \cup {"unborn", "check", "get", "exited"}]
      /\ \A v \in Workers \ {w} : wpc'[v] = wpc[v]
      /\ wpc'[w] = to
      /\ wpc[w] = from
  BY <1>0 DEF Goto
<1>2. InFlight' = InFlight
  <2>1. {v \in Workers : wpc'[v] \in Owning} = {v \in Workers : wpc[v] \in Owning}
    BY <1>1
  <2> QED
    BY <2>1 DEF InFlight
<1>3. KeysAccountedFor' /\ PendingCounted' /\ Pending' = Pending
  BY <1>2, SameAccounting
<1>4. w = worker
  BY <1>1 DEF IInv, Lifecycle
<1>5. Lifecycle'
  <2>1. to \notin {"unborn", "exited"}
    BY DEF Owning
  <2>2. spc # "drained"
    BY <1>1, <1>4 DEF IInv, Lifecycle, WorkerAlive, Alive
  <2> QED
    BY <1>1, <1>3, <1>4, <2>1, <2>2 DEF IInv, Lifecycle, flagVars, lockVars
<1> QED
  BY <1>1, <1>3, <1>4, <1>5

\* The loop condition holds, or get times out.
LEMMA IdleMoveInv ==
    ASSUME IInv, NEW w \in Workers, WorkerContinue(w) \/ WorkerGetTimeout(w)
    PROVE  IInv'
<1>1. PICK from, to \in {"check", "get"} : Goto(w, from, to)
  BY DEF WorkerContinue, WorkerGetTimeout, Goto
<1>2. UNCHANGED <<clientVars, lockVars, flagVars, loopVars, indexed, required,
                  attempted>>
  BY DEF WorkerContinue, WorkerGetTimeout
<1>3. /\ KeysAccountedFor' /\ PendingCounted' /\ Pending' = Pending
      /\ Lifecycle'
      /\ wpc' \in [Workers -> Owning \cup {"unborn", "check", "get", "exited"}]
      /\ \A v \in Workers \ {w} : wpc'[v] = wpc[v]
      /\ wpc'[w] = to
  <2>1. from \notin Owning /\ to \notin Owning
    BY <1>1 DEF Owning
  <2> QED
    BY <1>1, <1>2, <2>1, QuietMove DEF loopVars
<1> USE DEF clientVars, lockVars, flagVars, loopVars
<1>4. TypeOK'
  BY <1>2, <1>3 DEF IInv, TypeOK
<1>5. OwnedKeys'
  BY <1>2, <1>3 DEF IInv, OwnedKeys, Owning
<1>6. ChangesCovered'
  BY <1>2, <1>3 DEF IInv, ChangesCovered
<1> QED
  BY <1>3, <1>4, <1>5, <1>6 DEF IInv

\* The loop condition fails and the thread ends.
LEMMA WorkerExitInv ==
    ASSUME IInv, NEW w \in Workers, WorkerExit(w)
    PROVE  IInv'
<1> USE DEF WorkerExit, Goto, clientVars, lockVars, flagVars, loopVars
<1>1. wpc \in [Workers -> Owning \cup {"unborn", "check", "get", "exited"}]
  BY DEF IInv, TypeOK
<1>2. /\ wpc' \in [Workers -> Owning \cup {"unborn", "check", "get", "exited"}]
      /\ \A v \in Workers \ {w} : wpc'[v] = wpc[v]
      /\ wpc'[w] = "exited"
      /\ wpc[w] = "check"
  BY <1>1
<1>3. InFlight' = InFlight
  <2>1. {v \in Workers : wpc'[v] \in Owning} = {v \in Workers : wpc[v] \in Owning}
    BY <1>2 DEF Owning
  <2> QED
    BY <2>1 DEF InFlight
<1>4. KeysAccountedFor' /\ PendingCounted' /\ Pending' = Pending
  BY <1>3, SameAccounting
<1>5. TypeOK'
  BY <1>2 DEF IInv, TypeOK
<1>6. Lifecycle'
  <2>1. w = worker
    BY <1>2 DEF IInv, Lifecycle
  <2>2. stopSet /\ queue = <<>>
    BY DEF LoopOn, IInv, TypeOK
  <2>3. ~WorkerAlive'
    BY <1>2, <2>1 DEF WorkerAlive, Alive
  <2> QED
    BY <1>2, <1>4, <2>1, <2>2, <2>3 DEF IInv, Lifecycle
<1>7. OwnedKeys'
  BY <1>2 DEF IInv, OwnedKeys, Owning
<1>8. ChangesCovered'
  BY <1>2, <1>4 DEF IInv, ChangesCovered
<1> QED
  BY <1>4, <1>5, <1>6, <1>7, <1>8 DEF IInv

\* The thread takes the oldest key.
LEMMA WorkerGetInv ==
    ASSUME IInv, NEW w \in Workers, WorkerGet(w)
    PROVE  IInv'
<1> USE DEF WorkerGet, Goto, clientVars, flagVars
<1>1. wpc \in [Workers -> Owning \cup {"unborn", "check", "get", "exited"}]
  BY DEF IInv, TypeOK
<1>2. /\ wpc' \in [Workers -> Owning \cup {"unborn", "check", "get", "exited"}]
      /\ \A v \in Workers \ {w} : wpc'[v] = wpc[v]
      /\ wpc'[w] = "observe"
      /\ wpc[w] = "get"
  BY <1>1 DEF Owning
<1>3. /\ queue[1] \in Keys
      /\ queue' \in Seq(Keys)
      /\ Len(queue) \in Nat \ {0}
      /\ Len(queue') = Len(queue) - 1
      /\ \A i \in 1..Len(queue) - 1 : queue'[i] = queue[i + 1]
      /\ wkey' = [wkey EXCEPT ![w] = queue[1]]
  BY TailOfQueue DEF IInv, TypeOK
<1>4. /\ wkey' \in [Workers -> Keys \cup {NoKey}]
      /\ \A v \in Workers \ {w} : wkey'[v] = wkey[v]
      /\ wkey'[w] = queue[1]
  BY <1>3 DEF IInv, TypeOK
<1>5. w = worker
  BY <1>2 DEF IInv, Lifecycle
<1>6. \A v \in Workers \ {w} : wpc[v] = "unborn"
  BY <1>5 DEF IInv, Lifecycle
<1>7. InFlight = {}
  BY <1>2, <1>6 DEF InFlight, Owning
<1>8. InFlight' = {queue[1]}
  <2>1. {v \in Workers : wpc'[v] \in Owning} = {w}
    BY <1>2, <1>6 DEF Owning
  <2> QED
    BY <1>4, <2>1 DEF InFlight
<1>9. Pending' = Pending
  BY DEF Pending
<1>10. TypeOK'
  BY <1>2, <1>3, <1>4 DEF IInv, TypeOK
<1>11. Lifecycle'
  <2>1. spc # "drained"
    BY <1>2, <1>5 DEF IInv, Lifecycle, WorkerAlive, Alive
  <2> QED
    BY <1>2, <1>5, <1>9, <2>1 DEF IInv, Lifecycle
<1>12. OwnedKeys'
  <2>1. \A v \in Workers : wpc'[v] \in Owning => v = w
    BY <1>2, <1>6 DEF Owning
  <2> QED
    BY <1>2, <1>3, <1>4, <2>1 DEF IInv, OwnedKeys
<1>13. KeysAccountedFor'
  <2>1. 1 \in 1..Len(queue) /\ queue[1] \in Pending
    BY <1>3 DEF IInv, KeysAccountedFor
  <2>2. \A i \in 1..Len(queue') : i + 1 \in 1..Len(queue) /\ i + 1 # 1
                                    /\ queue'[i] = queue[i + 1]
    BY <1>3
  <2>3. \A i, j \in 1..Len(queue') : queue'[i] = queue'[j] => i = j
    BY <2>2 DEF IInv, KeysAccountedFor
  <2>4. \A i \in 1..Len(queue') : queue'[i] \in Pending' \ InFlight'
    BY <1>7, <1>8, <1>9, <2>1, <2>2 DEF IInv, KeysAccountedFor
  <2>5. ASSUME NEW k \in Pending' \ InFlight'
        PROVE  \E i \in 1..Len(queue') : queue'[i] = k
    <3>1. PICK i \in 1..Len(queue) : queue[i] = k
      BY <1>7, <1>9, <2>5 DEF IInv, KeysAccountedFor
    <3>2. i # 1
      BY <1>8, <2>5, <3>1
    <3>3. i - 1 \in 1..Len(queue') /\ queue'[i - 1] = k
      BY <1>3, <3>1, <3>2
    <3> QED
      BY <3>3
  <2>6. InFlight' \subseteq Pending'
    BY <1>8, <1>9, <2>1
  <2> QED
    BY <2>3, <2>4, <2>5, <2>6 DEF KeysAccountedFor
<1>14. PendingCounted'
  BY <1>9 DEF IInv, PendingCounted
<1>15. ChangesCovered'
  <2>1. \A v \in Workers : wpc'[v] \notin {"commit", "finish"}
    BY <1>2, <1>6
  <2> QED
    BY <1>9, <2>1 DEF IInv, ChangesCovered
<1> QED
  BY <1>10, <1>11, <1>12, <1>13, <1>14, <1>15 DEF IInv

\* The thread reads the version of its key; the key always has one.
LEMMA WorkerObserveInv ==
    ASSUME IInv, NEW w \in Workers, WorkerObserve(w)
    PROVE  IInv'
<1>1. wpc[w] = "observe" /\ wkey[w] \in Keys /\ wkey[w] \in Pending
  BY DEF WorkerObserve, Goto, IInv, OwnedKeys, KeysAccountedFor, InFlight, Owning
<1>2. /\ Goto(w, "observe", "read")
      /\ UNCHANGED <<clientVars, lockVars, flagVars, wkey, readRev, indexed,
                     required, attempted>>
      /\ observed' = [observed EXCEPT ![w] = versions[wkey[w]]]
  BY <1>1 DEF WorkerObserve
<1>3. /\ KeysAccountedFor' /\ PendingCounted' /\ Pending' = Pending
      /\ Lifecycle'
      /\ wpc' \in [Workers -> Owning \cup {"unborn", "check", "get", "exited"}]
      /\ \A v \in Workers \ {w} : wpc'[v] = wpc[v]
      /\ wpc'[w] = "read"
      /\ w = worker
  BY <1>2, QuietMove DEF Owning
<1>4. \A v \in Workers \ {w} : wpc'[v] = "unborn"
  BY <1>3 DEF IInv, Lifecycle
<1>5. versions[wkey[w]] \in Nat \ {0}
  BY <1>1 DEF Pending, IInv, TypeOK
<1>6. observed' \in [Workers -> Nat] /\ observed'[w] = versions[wkey[w]]
  BY <1>2, <1>5 DEF IInv, TypeOK
<1> USE DEF clientVars, lockVars, flagVars
<1>7. TypeOK'
  BY <1>2, <1>3, <1>6 DEF IInv, TypeOK
<1>8. OwnedKeys'
  BY <1>1, <1>2, <1>4, <1>5, <1>6 DEF IInv, OwnedKeys, Owning
<1>9. ChangesCovered'
  <2>1. \A v \in Workers : wpc'[v] \notin {"commit", "finish"}
    BY <1>3, <1>4
  <2> QED
    BY <1>2, <1>3, <2>1 DEF IInv, ChangesCovered
<1> QED
  BY <1>3, <1>7, <1>8, <1>9 DEF IInv

\* The indexer call reads the vault after the version was observed.
LEMMA WorkerReadInv ==
    ASSUME IInv, NEW w \in Workers, WorkerRead(w)
    PROVE  IInv'
<1>1. wpc[w] = "read" /\ wkey[w] \in Keys
  BY DEF WorkerRead, Goto, IInv, OwnedKeys, Owning
<1>2. /\ Goto(w, "read", "commit")
      /\ UNCHANGED <<clientVars, lockVars, flagVars, wkey, observed, indexed,
                     required>>
      /\ readRev' = [readRev EXCEPT ![w] = disk[wkey[w]]]
      /\ attempted' = [attempted EXCEPT ![wkey[w]] = disk[wkey[w]]]
  BY DEF WorkerRead
<1>3. /\ KeysAccountedFor' /\ PendingCounted' /\ Pending' = Pending
      /\ Lifecycle'
      /\ wpc' \in [Workers -> Owning \cup {"unborn", "check", "get", "exited"}]
      /\ \A v \in Workers \ {w} : wpc'[v] = wpc[v]
      /\ wpc'[w] = "commit"
      /\ w = worker
  BY <1>2, QuietMove DEF Owning
<1>4. \A v \in Workers \ {w} : wpc'[v] = "unborn"
  BY <1>3 DEF IInv, Lifecycle
<1>5. disk[wkey[w]] \in Revisions
  BY <1>1 DEF IInv, TypeOK
<1> USE DEF clientVars, lockVars, flagVars
<1>6. TypeOK'
  <2>1. readRev' \in [Workers -> Revisions]
    BY <1>2, <1>5 DEF IInv, TypeOK
  <2>2. attempted' \in [Keys -> Revisions]
    BY <1>2, <1>5 DEF IInv, TypeOK
  <2> QED
    BY <1>2, <1>3, <2>1, <2>2 DEF IInv, TypeOK
<1>7. OwnedKeys'
  BY <1>1, <1>2, <1>4 DEF IInv, OwnedKeys, Owning
<1>8. ChangesCovered'
  <2>1. attempted'[wkey[w]] = disk[wkey[w]]
          /\ \A k \in Keys \ {wkey[w]} : attempted'[k] = attempted[k]
    BY <1>1, <1>2 DEF IInv, TypeOK
  <2>2. \A k \in Keys : required'[k] =< disk'[k]
    BY <1>2 DEF IInv, ChangesCovered
  <2>3. required[wkey[w]] =< attempted'[wkey[w]]
    BY <1>1, <2>1 DEF IInv, ChangesCovered
  <2>4. \A k \in Keys \ Pending' : required'[k] =< attempted'[k]
    BY <1>2, <1>3, <2>1, <2>3 DEF IInv, ChangesCovered
  <2>5. \A v \in Workers : wpc'[v] \in {"commit", "finish"} => v = w
    BY <1>4
  <2> QED
    BY <1>2, <2>2, <2>3, <2>4, <2>5 DEF ChangesCovered
<1> QED
  BY <1>3, <1>6, <1>7, <1>8 DEF IInv

\* The indexer call updates the index, or fails.
LEMMA WorkerOutcomeInv ==
    ASSUME IInv, NEW w \in Workers, WorkerCommit(w) \/ WorkerFail(w)
    PROVE  IInv'
<1>1. /\ Goto(w, "commit", "finish")
      /\ UNCHANGED <<clientVars, lockVars, flagVars, loopVars, required,
                     attempted>>
  BY DEF WorkerCommit, WorkerFail
<1>2. indexed' = indexed \/ indexed' = [indexed EXCEPT ![wkey[w]] = readRev[w]]
  BY DEF WorkerCommit, WorkerFail
<1>3. /\ KeysAccountedFor' /\ PendingCounted' /\ Pending' = Pending
      /\ Lifecycle'
      /\ wpc' \in [Workers -> Owning \cup {"unborn", "check", "get", "exited"}]
      /\ \A v \in Workers \ {w} : wpc'[v] = wpc[v]
      /\ wpc'[w] = "finish"
      /\ wpc[w] = "commit"
  BY <1>1, QuietMove DEF Owning, loopVars, Goto
<1> USE DEF clientVars, lockVars, flagVars, loopVars
<1>4. TypeOK'
  <2>1. indexed' \in [Keys -> Revisions]
    BY <1>2 DEF IInv, TypeOK
  <2> QED
    BY <1>1, <1>3, <2>1 DEF IInv, TypeOK
<1>5. OwnedKeys'
  BY <1>1, <1>3 DEF IInv, OwnedKeys, Owning
<1>6. ChangesCovered'
  BY <1>1, <1>3 DEF IInv, ChangesCovered
<1> QED
  BY <1>3, <1>4, <1>5, <1>6 DEF IInv

\* What the end of a run has in common in both branches.
LEMMA FinishMoves ==
    ASSUME IInv, NEW w \in Workers, WorkerFinish(w)
    PROVE  /\ wpc' \in [Workers -> Owning \cup {"unborn", "check", "get", "exited"}]
           /\ wpc[w] = "finish" /\ wpc'[w] = "check"
           /\ w = worker
           /\ \A v \in Workers \ {w} : wpc[v] = "unborn" /\ wpc'[v] = "unborn"
           /\ wkey[w] \in Keys /\ wkey[w] \in Pending
           /\ versions[wkey[w]] \in Nat \ {0}
           /\ observed[w] \in Nat \ {0}
           /\ InFlight = {wkey[w]}
           /\ InFlight' = {}
           /\ spc # "drained"
<1> USE DEF WorkerFinish, Goto
<1>1. /\ wpc' \in [Workers -> Owning \cup {"unborn", "check", "get", "exited"}]
      /\ wpc[w] = "finish" /\ wpc'[w] = "check"
      /\ \A v \in Workers \ {w} : wpc'[v] = wpc[v]
  BY DEF IInv, TypeOK
<1>2. w = worker
  BY <1>1 DEF IInv, Lifecycle
<1>3. \A v \in Workers \ {w} : wpc[v] = "unborn"
  BY <1>2 DEF IInv, Lifecycle
<1>4. InFlight = {wkey[w]}
  <2>1. {v \in Workers : wpc[v] \in Owning} = {w}
    BY <1>1, <1>3 DEF Owning
  <2> QED
    BY <2>1 DEF InFlight
<1>5. InFlight' = {}
  BY <1>1, <1>3 DEF InFlight, Owning
<1>6. wkey[w] \in Keys /\ wkey[w] \in Pending
  BY <1>1, <1>4 DEF IInv, OwnedKeys, KeysAccountedFor, Owning
<1>7. versions[wkey[w]] \in Nat \ {0}
  BY <1>6 DEF Pending, IInv, TypeOK
<1>8. observed[w] \in Nat \ {0}
  BY <1>1 DEF IInv, OwnedKeys, Owning, TypeOK
<1>9. spc # "drained"
  BY <1>1, <1>2 DEF IInv, Lifecycle, WorkerAlive, Alive
<1> QED
  BY <1>1, <1>2, <1>3, <1>4, <1>5, <1>6, <1>7, <1>8, <1>9

\* Nothing was coalesced during the run: the key is done.
LEMMA FinishDoneInv ==
    ASSUME IInv, NEW w \in Workers, WorkerFinish(w),
           versions[wkey[w]] = observed[w]
    PROVE  IInv'
<1> DEFINE k == wkey[w]
<1>1. /\ wpc' \in [Workers -> Owning \cup {"unborn", "check", "get", "exited"}]
      /\ wpc[w] = "finish" /\ wpc'[w] = "check"
      /\ w = worker
      /\ \A v \in Workers \ {w} : wpc[v] = "unborn" /\ wpc'[v] = "unborn"
      /\ k \in Keys /\ k \in Pending
      /\ InFlight = {k}
      /\ InFlight' = {}
      /\ spc # "drained"
  BY FinishMoves
<1>2. /\ versions' = [versions EXCEPT ![k] = 0]
      /\ UNCHANGED <<clientVars, queue, worker, flagVars, loopVars, indexed,
                     required, attempted>>
  BY DEF WorkerFinish
<1>3. required[k] =< attempted[k]
  BY <1>1 DEF IInv, ChangesCovered
<1> HIDE DEF k
<1>4. Pending' = Pending \ {k}
  BY <1>1, <1>2 DEF Pending, IInv, TypeOK
<1> USE DEF clientVars, flagVars, loopVars
<1>5. TypeOK'
  <2>1. versions' \in [Keys -> Nat]
    BY <1>2 DEF IInv, TypeOK
  <2> QED
    BY <1>1, <1>2, <2>1 DEF IInv, TypeOK
<1>6. Lifecycle'
  BY <1>1, <1>2, <1>4 DEF IInv, Lifecycle
<1>7. OwnedKeys'
  <2>1. \A v \in Workers : wpc'[v] \notin Owning
    BY <1>1 DEF Owning
  <2> QED
    BY <1>2, <2>1 DEF IInv, OwnedKeys
<1>8. KeysAccountedFor'
  BY <1>1, <1>2, <1>4 DEF IInv, KeysAccountedFor
<1>9. PendingCounted'
  <2>1. IsFiniteSet(Pending \ {k})
          /\ Cardinality(Pending \ {k}) = Cardinality(Pending) - 1
    BY <1>1, FS_RemoveElement DEF IInv, PendingCounted
  <2>2. Cardinality(Pending) \in Nat
    BY FS_CardinalityType DEF IInv, PendingCounted
  <2> QED
    BY <1>4, <2>1, <2>2 DEF IInv, PendingCounted
<1>10. ChangesCovered'
  <2>1. \A v \in Workers : wpc'[v] \notin {"commit", "finish"}
    BY <1>1
  <2> QED
    BY <1>1, <1>2, <1>3, <1>4, <2>1 DEF IInv, ChangesCovered
<1> QED
  BY <1>5, <1>6, <1>7, <1>8, <1>9, <1>10 DEF IInv

\* A change was coalesced during the run: the key goes back to the queue.
LEMMA FinishAgainInv ==
    ASSUME IInv, NEW w \in Workers, WorkerFinish(w),
           versions[wkey[w]] # observed[w]
    PROVE  IInv'
<1> DEFINE k == wkey[w]
<1>1. /\ wpc' \in [Workers -> Owning \cup {"unborn", "check", "get", "exited"}]
      /\ wpc[w] = "finish" /\ wpc'[w] = "check"
      /\ w = worker
      /\ \A v \in Workers \ {w} : wpc[v] = "unborn" /\ wpc'[v] = "unborn"
      /\ k \in Keys /\ k \in Pending
      /\ InFlight = {k}
      /\ InFlight' = {}
      /\ spc # "drained"
  BY FinishMoves
<1>2. /\ queue' = Append(queue, k)
      /\ UNCHANGED <<clientVars, versions, worker, flagVars, loopVars, indexed,
                     required, attempted>>
  BY <1>1 DEF WorkerFinish
<1> HIDE DEF k
<1>3. Pending' = Pending
  BY <1>2 DEF Pending
<1>4. /\ queue' \in Seq(Keys)
      /\ Len(queue) \in Nat
      /\ Len(queue') = Len(queue) + 1
      /\ \A i \in 1..Len(queue) : queue'[i] = queue[i]
      /\ queue'[Len(queue) + 1] = k
  BY <1>1, <1>2, AppendToQueue DEF IInv, TypeOK
<1> USE DEF clientVars, flagVars, loopVars
<1>5. TypeOK'
  BY <1>1, <1>2, <1>4 DEF IInv, TypeOK
<1>6. Lifecycle'
  BY <1>1, <1>2, <1>3 DEF IInv, Lifecycle
<1>7. OwnedKeys'
  <2>1. \A v \in Workers : wpc'[v] \notin Owning
    BY <1>1 DEF Owning
  <2> QED
    BY <1>2, <2>1 DEF IInv, OwnedKeys
<1>8. KeysAccountedFor'
  <2>1. \A i \in 1..Len(queue') : i \in 1..Len(queue) \/ i = Len(queue) + 1
    BY <1>4
  <2>2. \A i \in 1..Len(queue) : queue[i] # k
    BY <1>1 DEF IInv, KeysAccountedFor
  <2>3. \A i, j \in 1..Len(queue') : queue'[i] = queue'[j] => i = j
    BY <1>4, <2>1, <2>2 DEF IInv, KeysAccountedFor
  <2>4. \A i \in 1..Len(queue') : queue'[i] \in Pending' \ InFlight'
    BY <1>1, <1>3, <1>4, <2>1 DEF IInv, KeysAccountedFor
  <2>5. ASSUME NEW l \in Pending' \ InFlight'
        PROVE  \E i \in 1..Len(queue') : queue'[i] = l
    <3>1. CASE l = k
      <4>1. Len(queue) + 1 \in 1..Len(queue')
        BY <1>4
      <4> QED
        BY <1>4, <3>1, <4>1
    <3>2. CASE l # k
      <4>1. PICK i \in 1..Len(queue) : queue[i] = l
        BY <1>1, <1>3, <2>5, <3>2 DEF IInv, KeysAccountedFor
      <4>2. i \in 1..Len(queue') /\ queue'[i] = l
        BY <1>4, <4>1
      <4> QED
        BY <4>2
    <3> QED
      BY <3>1, <3>2
  <2> QED
    BY <1>1, <2>3, <2>4, <2>5 DEF KeysAccountedFor
<1>9. PendingCounted'
  BY <1>3 DEF IInv, PendingCounted
<1>10. ChangesCovered'
  <2>1. \A v \in Workers : wpc'[v] \notin {"commit", "finish"}
    BY <1>1
  <2> QED
    BY <1>2, <1>3, <2>1 DEF IInv, ChangesCovered
<1> QED
  BY <1>5, <1>6, <1>7, <1>8, <1>9, <1>10 DEF IInv

\* The steps of stop.
LEMMA StopInv ==
    ASSUME IInv, StopAccepting \/ StopSignal \/ StopJoined \/ StopTimeout
    PROVE  IInv'
<1>1. UNCHANGED <<clientVars, lockVars, loopVars, wpc, indexed, required,
                  attempted>>
  BY DEF StopAccepting, StopSignal, StopJoined, StopTimeout
<1> USE DEF clientVars, lockVars, loopVars
<1>2. InFlight' = InFlight
  BY <1>1 DEF InFlight
<1>3. KeysAccountedFor' /\ PendingCounted' /\ Pending' = Pending
  BY <1>1, <1>2, SameAccounting
<1>4. accepting' \in BOOLEAN /\ stopSet' \in BOOLEAN
        /\ spc' \in {"running", "refusing", "joining", "drained", "timed_out"}
  BY DEF StopAccepting, StopSignal, StopJoined, StopTimeout, IInv, TypeOK
<1>5. TypeOK'
  BY <1>1, <1>4 DEF IInv, TypeOK
<1>6. WorkerAlive' <=> WorkerAlive
  BY <1>1 DEF WorkerAlive, Alive
<1>7. Lifecycle'
  <2>1. (accepting' <=> spc' = "running")
          /\ (stopSet' <=> spc' \in {"joining", "drained", "timed_out"})
          /\ (stopSet => stopSet')
    BY DEF StopAccepting, StopSignal, StopJoined, StopTimeout, IInv, Lifecycle
  <2>2. spc' = "drained" => ~WorkerAlive'
    BY <1>6 DEF StopAccepting, StopSignal, StopJoined, StopTimeout
  <2> QED
    BY <1>1, <1>3, <2>1, <2>2 DEF IInv, Lifecycle
<1>8. OwnedKeys'
  BY <1>1 DEF IInv, OwnedKeys
<1>9. ChangesCovered'
  BY <1>1, <1>3 DEF IInv, ChangesCovered
<1> QED
  BY <1>3, <1>5, <1>7, <1>8, <1>9 DEF IInv

\* Every step keeps the inductive invariant.
LEMMA NextInv == IInv /\ [Next]_vars => IInv'
<1> SUFFICES ASSUME IInv, [Next]_vars PROVE IInv'
  OBVIOUS
<1>1. ASSUME NEW c \in Clients, NEW k \in Keys, Mutate(c, k) PROVE IInv'
  BY <1>1, MutateInv
<1>2. ASSUME NEW c \in Clients, Enqueue(c) PROVE IInv'
  BY <1>2, RejectInv, CoalesceInv, QueueInv DEF Enqueue, EnqueueKey
<1>3. ASSUME NEW w \in Workers, WorkerStep(w) PROVE IInv'
  BY <1>3, IdleMoveInv, WorkerExitInv, WorkerGetInv, WorkerObserveInv,
     WorkerReadInv, WorkerOutcomeInv, FinishDoneInv, FinishAgainInv
     DEF WorkerStep
<1>4. ASSUME StopAccepting \/ StopSignal \/ StopJoined \/ StopTimeout
      PROVE  IInv'
  BY <1>4, StopInv
<1>5. CASE UNCHANGED vars
  <2> USE <1>5 DEF vars, clientVars, lockVars, flagVars, loopVars
  <2>1. Pending' = Pending /\ InFlight' = InFlight
    BY DEF Pending, InFlight
  <2> QED
    BY <2>1 DEF IInv, TypeOK, Lifecycle, OwnedKeys, KeysAccountedFor,
                PendingCounted, ChangesCovered, WorkerAlive, Alive
<1> QED
  BY <1>1, <1>2, <1>3, <1>4, <1>5 DEF Next

-----------------------------------------------------------------------------
(***************************************************************************)
(* The theorems.                                                           *)
(***************************************************************************)

\* The inductive invariant holds in every reachable state.
THEOREM Invariance == Spec => []IInv
<1> QED
  BY InitInv, NextInv, PTL DEF Spec

\* The variables of the queue keep their types.
THEOREM TypeCorrect == Spec => []TypeOK
<1>1. IInv => TypeOK
  BY DEF IInv
<1> QED
  BY Invariance, <1>1, PTL

\* Every pending key is in the FIFO once or being run, never both.
THEOREM Accounting == Spec => []KeysAccountedFor
<1>1. IInv => KeysAccountedFor
  BY DEF IInv
<1> QED
  BY Invariance, <1>1, PTL

\* No more than max_pending keys are pending, and the FIFO holds no more.
THEOREM Bounded == Spec => []PendingBounded
<1>1. ASSUME IInv PROVE PendingBounded
  <2> USE <1>1
  <2>1. queue \in Seq(Keys) /\ Len(queue) \in Nat
    BY DEF IInv, TypeOK
  <2> DEFINE f == [i \in 1..Len(queue) |-> queue[i]]
  <2>2. IsFiniteSet(1..Len(queue)) /\ Cardinality(1..Len(queue)) = Len(queue)
    <3>1. /\ IsFiniteSet(1..Len(queue))
          /\ Cardinality(1..Len(queue)) =
                IF 1 > Len(queue) THEN 0 ELSE Len(queue) - 1 + 1
      BY <2>1, FS_Interval
    <3> QED
      BY <2>1, <3>1
  <2>3. f \in [1..Len(queue) -> Pending]
    BY DEF IInv, KeysAccountedFor
  <2>4. \A i, j \in 1..Len(queue) : f[i] = f[j] => i = j
    BY DEF IInv, KeysAccountedFor
  <2>5. Cardinality(1..Len(queue)) =< Cardinality(Pending)
    <3>1. f \in Injection(1..Len(queue), Pending)
      BY <2>3, <2>4 DEF Injection, IsInjective
    <3>2. IsFiniteSet(Pending)
      BY DEF IInv, PendingCounted
    <3> HIDE DEF f
    <3> QED
      BY <3>1, <3>2, FS_Injection
  <2>6. Cardinality(Pending) \in Nat /\ Cardinality(Pending) =< MaxPending
    BY FS_CardinalityType DEF IInv, PendingCounted
  <2> QED
    BY <2>1, <2>2, <2>5, <2>6 DEF PendingBounded
<1> QED
  BY Invariance, <1>1, PTL

\* At most one thread runs the indexer for the queue.
THEOREM SingleWorker == Spec => []OneWorker
<1>1. IInv => OneWorker
  BY DEF IInv, Lifecycle, OneWorker, Alive
<1> QED
  BY Invariance, <1>1, PTL

\* A change accepted by the queue is read before its key leaves the queue.
THEOREM NothingLost == Spec => []NoLostChange
<1>1. IInv => NoLostChange
  BY DEF IInv, ChangesCovered, NoLostChange
<1> QED
  BY Invariance, <1>1, PTL

\* A stop whose join succeeded leaves nothing accepted and unread.
THEOREM StopDrains == Spec => []DrainedOnStop
<1>1. ASSUME IInv, spc = "drained"
      PROVE  Pending = {} /\ \A k \in Keys : required[k] =< attempted[k]
  <2> USE <1>1
  <2>1. ~WorkerAlive
    BY DEF IInv, Lifecycle
  <2>2. Pending = {}
    <3>1. CASE worker \notin Workers
      BY <3>1 DEF IInv, Lifecycle
    <3>2. CASE worker \in Workers
      <4>1. wpc[worker] = "exited"
        BY <2>1, <3>2 DEF WorkerAlive, Alive, IInv, Lifecycle
      <4>2. queue = <<>>
        BY <3>2, <4>1 DEF IInv, Lifecycle
      <4>3. InFlight = {}
        BY <4>1 DEF IInv, Lifecycle, InFlight, Owning
      <4> QED
        BY <4>2, <4>3 DEF IInv, KeysAccountedFor
    <3> QED
      BY <3>1, <3>2
  <2> QED
    BY <2>2 DEF IInv, ChangesCovered
<1>2. IInv => DrainedOnStop
  BY <1>1 DEF DrainedOnStop
<1> QED
  BY Invariance, <1>2, PTL

-----------------------------------------------------------------------------
(***************************************************************************)
(* ReindexQueue implements CoalescingQueue.                                *)
(***************************************************************************)

phaseMap == [k \in Keys |-> PhaseOf(k)]

\* Threads that are inside an indexer call or past it.
InRun(w) == wpc[w] \in Owning \ {"observe"}

\* The busy keys of the abstract queue are the pending ones.
LEMMA BusyIsPending == Abstract!Busy = Pending
<1>1. \A k \in Keys : PhaseOf(k) # "clean" <=> k \in Pending
  BY DEF PhaseOf
<1> QED
  BY <1>1 DEF Abstract!Busy, Pending

\* Initially every key is clean and the queue open.
LEMMA InitRefines == Init => Abstract!Init
<1> SUFFICES ASSUME Init PROVE Abstract!Init
  OBVIOUS
<1>1. \A k \in Keys : PhaseOf(k) = "clean"
  BY DEF Init, PhaseOf, Pending
<1>2. accepting = TRUE
  BY DEF Init
<1> QED
  BY <1>1, <1>2 DEF Abstract!Init

\* A step that leaves versions, local variables and the threads in a run
\* alone does not change the phase of any key.
LEMMA SamePhase ==
    ASSUME versions' = versions, wkey' = wkey, observed' = observed,
           \A w \in Workers : InRun(w)' <=> InRun(w)
    PROVE  phaseMap' = phaseMap
<1>1. Pending' = Pending
  BY DEF Pending
<1>2. \A k \in Keys : Running(k)' <=> Running(k)
  BY DEF Running, InRun
<1>3. \A k \in Keys : PhaseOf(k)' = PhaseOf(k)
  BY <1>1, <1>2 DEF PhaseOf, InRun
<1> QED
  BY <1>3 DEF phaseMap

\* The new key becomes "waiting".
LEMMA QueueRefines ==
    ASSUME IInv, NEW c \in Clients, NEW k \in Keys, k = ckey[c],
           Enqueue(c), Queue(k)
    PROVE  Abstract!Accept(k)
<1>1. /\ accepting' = accepting /\ accepting
      /\ k \notin Pending
      /\ Cardinality(Pending) < MaxPending
      /\ versions' = [versions EXCEPT ![k] = 1]
      /\ UNCHANGED <<wkey, observed>>
  BY DEF Enqueue, Queue, flagVars, loopVars
<1>2. \A w \in Workers : InRun(w)' <=> InRun(w)
  <2>1. /\ \A w \in Workers : wpc[w] \in Owning => wpc'[w] = wpc[w]
        /\ \A w \in Workers : wpc'[w] \in Owning => wpc'[w] = wpc[w]
    BY <1>1, EnsureWorkerStarts DEF Queue
  <2> QED
    BY <2>1 DEF InRun, Owning
<1>3. \A w \in Workers : InRun(w) => wkey[w] # k
  BY <1>1 DEF InRun, IInv, KeysAccountedFor, InFlight, Owning
<1>4. Pending' = Pending \cup {k}
  BY <1>1 DEF Pending, IInv, TypeOK
<1>5. PhaseOf(k) = "clean" /\ PhaseOf(k)' = "waiting"
  BY <1>1, <1>2, <1>3, <1>4 DEF PhaseOf, Running, InRun
<1>6. ASSUME NEW j \in Keys, j # k PROVE PhaseOf(j)' = PhaseOf(j)
  <2>1. versions'[j] = versions[j]
    BY <1>1, <1>6 DEF IInv, TypeOK
  <2>2. j \in Pending' <=> j \in Pending
    BY <1>4, <1>6
  <2> QED
    BY <1>1, <1>2, <2>1, <2>2 DEF PhaseOf, Running, InRun
<1>7. phaseMap' = [phaseMap EXCEPT ![k] = "waiting"]
  BY <1>5, <1>6 DEF phaseMap
<1>8. Abstract!Cardinality(Abstract!Busy) < MaxPending
  <2>1. \A S : Abstract!Cardinality(S) = Cardinality(S)
    BY DEF Cardinality, Abstract!Cardinality
  <2> QED
    BY <1>1, <2>1, BusyIsPending
<1>9. /\ accepting
      /\ phaseMap[k] = "clean"
      /\ accepting' = accepting
  BY <1>1, <1>5 DEF phaseMap
<1> QED
  BY <1>7, <1>8, <1>9 DEF Abstract!Accept, phaseMap

\* A coalesced key goes from "running" to "rerun", or stays what it is.
LEMMA CoalesceRefines ==
    ASSUME IInv, NEW c \in Clients, NEW k \in Keys, k = ckey[c],
           Enqueue(c), Coalesce(k)
    PROVE  \/ Abstract!AcceptAgain(k)
           \/ phaseMap' = phaseMap /\ accepting' = accepting
<1>1. /\ accepting' = accepting /\ accepting
      /\ k \in Pending
      /\ versions' = [versions EXCEPT ![k] = @ + 1]
      /\ UNCHANGED <<wkey, observed, wpc>>
  BY DEF Enqueue, Coalesce, flagVars, loopVars
<1>2. /\ Pending' = Pending
      /\ versions[k] \in Nat
      /\ versions'[k] = versions[k] + 1
      /\ \A j \in Keys \ {k} : versions'[j] = versions[j]
  BY <1>1 DEF Pending, IInv, TypeOK
<1>3. \A j \in Keys : Running(j)' <=> Running(j)
  BY <1>1 DEF Running
<1>4. \A j \in Keys \ {k} : PhaseOf(j)' = PhaseOf(j)
  BY <1>1, <1>2, <1>3 DEF PhaseOf
<1>5. \A w \in Workers : wkey[w] = k /\ InRun(w) => observed[w] # versions'[k]
  <2>1. \A w \in Workers : wkey[w] = k /\ InRun(w) =>
            observed[w] =< versions[k] /\ observed[w] \in Nat
    BY DEF IInv, OwnedKeys, InRun, TypeOK
  <2> QED
    BY <1>2, <2>1
<1>6. Running(k) => PhaseOf(k)' = "rerun" /\ PhaseOf(k) \in {"running", "rerun"}
  BY <1>1, <1>2, <1>3, <1>5 DEF PhaseOf, InRun
<1>7. ~Running(k) => PhaseOf(k)' = "waiting" /\ PhaseOf(k) = "waiting"
  BY <1>1, <1>2, <1>3 DEF PhaseOf
<1>8. CASE PhaseOf(k)' = PhaseOf(k)
  BY <1>1, <1>4, <1>8 DEF phaseMap
<1>9. CASE PhaseOf(k) = "running" /\ PhaseOf(k)' = "rerun"
  <2>1. phaseMap' = [phaseMap EXCEPT ![k] = "rerun"]
    BY <1>4, <1>9 DEF phaseMap
  <2> QED
    BY <1>1, <1>9, <2>1 DEF Abstract!AcceptAgain, phaseMap
<1> QED
  BY <1>6, <1>7, <1>8, <1>9

\* Observing the version starts the run of a waiting key.
LEMMA ObserveRefines ==
    ASSUME IInv, NEW w \in Workers, NEW k \in Keys, k = wkey[w],
           WorkerObserve(w)
    PROVE  Abstract!Start(k)
<1>1. wpc[w] = "observe" /\ k \in Keys /\ k \in Pending
  BY DEF WorkerObserve, Goto, IInv, KeysAccountedFor, InFlight, Owning
<1>2. w = worker
  BY <1>1 DEF IInv, Lifecycle
<1>3. \A v \in Workers \ {w} : wpc[v] = "unborn"
  BY <1>2 DEF IInv, Lifecycle
<1>4. /\ wpc'[w] = "read"
      /\ \A v \in Workers \ {w} : wpc'[v] = "unborn"
      /\ UNCHANGED <<versions, wkey, accepting>>
      /\ observed'[w] = versions[k]
  BY <1>1, <1>3 DEF WorkerObserve, Goto, IInv, TypeOK, lockVars, flagVars
<1>5. Pending' = Pending
  BY <1>4 DEF Pending
<1>6. \A j \in Keys : ~Running(j)
  BY <1>1, <1>3 DEF Running, Owning
<1>7. \A j \in Keys : Running(j)' <=> j = k
  BY <1>1, <1>3, <1>4 DEF Running, Owning
<1>8. \A j \in Keys : PhaseOf(j) \notin {"running", "rerun"}
  BY <1>6 DEF PhaseOf
<1>9. PhaseOf(k) = "waiting"
  BY <1>1, <1>6 DEF PhaseOf
<1>10. PhaseOf(k)' = "running"
  BY <1>1, <1>4, <1>5, <1>7 DEF PhaseOf, Owning
<1>11. \A j \in Keys \ {k} : PhaseOf(j)' = PhaseOf(j)
  BY <1>5, <1>6, <1>7 DEF PhaseOf
<1>12. phaseMap' = [phaseMap EXCEPT ![k] = "running"]
  BY <1>1, <1>10, <1>11 DEF phaseMap
<1> QED
  BY <1>1, <1>4, <1>8, <1>9, <1>12 DEF Abstract!Start, phaseMap

\* The end of a run makes its key clean, or waiting again.
LEMMA FinishRefines ==
    ASSUME IInv, NEW w \in Workers, NEW k \in Keys, k = wkey[w],
           WorkerFinish(w)
    PROVE  Abstract!Finish(k)
<1>1. /\ wpc[w] = "finish" /\ wpc'[w] = "check"
      /\ \A v \in Workers \ {w} : wpc[v] = "unborn" /\ wpc'[v] = "unborn"
      /\ k \in Keys /\ k \in Pending
  BY FinishMoves
<1>2. UNCHANGED <<wkey, observed, accepting>>
  BY DEF WorkerFinish, flagVars, loopVars
<1>3. \A j \in Keys : Running(j) <=> j = k
  BY <1>1 DEF Running, Owning
<1>4. \A j \in Keys : ~Running(j)'
  BY <1>1 DEF Running, Owning
<1>5. CASE versions[k] = observed[w]
  <2>1. versions' = [versions EXCEPT ![k] = 0]
    BY <1>5 DEF WorkerFinish
  <2>2. Pending' = Pending \ {k}
    BY <1>1, <2>1 DEF Pending, IInv, TypeOK
  <2>3. PhaseOf(k) = "running" /\ PhaseOf(k)' = "clean"
    BY <1>1, <1>3, <1>5, <2>2 DEF PhaseOf, Owning
  <2>4. \A j \in Keys \ {k} : PhaseOf(j)' = PhaseOf(j)
    BY <1>3, <1>4, <2>2 DEF PhaseOf
  <2>5. phaseMap' = [phaseMap EXCEPT ![k] = "clean"]
    BY <1>1, <2>3, <2>4 DEF phaseMap
  <2> QED
    BY <1>1, <1>2, <2>3, <2>5 DEF Abstract!Finish, phaseMap
<1>6. CASE versions[k] # observed[w]
  <2>1. versions' = versions
    BY <1>6 DEF WorkerFinish
  <2>2. Pending' = Pending
    BY <2>1 DEF Pending
  <2>3. \A v \in Workers : wkey[v] = k /\ wpc[v] \in Owning \ {"observe"} => v = w
    BY <1>1 DEF Owning
  <2>4. PhaseOf(k) = "rerun" /\ PhaseOf(k)' = "waiting"
    BY <1>1, <1>3, <1>4, <1>6, <2>2, <2>3 DEF PhaseOf
  <2>5. \A j \in Keys \ {k} : PhaseOf(j)' = PhaseOf(j)
    BY <1>3, <1>4, <2>2 DEF PhaseOf
  <2>6. phaseMap' = [phaseMap EXCEPT ![k] = "waiting"]
    BY <1>1, <2>4, <2>5 DEF phaseMap
  <2> QED
    BY <1>1, <1>2, <2>4, <2>6 DEF Abstract!Finish, phaseMap
<1> QED
  BY <1>5, <1>6

\* Every step is a step of the abstract queue or leaves it unchanged.
LEMMA NextRefines ==
    IInv /\ [Next]_vars =>
        [Abstract!Next]_<<phaseMap, accepting>>
<1> SUFFICES ASSUME IInv, [Next]_vars
             PROVE  Abstract!Next \/ UNCHANGED <<phaseMap, accepting>>
  OBVIOUS
<1>1. ASSUME NEW c \in Clients, NEW k \in Keys, Mutate(c, k)
      PROVE  UNCHANGED <<phaseMap, accepting>>
  BY <1>1, SamePhase DEF Mutate, lockVars, loopVars, flagVars, InRun
<1>2. ASSUME NEW c \in Clients, Enqueue(c)
      PROVE  Abstract!Next \/ UNCHANGED <<phaseMap, accepting>>
  <2>0. PICK k \in Keys : k = ckey[c]
    BY <1>2 DEF Enqueue, IInv, OwnedKeys
  <2>1. CASE RejectStopped(k) \/ RejectFull(k)
    BY <1>2, <2>1, SamePhase
       DEF Enqueue, RejectStopped, RejectFull, lockVars, loopVars, flagVars, InRun
  <2>2. CASE Coalesce(k)
    BY <1>2, <2>0, <2>2, CoalesceRefines DEF Abstract!Next
  <2>3. CASE Queue(k)
    BY <1>2, <2>0, <2>3, QueueRefines DEF Abstract!Next
  <2> QED
    BY <1>2, <2>0, <2>1, <2>2, <2>3 DEF Enqueue, EnqueueKey
<1>3. ASSUME NEW w \in Workers, WorkerStep(w)
      PROVE  Abstract!Next \/ UNCHANGED <<phaseMap, accepting>>
  <2>1. CASE WorkerObserve(w)
    <3>1. PICK k \in Keys : k = wkey[w]
      BY <2>1 DEF WorkerObserve, Goto, IInv, OwnedKeys, Owning
    <3> QED
      BY <2>1, <3>1, ObserveRefines DEF Abstract!Next
  <2>2. CASE WorkerFinish(w)
    <3>1. PICK k \in Keys : k = wkey[w]
      BY <2>2 DEF WorkerFinish, Goto, IInv, OwnedKeys, Owning
    <3> QED
      BY <2>2, <3>1, FinishRefines DEF Abstract!Next
  <2>3. CASE WorkerGet(w)
    <3>1. wpc[w] = "get" /\ wpc'[w] = "observe"
            /\ \A v \in Workers \ {w} : wpc'[v] = wpc[v]
      BY <2>3 DEF WorkerGet, Goto, IInv, TypeOK
    <3>2. UNCHANGED <<versions, observed, accepting>>
            /\ \A v \in Workers \ {w} : wkey'[v] = wkey[v]
      BY <2>3 DEF WorkerGet, flagVars, IInv, TypeOK
    <3>3. \A v \in Workers : (InRun(v)' <=> InRun(v))
                               /\ (InRun(v) => wkey'[v] = wkey[v])
      BY <3>1, <3>2 DEF InRun, Owning
    <3>4. Pending' = Pending
      BY <3>2 DEF Pending
    <3>5. ASSUME NEW k \in Keys PROVE PhaseOf(k)' = PhaseOf(k)
      <4>1. \A v \in Workers :
                (wkey'[v] = k /\ InRun(v)') <=> (wkey[v] = k /\ InRun(v))
        BY <3>3
      <4>2. Running(k)' <=> Running(k)
        BY <4>1 DEF Running, InRun
      <4> QED
        BY <3>2, <3>4, <4>1, <4>2 DEF PhaseOf, InRun
    <3> QED
      BY <3>2, <3>5 DEF phaseMap
  <2>4. CASE WorkerContinue(w) \/ WorkerExit(w) \/ WorkerGetTimeout(w)
    <3>1. \A v \in Workers : InRun(v)' <=> InRun(v)
      BY <2>4 DEF WorkerContinue, WorkerExit, WorkerGetTimeout, Goto, InRun,
                  Owning, IInv, TypeOK
    <3> QED
      BY <2>4, <3>1, SamePhase
         DEF WorkerContinue, WorkerExit, WorkerGetTimeout, lockVars, loopVars,
             flagVars
  <2>5. CASE WorkerRead(w) \/ WorkerCommit(w) \/ WorkerFail(w)
    <3>1. \A v \in Workers : InRun(v)' <=> InRun(v)
      BY <2>5 DEF WorkerRead, WorkerCommit, WorkerFail, Goto, InRun, Owning,
                  IInv, TypeOK
    <3> QED
      BY <2>5, <3>1, SamePhase
         DEF WorkerRead, WorkerCommit, WorkerFail, lockVars, loopVars, flagVars
  <2> QED
    BY <1>3, <2>1, <2>2, <2>3, <2>4, <2>5 DEF WorkerStep
<1>4. ASSUME StopAccepting \/ StopSignal \/ StopJoined \/ StopTimeout
      PROVE  Abstract!Next \/ UNCHANGED <<phaseMap, accepting>>
  <2>1. phaseMap' = phaseMap
    BY <1>4, SamePhase DEF StopAccepting, StopSignal, StopJoined, StopTimeout,
                           lockVars, loopVars, InRun
  <2>2. CASE StopAccepting
    <3>1. accepting /\ ~accepting'
      BY <2>2 DEF StopAccepting, IInv, Lifecycle
    <3>2. accepting' = FALSE
      BY <2>2 DEF StopAccepting
    <3> QED
      BY <2>1, <3>1, <3>2 DEF Abstract!Next, Abstract!Close, phaseMap
  <2>3. CASE StopSignal \/ StopJoined \/ StopTimeout
    BY <2>1, <2>3 DEF StopSignal, StopJoined, StopTimeout
  <2> QED
    BY <1>4, <2>2, <2>3
<1>5. CASE UNCHANGED vars
  BY <1>5, SamePhase DEF vars, lockVars, loopVars, flagVars, InRun
<1> QED
  BY <1>1, <1>2, <1>3, <1>4, <1>5 DEF Next

\* The version counters, the FIFO and the worker thread together behave as a
\* bounded coalescing queue that runs one update at a time.
THEOREM Refinement == Spec => ImplementsCoalescing
<1>1. Abstract!Next \/ UNCHANGED <<phaseMap, accepting>> =>
        [Abstract!Next]_<<[k \in Keys |-> PhaseOf(k)], accepting>>
  BY DEF phaseMap
<1>2. IInv /\ [Next]_vars =>
        [Abstract!Next]_<<[k \in Keys |-> PhaseOf(k)], accepting>>
  BY <1>1, NextRefines
<1> QED
  BY Invariance, InitRefines, <1>2, PTL
     DEF Spec, ImplementsCoalescing, Abstract!Spec

\* The bookkeeping of the queue, for any keys, clients and limit.
THEOREM Sound == Spec => []QueueSound
<1>1. TypeOK /\ KeysAccountedFor /\ PendingBounded /\ OneWorker => QueueSound
  BY DEF QueueSound
<1>. QED
  BY <1>1, TypeCorrect, Accounting, Bounded, SingleWorker, PTL
=============================================================================
