-------------------------- MODULE VaultWatchProofs --------------------------
(***************************************************************************)
(* Proofs about VaultWatch, for every set of notes and of generations.     *)
(***************************************************************************)
EXTENDS VaultWatch, TLAPS, FiniteSetTheorems

USE BoundsAssumption, NamesAssumption

(***************************************************************************)
(* One generation at a time.                                               *)
(***************************************************************************)

\* The positions of the threads: a function, None no thread of it.
PcIsFunction == pc = [t \in Threads |-> pc[t]]

\* OneGeneration needs nothing but the domain of pc.
GenInv == PcIsFunction /\ OneGeneration

\* A thread that takes a step of reindex_note was alive and stays so.
LEMMA ReindexKeepsGenerations ==
    ASSUME GenInv, NEW t \in Threads, Reindex(t) \/ ReindexFails(t)
    PROVE  GenInv'
<1>1. /\ Alive(t)
      /\ \E to \in {"idle", "next", "lock", "id", "token", "put", "parse",
                    "commit", "marked", "breaker"} :
            pc' = [pc EXCEPT ![t] = to]
      /\ worker' = worker
  BY DEF Reindex, ReindexFails, Breaker, BreakerOpen, WriteLock, AddId,
     NoIdAdded, TokenStat, TokenPut, Parse, Commit, Return, Goto, lifeVars,
     Alive
<1>2. PICK to \in {"idle", "next", "lock", "id", "token", "put", "parse",
                   "commit", "marked", "breaker"} :
            pc' = [pc EXCEPT ![t] = to]
  BY <1>1
<1>3. PcIsFunction'
  BY <1>2 DEF GenInv, PcIsFunction
<1>4. \A g \in Threads : pc'[g] = IF g = t THEN to ELSE pc[g]
  BY <1>2 DEF GenInv, PcIsFunction
<1>5. ASSUME NEW g \in Generations, Alive(g)'
      PROVE  worker' = g
  <2>1. g \in Threads
    BY DEF Threads
  <2>2. Alive(g)
    BY <1>1, <1>4, <1>5, <2>1 DEF Alive
  <2> QED
    BY <1>1, <2>2 DEF GenInv, OneGeneration
<1> QED
  BY <1>3, <1>5 DEF GenInv, OneGeneration

\* So does a worker in its loop, unless it ends.
LEMMA WorkerKeepsGenerations ==
    ASSUME GenInv, NEW t \in Generations, Worker(t)
    PROVE  GenInv'
<1>0. t \in Threads
  BY DEF Threads
<1>1. /\ Alive(t)
      /\ \E to \in {"next", "wait", "dead", "breaker"} :
            pc' = [pc EXCEPT ![t] = to]
      /\ worker' = worker
  BY DEF Worker, WorkerLoop, WorkerCollect, WorkerNext, Goto, lifeVars, Alive
<1>2. PICK to \in {"next", "wait", "dead", "breaker"} :
            pc' = [pc EXCEPT ![t] = to]
  BY <1>1
<1>3. PcIsFunction'
  BY <1>2 DEF GenInv, PcIsFunction
<1>4. \A g \in Threads : pc'[g] = IF g = t THEN to ELSE pc[g]
  BY <1>2 DEF GenInv, PcIsFunction
<1>5. ASSUME NEW g \in Generations, Alive(g)'
      PROVE  worker' = g
  <2>1. g \in Threads
    BY DEF Threads
  <2>2. Alive(g)
    BY <1>1, <1>4, <1>5, <2>1 DEF Alive
  <2> QED
    BY <1>1, <2>2 DEF GenInv, OneGeneration
<1> QED
  BY <1>3, <1>5 DEF GenInv, OneGeneration

\* start makes g the worker only if nobody else is alive.
LEMMA StartKeepsGenerations ==
    ASSUME GenInv, NEW g \in Generations, Start(g) \/ StartFails(g)
    PROVE  GenInv'
<1>0. g \in Threads
  BY DEF Threads
<1>1. \A h \in Generations : ~Alive(h)
  <2>1. ~WorkerAlive
    BY DEF Start, StartFails, StartAllowed
  <2>2. None \notin Generations
    OBVIOUS
  <2> QED
    BY <2>1, <2>2 DEF GenInv, OneGeneration, WorkerAlive
<1>2. /\ PcIsFunction'
      /\ \A h \in Threads \ {g} : pc'[h] = pc[h]
  BY DEF GenInv, PcIsFunction, Start, StartFails
<1>3. Start(g) => worker' = g
  BY DEF Start
<1>4. StartFails(g) => pc'[g] = "dead"
  BY <1>0 DEF GenInv, PcIsFunction, StartFails
<1>5. ASSUME NEW h \in Generations, Alive(h)'
      PROVE  worker' = h
  <2>1. h = g
    BY <1>1, <1>2, <1>5 DEF Alive, Threads
  <2> QED
    BY <1>3, <1>4, <1>5, <2>1 DEF Alive
<1> QED
  BY <1>2, <1>5 DEF GenInv, OneGeneration

\* stop forgets its worker only if that is dead, and so does start when there
\* is no vault.
LEMMA ForgettingKeepsGenerations ==
    ASSUME GenInv, StopReturns \/ StartNoVault
    PROVE  GenInv'
<1>1. pc' = pc
  BY DEF StopReturns, StartNoVault, threadVars
<1>2. worker' = worker \/ ~WorkerAlive
  BY DEF StopReturns, StartNoVault, StartAllowed, Retained
<1>3. ASSUME NEW g \in Generations, Alive(g)
      PROVE  worker' = g
  <2>1. worker = g
    BY <1>3 DEF GenInv, OneGeneration
  <2>2. WorkerAlive
    BY <1>3, <2>1 DEF WorkerAlive
  <2> QED
    BY <1>2, <2>1, <2>2
<1> QED
  BY <1>1, <1>3 DEF GenInv, PcIsFunction, OneGeneration, Alive

\* A tool begins its work.
LEMMA ToolKeepsGenerations ==
    ASSUME GenInv, NEW n \in Notes,
           Enrich(n) \/ \E there \in BOOLEAN : ToolChanges(n, there)
    PROVE  GenInv'
<1>1. /\ \E to \in {"breaker", "mark"} : pc' = [pc EXCEPT ![Tool] = to]
      /\ worker' = worker
  BY DEF Enrich, ToolChanges, lifeVars
<1>2. PcIsFunction' /\ \A g \in Generations : pc'[g] = pc[g]
  BY <1>1 DEF GenInv, PcIsFunction, Threads
<1> QED
  BY <1>1, <1>2 DEF GenInv, OneGeneration, Alive

\* Whatever leaves the threads and the reference alone keeps the invariant.
LEMMA QuietKeepsGenerations ==
    ASSUME GenInv, UNCHANGED <<pc, worker>>
    PROVE  GenInv'
  BY DEF GenInv, PcIsFunction, OneGeneration, Alive

\* At most one generation of the watcher's worker thread is alive, and it is
\* the one _worker refers to, whatever start, stop, their failures and their
\* timeouts did before.
THEOREM SingleGeneration == Spec => []OneGeneration
<1>1. Init => GenInv
  <2> SUFFICES ASSUME Init PROVE GenInv
    OBVIOUS
  <2>1. PcIsFunction
    BY DEF Init, PcIsFunction
  <2>2. \A g \in Generations : pc[g] = "unused"
    BY DEF Init, Threads
  <2> QED
    BY <2>1, <2>2 DEF GenInv, OneGeneration, Alive
<1>2. GenInv /\ [Next]_vars => GenInv'
  <2> SUFFICES ASSUME GenInv, [Next]_vars PROVE GenInv'
    OBVIOUS
  <2>1. ASSUME NEW n \in Notes,
               Enrich(n) \/ \E there \in BOOLEAN : ToolChanges(n, there)
        PROVE  GenInv'
    BY <2>1, ToolKeepsGenerations
  <2>2. ASSUME NEW n \in Notes,
               \/ Save(n) \/ Remove(n) \/ TokenExpires(n) \/ Ripen(n)
               \/ WindowExpires(n)
        PROVE  GenInv'
    BY <2>2, QuietKeepsGenerations DEF Save, Remove, TokenExpires, Ripen,
       WindowExpires, lifeVars, threadVars
  <2>3. CASE HandlerStat \/ HandlerDecide \/ StopSignal \/ ObserverExits
    BY <2>3, QuietKeepsGenerations DEF HandlerStat, HandlerDecide, StopSignal,
       ObserverExits, lifeVars, threadVars
  <2>4. ASSUME NEW t \in Threads, Reindex(t) \/ ReindexFails(t)
        PROVE  GenInv'
    BY <2>4, ReindexKeepsGenerations
  <2>5. ASSUME NEW g \in Generations, Worker(g)
        PROVE  GenInv'
    BY <2>5, WorkerKeepsGenerations
  <2>6. ASSUME NEW g \in Generations, Start(g) \/ StartFails(g)
        PROVE  GenInv'
    BY <2>6, StartKeepsGenerations
  <2>7. CASE StopReturns \/ StartNoVault
    BY <2>7, ForgettingKeepsGenerations
  <2>8. CASE UNCHANGED vars
    BY <2>8, QuietKeepsGenerations DEF vars, lifeVars, threadVars
  <2> QED
    BY <2>1, <2>2, <2>3, <2>4, <2>5, <2>6, <2>7, <2>8 DEF Next
<1>3. GenInv => OneGeneration
  BY DEF GenInv
<1> QED
  BY <1>1, <1>2, <1>3, PTL DEF Spec

(***************************************************************************)
(* Types, and what a thread has at each position.                          *)
(***************************************************************************)

\* A thread at these positions works on a note.
Busy ==
    {"breaker", "lock", "id", "token", "put", "parse", "commit", "mark",
     "marked"}

\* A thread at these positions holds _write_lock.
Inside == {"id", "token", "put", "parse", "commit"}

ThreadOK(t) ==
    /\ pc[t] \in Busy => arg[t] \in Notes
    /\ pc[t] \notin Busy => arg[t] = None
    /\ pc[t] \notin {"put", "marked", "commit"} => read[t] = 0
    /\ pc[t] \in {"put", "marked"} => read[t] =< note[arg[t]].rev
    /\ pc[t] = "wait" => ready[t] = {}
    /\ pc[t] \in Inside => lock = t

ThreadInv == \A t \in Threads : ThreadOK(t)

Base == TypeOK /\ ThreadInv

\* A change of a note keeps its type, the types of the events and of the
\* excuses, and the order of revisions.
LEMMA WriteFacts ==
    ASSUME TypeOK, NEW n \in Notes, NEW there \in BOOLEAN, NEW id \in BOOLEAN,
           Write(n, there, id)
    PROVE  /\ note' \in [Notes -> [rev : Revisions, there : BOOLEAN,
                                   id : BOOLEAN]]
           /\ events' \in Seq(Notes)
           /\ excused' \in [Notes -> Causes \cup {None}]
           /\ \A m \in Notes : note[m].rev =< note'[m].rev
           /\ UNCHANGED <<handling, pending, ripe>>
<1>1. note[n].rev + 1 \in Nat /\ note[n].rev =< note[n].rev + 1
  BY DEF TypeOK, Revisions
<1>2. note' = [note EXCEPT ![n] =
                  [rev |-> note[n].rev + 1, there |-> there, id |-> id]]
  BY DEF Write
<1>3. note' \in [Notes -> [rev : Revisions, there : BOOLEAN, id : BOOLEAN]]
  BY <1>1, <1>2 DEF TypeOK, Revisions
<1>4. \A m \in Notes : note[m].rev =< note'[m].rev
  BY <1>1, <1>2 DEF TypeOK, Revisions
<1>5. events' \in Seq(Notes)
  BY DEF TypeOK, Write
<1>6. excused' \in [Notes -> Causes \cup {None}]
  BY DEF TypeOK, Write, Causes
<1> QED
  BY <1>3, <1>4, <1>5, <1>6 DEF Write

\* Tokens that go leave a finite set within the bound.
LEMMA FewerTokens ==
    ASSUME TypeOK, NEW S, S \subseteq tokens
    PROVE  /\ S \subseteq [note : Notes, rev : Revisions]
           /\ IsFiniteSet(S)
           /\ Cardinality(S) \in Nat
           /\ Cardinality(S) =< MaxTokens
<1>1. IsFiniteSet(S) /\ Cardinality(S) =< Cardinality(tokens)
  BY FS_Subset DEF TypeOK
<1>2. Cardinality(S) \in Nat /\ Cardinality(tokens) \in Nat
  BY <1>1, FS_CardinalityType DEF TypeOK
<1> QED
  BY <1>1, <1>2 DEF TypeOK

\* A thread that does not move is as it was, whatever note is changed.
LEMMA ThreadFrame ==
    ASSUME Base, NEW t \in Threads,
           note' \in [Notes -> [rev : Revisions, there : BOOLEAN,
                               id : BOOLEAN]],
           \A m \in Notes : note[m].rev =< note'[m].rev,
           pc'[t] = pc[t], arg'[t] = arg[t], read'[t] = read[t],
           ready'[t] = ready[t], lock' = lock
    PROVE  ThreadOK(t)'
<1>1. ASSUME pc[t] \in {"put", "marked"}
      PROVE  read[t] =< note'[arg[t]].rev
  <2>1. arg[t] \in Notes /\ read[t] =< note[arg[t]].rev
    BY <1>1 DEF Base, ThreadInv, ThreadOK, Busy
  <2>2. /\ read[t] \in Nat
        /\ note[arg[t]].rev \in Nat
        /\ note'[arg[t]].rev \in Nat
    BY <2>1 DEF Base, TypeOK, Revisions
  <2> QED
    BY <2>1, <2>2
<1>2. ThreadOK(t)
  BY DEF Base, ThreadInv
<1> QED
  BY <1>1, <1>2 DEF ThreadOK

\* An editor changes a note.
LEMMA SaveBase ==
    ASSUME Base, NEW n \in Notes, Save(n)
    PROVE  Base'
<1>1. \E id \in BOOLEAN : Write(n, TRUE, id)
  BY DEF Base, TypeOK, Save
<1>2. /\ note' \in [Notes -> [rev : Revisions, there : BOOLEAN, id : BOOLEAN]]
      /\ events' \in Seq(Notes)
      /\ excused' \in [Notes -> Causes \cup {None}]
      /\ \A m \in Notes : note[m].rev =< note'[m].rev
      /\ UNCHANGED <<handling, pending, ripe>>
  BY <1>1, WriteFacts DEF Base
<1>3. TypeOK'
  BY <1>2 DEF Base, TypeOK, Threads, Positions, lifeVars, threadVars, Save
<1>4. ThreadInv'
  <2>1. UNCHANGED <<pc, arg, read, ready, lock>>
    BY DEF Save, threadVars
  <2> QED
    BY <1>2, <2>1, ThreadFrame DEF ThreadInv
<1> QED
  BY <1>3, <1>4 DEF Base

\* An editor removes a note.
LEMMA RemoveBase ==
    ASSUME Base, NEW n \in Notes, Remove(n)
    PROVE  Base'
<1>1. Write(n, FALSE, FALSE)
  BY DEF Base, TypeOK, Remove
<1>2. /\ note' \in [Notes -> [rev : Revisions, there : BOOLEAN, id : BOOLEAN]]
      /\ events' \in Seq(Notes)
      /\ excused' \in [Notes -> Causes \cup {None}]
      /\ \A m \in Notes : note[m].rev =< note'[m].rev
      /\ UNCHANGED <<handling, pending, ripe>>
  BY <1>1, WriteFacts DEF Base
<1>3. TypeOK'
  BY <1>2 DEF Base, TypeOK, Threads, Positions, lifeVars, threadVars, Remove
<1>4. ThreadInv'
  <2>1. UNCHANGED <<pc, arg, read, ready, lock>>
    BY DEF Remove, threadVars
  <2> QED
    BY <1>2, <2>1, ThreadFrame DEF ThreadInv
<1> QED
  BY <1>3, <1>4 DEF Base

\* An enrichment job writes a note.
LEMMA EnrichBase ==
    ASSUME Base, NEW n \in Notes, Enrich(n)
    PROVE  Base'
<1>1. \E id \in BOOLEAN : Write(n, TRUE, id)
  BY DEF Base, TypeOK, Enrich
<1>2. /\ note' \in [Notes -> [rev : Revisions, there : BOOLEAN, id : BOOLEAN]]
      /\ events' \in Seq(Notes)
      /\ excused' \in [Notes -> Causes \cup {None}]
      /\ \A m \in Notes : note[m].rev =< note'[m].rev
      /\ UNCHANGED <<handling, pending, ripe>>
  BY <1>1, WriteFacts DEF Base
<1>3. TypeOK'
  BY <1>2 DEF Base, TypeOK, Threads, Positions, lifeVars, threadVars, Enrich
<1>4. ThreadInv'
  <2>1. /\ pc[Tool] = "idle" /\ Tool \in Threads
        /\ pc' = [pc EXCEPT ![Tool] = "mark"]
        /\ arg' = [arg EXCEPT ![Tool] = n]
        /\ UNCHANGED <<read, ready, lock>>
    BY DEF Enrich, Threads
  <2>2. ASSUME NEW u \in Threads, u # Tool
        PROVE  ThreadOK(u)'
    <3>1. /\ pc'[u] = pc[u] /\ arg'[u] = arg[u] /\ read'[u] = read[u]
          /\ ready'[u] = ready[u] /\ lock' = lock
      BY <2>1, <2>2 DEF Base, TypeOK
    <3> QED
      BY <1>2, <3>1, ThreadFrame
  <2>3. ThreadOK(Tool)'
    <3>1. /\ pc'[Tool] = "mark" /\ arg'[Tool] \in Notes
          /\ read'[Tool] = 0 /\ lock' = lock
      BY <2>1 DEF Base, TypeOK, ThreadInv, ThreadOK, Busy
    <3>2. ThreadOK(Tool)
      BY <2>1 DEF Base, ThreadInv
    <3> QED
      BY <2>1, <3>1, <3>2 DEF ThreadOK, Busy, Inside
  <2> QED
    BY <2>2, <2>3 DEF ThreadInv
<1> QED
  BY <1>3, <1>4 DEF Base

\* A tool changes a note.
LEMMA ToolChangesBase ==
    ASSUME Base, NEW n \in Notes, NEW there \in BOOLEAN, ToolChanges(n, there)
    PROVE  Base'
<1>1. \E id \in BOOLEAN : Write(n, there, id)
  BY DEF Base, TypeOK, ToolChanges
<1>2. /\ note' \in [Notes -> [rev : Revisions, there : BOOLEAN, id : BOOLEAN]]
      /\ events' \in Seq(Notes)
      /\ excused' \in [Notes -> Causes \cup {None}]
      /\ \A m \in Notes : note[m].rev =< note'[m].rev
      /\ UNCHANGED <<handling, pending, ripe>>
  BY <1>1, WriteFacts DEF Base
<1>3. TypeOK'
  BY <1>2 DEF Base, TypeOK, Threads, Positions, lifeVars, threadVars,
     ToolChanges
<1>4. ThreadInv'
  <2>1. /\ pc[Tool] = "idle" /\ Tool \in Threads
        /\ pc' = [pc EXCEPT ![Tool] = "breaker"]
        /\ arg' = [arg EXCEPT ![Tool] = n]
        /\ UNCHANGED <<read, ready, lock>>
    BY DEF ToolChanges, Threads
  <2>2. ASSUME NEW u \in Threads, u # Tool
        PROVE  ThreadOK(u)'
    <3>1. /\ pc'[u] = pc[u] /\ arg'[u] = arg[u] /\ read'[u] = read[u]
          /\ ready'[u] = ready[u] /\ lock' = lock
      BY <2>1, <2>2 DEF Base, TypeOK
    <3> QED
      BY <1>2, <3>1, ThreadFrame
  <2>3. ThreadOK(Tool)'
    <3>1. /\ pc'[Tool] = "breaker" /\ arg'[Tool] \in Notes
          /\ read'[Tool] = 0 /\ lock' = lock
      BY <2>1 DEF Base, TypeOK, ThreadInv, ThreadOK, Busy
    <3>2. ThreadOK(Tool)
      BY <2>1 DEF Base, ThreadInv
    <3> QED
      BY <2>1, <3>1, <3>2 DEF ThreadOK, Busy, Inside
  <2> QED
    BY <2>2, <2>3 DEF ThreadInv
<1> QED
  BY <1>3, <1>4 DEF Base

\* A token expires.
LEMMA TokenExpiresBase ==
    ASSUME Base, NEW n \in Notes, TokenExpires(n)
    PROVE  Base'
<1>1. tokens' \subseteq tokens
  BY DEF TokenExpires, WithoutToken
<1>2. TypeOK'
  BY <1>1, FewerTokens DEF Base, TypeOK, TokenExpires, watchVars, lifeVars,
     threadVars
<1>3. ThreadInv'
  BY DEF Base, ThreadInv, ThreadOK, TokenExpires, threadVars
<1> QED
  BY <1>2, <1>3 DEF Base

\* A debounce window elapses.
LEMMA RipenBase ==
    ASSUME Base, NEW n \in Notes, Ripen(n)
    PROVE  Base'
<1>1. TypeOK'
  BY DEF Base, TypeOK, ThreadInv, ThreadOK, Busy, Threads, Revisions,
     Positions, watchVars, lifeVars, threadVars, Ripen
<1>2. ThreadInv'
  BY DEF Base, ThreadInv, ThreadOK, threadVars, Ripen
<1> QED
  BY <1>1, <1>2 DEF Base

\* A breaker window elapses.
LEMMA WindowExpiresBase ==
    ASSUME Base, NEW n \in Notes, WindowExpires(n)
    PROVE  Base'
<1>1. attempts' \in [Notes -> 0..MaxAttempts]
  BY DEF Base, TypeOK, WindowExpires
<1>2. TypeOK'
  BY <1>1 DEF Base, TypeOK, WindowExpires, watchVars, lifeVars, threadVars
<1>3. ThreadInv'
  BY DEF Base, ThreadInv, ThreadOK, WindowExpires, threadVars
<1> QED
  BY <1>2, <1>3 DEF Base

\* The observer looks at the file of an event.
LEMMA HandlerStatBase ==
    ASSUME Base, HandlerStat
    PROVE  Base'
<1>1. Head(events) \in Notes /\ events' \in Seq(Notes)
  BY DEF Base, TypeOK, HandlerStat
<1>2. Row(Head(events)) \in Revisions
  BY <1>1 DEF Base, TypeOK, Row, Revisions
<1>3. handling' \in [note : Notes, rev : Revisions]
  BY <1>1, <1>2 DEF HandlerStat
<1>4. TypeOK'
  BY <1>1, <1>3 DEF Base, TypeOK, HandlerStat, lifeVars, threadVars
<1>5. ThreadInv'
  BY DEF Base, ThreadInv, ThreadOK, HandlerStat, threadVars
<1> QED
  BY <1>4, <1>5 DEF Base

\* The observer ignores the event or makes its path pending.
LEMMA HandlerDecideBase ==
    ASSUME Base, HandlerDecide
    PROVE  Base'
<1>1. tokens' \subseteq tokens
  BY DEF HandlerDecide, WithoutToken
<1>2. pending' \subseteq Notes /\ ripe' \subseteq pending'
  BY DEF Base, TypeOK, HandlerDecide
<1>3. TypeOK'
  BY <1>1, <1>2, FewerTokens DEF Base, TypeOK, HandlerDecide, lifeVars,
     threadVars
<1>4. ThreadInv'
  BY DEF Base, ThreadInv, ThreadOK, HandlerDecide, threadVars
<1> QED
  BY <1>3, <1>4 DEF Base

\* An attempt is counted.
LEMMA BreakerBase ==
    ASSUME Base, NEW t \in Threads, Breaker(t)
    PROVE  Base'
<1>1. arg[t] \in Notes
  BY DEF Base, TypeOK, ThreadInv, ThreadOK, Busy, Breaker
<1>2. attempts[arg[t]] + 1 \in 0..MaxAttempts
  BY <1>1 DEF Base, TypeOK, Breaker
<1>3. attempts' \in [Notes -> 0..MaxAttempts]
  BY <1>2 DEF Base, TypeOK, Breaker
<1>4. TypeOK'
  BY <1>3 DEF Base, TypeOK, Breaker, Positions, watchVars, lifeVars
<1>5. ThreadInv'
  BY DEF Base, TypeOK, ThreadInv, ThreadOK, Busy, Inside, Breaker
<1> QED
  BY <1>4, <1>5 DEF Base

\* An attempt is refused.
LEMMA BreakerOpenBase ==
    ASSUME Base, NEW t \in Threads, BreakerOpen(t)
    PROVE  Base'
<1>1. TypeOK'
  <2>1. /\ pc' \in [Threads -> Positions]
        /\ arg' \in [Threads -> Notes \cup {None}]
        /\ read' \in [Threads -> Revisions]
    BY DEF Base, TypeOK, BreakerOpen, Return, Positions, Revisions
  <2>2. excused' \in [Notes -> Causes \cup {None}]
    BY DEF Base, TypeOK, BreakerOpen, GiveUp, Causes
  <2> QED
    BY <2>1, <2>2 DEF Base, TypeOK, BreakerOpen, Return, watchVars, lifeVars
<1>2. ThreadInv'
  BY DEF Base, TypeOK, ThreadInv, ThreadOK, Busy, Inside, BreakerOpen, Return
<1> QED
  BY <1>1, <1>2 DEF Base

\* _write_lock is taken.
LEMMA WriteLockBase ==
    ASSUME Base, NEW t \in Threads, WriteLock(t)
    PROVE  Base'
<1>1. TypeOK'
  BY DEF Base, TypeOK, Positions, watchVars, lifeVars, WriteLock, Goto
<1>2. ThreadInv'
  BY DEF Base, ThreadInv, ThreadOK, Busy, Threads, WriteLock, Goto
<1> QED
  BY <1>1, <1>2 DEF Base

\* ensure_note_id writes.
LEMMA AddIdBase ==
    ASSUME Base, NEW t \in Threads, AddId(t)
    PROVE  Base'
<1>0. arg[t] \in Notes
  BY DEF Base, TypeOK, ThreadInv, ThreadOK, Busy, AddId, Goto
<1>1. Write(arg[t], TRUE, TRUE)
  BY DEF Base, TypeOK, AddId, Goto
<1>2. /\ note' \in [Notes -> [rev : Revisions, there : BOOLEAN, id : BOOLEAN]]
      /\ events' \in Seq(Notes)
      /\ excused' \in [Notes -> Causes \cup {None}]
      /\ \A m \in Notes : note[m].rev =< note'[m].rev
      /\ UNCHANGED <<handling, pending, ripe>>
  BY <1>0, <1>1, WriteFacts DEF Base
<1>3. TypeOK'
  BY <1>2 DEF Base, TypeOK, Positions, lifeVars, AddId, Goto
<1>4. ThreadInv'
  <2>1. /\ pc[t] = "id" /\ t \in Threads
        /\ pc' = [pc EXCEPT ![t] = "token"]
        /\ UNCHANGED arg
        /\ UNCHANGED <<read, ready, lock>>
    BY DEF AddId, Goto
  <2>2. ASSUME NEW u \in Threads, u # t
        PROVE  ThreadOK(u)'
    <3>1. /\ pc'[u] = pc[u] /\ arg'[u] = arg[u] /\ read'[u] = read[u]
          /\ ready'[u] = ready[u] /\ lock' = lock
      BY <2>1, <2>2 DEF Base, TypeOK
    <3> QED
      BY <1>2, <3>1, ThreadFrame
  <2>3. ThreadOK(t)'
    <3>1. /\ pc'[t] = "token" /\ arg'[t] \in Notes
          /\ read'[t] = 0 /\ lock' = lock
      BY <1>0, <2>1 DEF Base, TypeOK, ThreadInv, ThreadOK, Busy
    <3>2. ThreadOK(t)
      BY <2>1 DEF Base, ThreadInv
    <3> QED
      BY <2>1, <3>1, <3>2 DEF ThreadOK, Busy, Inside
  <2> QED
    BY <2>2, <2>3 DEF ThreadInv
<1> QED
  BY <1>3, <1>4 DEF Base

\* ensure_note_id does not write.
LEMMA NoIdAddedBase ==
    ASSUME Base, NEW t \in Threads, NoIdAdded(t)
    PROVE  Base'
<1>1. TypeOK'
  BY DEF Base, TypeOK, Positions, watchVars, lifeVars, NoIdAdded, Goto
<1>2. ThreadInv'
  BY DEF Base, ThreadInv, ThreadOK, Busy, Inside, NoIdAdded, Goto
<1> QED
  BY <1>1, <1>2 DEF Base

\* ignore_next_change looks at the file.
LEMMA TokenStatBase ==
    ASSUME Base, NEW t \in Threads, TokenStat(t)
    PROVE  Base'
<1>1. arg[t] \in Notes
  BY DEF Base, TypeOK, ThreadInv, ThreadOK, Busy, TokenStat, Goto
<1>2. Row(arg[t]) \in Revisions /\ Row(arg[t]) =< note[arg[t]].rev
  <2>1. note[arg[t]].rev \in Nat
    BY <1>1 DEF Base, TypeOK, Revisions
  <2> QED
    BY <2>1 DEF Row, Revisions
<1>3. /\ \/ pc[t] = "token" /\ pc'[t] \in {"parse", "put"}
         \/ pc[t] = "mark" /\ pc'[t] \in {"breaker", "marked"}
      /\ pc'[t] \in {"parse", "breaker"} => Row(arg[t]) = 0
      /\ pc' = [pc EXCEPT ![t] = pc'[t]]
      /\ read' = [read EXCEPT ![t] = Row(arg[t])]
      /\ UNCHANGED <<note, arg, ready, lock>>
  BY <1>1 DEF Base, TypeOK, TokenStat, Goto, Row
<1>4. TypeOK'
  <2>1. pc' \in [Threads -> Positions]
    BY <1>3 DEF Base, TypeOK, Positions
  <2>2. read' \in [Threads -> Revisions]
    BY <1>2, <1>3 DEF Base, TypeOK
  <2> QED
    BY <1>3, <2>1, <2>2 DEF Base, TypeOK, TokenStat, watchVars, lifeVars
<1>5. ThreadInv'
  BY <1>1, <1>2, <1>3 DEF Base, TypeOK, ThreadInv, ThreadOK, Busy, Inside
<1> QED
  BY <1>4, <1>5 DEF Base

\* ignore_next_change records the revision.
LEMMA TokenPutBase ==
    ASSUME Base, NEW t \in Threads, TokenPut(t)
    PROVE  Base'
<1> DEFINE others == WithoutToken(arg[t])
           new == [note |-> arg[t], rev |-> read[t]]
<1>1. arg[t] \in Notes /\ new \in [note : Notes, rev : Revisions]
  BY DEF Base, TypeOK, ThreadInv, ThreadOK, Busy, TokenPut, Goto
<1>2. others \subseteq tokens /\ new \notin others
  BY DEF WithoutToken
<1>3. PICK S \in SUBSET others :
          /\ tokens' = S \cup {new}
          /\ IsFiniteSet(S) /\ Cardinality(S) \in Nat
          /\ Cardinality(S) < MaxTokens
  <2>1. CASE Cardinality(others) < MaxTokens
    <3>1. tokens' = others \cup {new}
      BY <2>1 DEF TokenPut
    <3>2. IsFiniteSet(others) /\ Cardinality(others) \in Nat
      BY <1>2, FewerTokens DEF Base
    <3> QED
      BY <2>1, <3>1, <3>2
  <2>2. CASE ~(Cardinality(others) < MaxTokens)
    <3>1. PICK old \in others : tokens' = (others \ {old}) \cup {new}
      BY <2>2 DEF TokenPut
    <3>2. /\ IsFiniteSet(others) /\ Cardinality(others) \in Nat
          /\ Cardinality(others) =< MaxTokens
      BY <1>2, FewerTokens DEF Base
    <3>3. /\ IsFiniteSet(others \ {old})
          /\ Cardinality(others \ {old}) = Cardinality(others) - 1
      BY <3>2, FS_RemoveElement
    <3>4. Cardinality(others \ {old}) \in Nat
      BY <3>3, FS_CardinalityType
    <3>5. Cardinality(others \ {old}) < MaxTokens
      BY <3>2, <3>3
    <3> QED
      BY <3>1, <3>3, <3>4, <3>5
  <2> QED
    BY <2>1, <2>2
<1>4. IsFiniteSet(tokens') /\ Cardinality(tokens') = Cardinality(S) + 1
  <2>1. IsFiniteSet(S) /\ new \notin S
    BY <1>2, <1>3
  <2> HIDE DEF new
  <2>2. /\ IsFiniteSet(S \cup {new})
        /\ Cardinality(S \cup {new}) = Cardinality(S) + 1
    BY <2>1, FS_AddElement
  <2> QED
    BY <1>3, <2>2
<1>5. tokens' \subseteq [note : Notes, rev : Revisions]
  BY <1>1, <1>2, <1>3 DEF Base, TypeOK
<1>6. Cardinality(tokens') =< MaxTokens
  BY <1>3, <1>4
<1> HIDE DEF others, new
<1>7. TypeOK'
  <2>1. pc' \in [Threads -> Positions] /\ read' \in [Threads -> Revisions]
    BY DEF Base, TypeOK, TokenPut, Goto, Positions, Revisions
  <2> QED
    BY <1>4, <1>5, <1>6, <2>1 DEF Base, TypeOK, TokenPut, watchVars, lifeVars
<1>8. ThreadInv'
  <2>1. /\ \/ pc[t] = "put" /\ pc' = [pc EXCEPT ![t] = "parse"]
           \/ pc[t] = "marked" /\ pc' = [pc EXCEPT ![t] = "breaker"]
        /\ read' = [read EXCEPT ![t] = 0]
        /\ UNCHANGED <<note, arg, ready, lock>>
    BY DEF TokenPut, Goto
  <2> QED
    BY <1>1, <2>1 DEF Base, TypeOK, ThreadInv, ThreadOK, Busy, Inside
<1> QED
  BY <1>7, <1>8 DEF Base

\* The note is parsed.
LEMMA ParseBase ==
    ASSUME Base, NEW t \in Threads, Parse(t)
    PROVE  Base'
<1>1. TypeOK'
  BY DEF Base, TypeOK, ThreadInv, ThreadOK, Busy, Threads, Revisions,
     Positions, watchVars, lifeVars, threadVars, Parse, Goto, Row
<1>2. ThreadInv'
  BY DEF Base, TypeOK, ThreadInv, ThreadOK, Busy, Inside, Parse, Goto
<1> QED
  BY <1>1, <1>2 DEF Base

\* The rows are committed.
LEMMA CommitBase ==
    ASSUME Base, NEW t \in Threads, Commit(t)
    PROVE  Base'
<1>1. TypeOK'
  BY DEF Base, TypeOK, Revisions, Positions, watchVars, lifeVars, Commit,
     Return
<1>2. ThreadInv'
  BY DEF Base, TypeOK, ThreadInv, ThreadOK, Busy, Inside, Commit, Return
<1> QED
  BY <1>1, <1>2 DEF Base

\* A reindex fails.
LEMMA ReindexFailsBase ==
    ASSUME Base, NEW t \in Threads, ReindexFails(t)
    PROVE  Base'
<1>1. TypeOK'
  BY DEF Base, TypeOK, Revisions, Positions, watchVars, lifeVars,
     ReindexFails, Return, GiveUp, Causes
<1>2. ThreadInv'
  BY DEF Base, TypeOK, ThreadInv, ThreadOK, Busy, Inside, ReindexFails, Return
<1> QED
  BY <1>1, <1>2 DEF Base

\* The worker evaluates its condition.
LEMMA WorkerLoopBase ==
    ASSUME Base, NEW g \in Generations, WorkerLoop(g)
    PROVE  Base'
<1>1. TypeOK'
  BY DEF Base, TypeOK, Positions, watchVars, lifeVars, WorkerLoop, Goto
<1>2. ThreadInv'
  BY DEF Base, ThreadInv, ThreadOK, Busy, Inside, WorkerLoop, Goto
<1> QED
  BY <1>1, <1>2 DEF Base

\* The worker takes what is ripe.
LEMMA WorkerCollectBase ==
    ASSUME Base, NEW g \in Generations, WorkerCollect(g)
    PROVE  Base'
<1>1. TypeOK'
  BY DEF Base, TypeOK, Positions, lifeVars, WorkerCollect, Goto
<1>2. ThreadInv'
  BY DEF Base, TypeOK, ThreadInv, ThreadOK, Busy, Inside, WorkerCollect, Goto
<1> QED
  BY <1>1, <1>2 DEF Base

\* The worker begins with a note.
LEMMA WorkerNextBase ==
    ASSUME Base, NEW g \in Generations, NEW n \in Notes, WorkerNext(g, n)
    PROVE  Base'
<1>1. TypeOK'
  BY DEF Base, TypeOK, ThreadInv, ThreadOK, Busy, Threads, Revisions,
     Positions, watchVars, lifeVars, threadVars, WorkerNext, Goto
<1>2. ThreadInv'
  BY DEF Base, TypeOK, ThreadInv, ThreadOK, Busy, Inside, WorkerNext, Goto
<1> QED
  BY <1>1, <1>2 DEF Base

\* start succeeds.
LEMMA StartBase ==
    ASSUME Base, NEW g \in Generations, Start(g)
    PROVE  Base'
<1>1. TypeOK'
  BY DEF Base, TypeOK, Positions, Start, StartAllowed, GiveUp, Causes
<1>2. ThreadInv'
  BY DEF Base, ThreadInv, ThreadOK, Busy, Inside, Start
<1> QED
  BY <1>1, <1>2 DEF Base

\* start fails halfway.
LEMMA StartFailsBase ==
    ASSUME Base, NEW g \in Generations, StartFails(g)
    PROVE  Base'
<1>1. TypeOK'
  BY DEF Base, TypeOK, Positions, StartFails, StartAllowed, GiveUp, Causes
<1>2. ThreadInv'
  BY DEF Base, ThreadInv, ThreadOK, Busy, Inside, StartFails
<1> QED
  BY <1>1, <1>2 DEF Base

\* start finds no vault.
LEMMA StartNoVaultBase ==
    ASSUME Base, StartNoVault
    PROVE  Base'
<1>1. TypeOK'
  BY DEF Base, TypeOK, threadVars, StartNoVault, StartAllowed, GiveUp, Causes
<1>2. ThreadInv'
  BY DEF Base, ThreadInv, ThreadOK, threadVars, StartNoVault
<1> QED
  BY <1>1, <1>2 DEF Base

\* stop signals.
LEMMA StopSignalBase ==
    ASSUME Base, StopSignal
    PROVE  Base'
<1>1. TypeOK'
  BY DEF Base, TypeOK, watchVars, threadVars, StopSignal
<1>2. ThreadInv'
  BY DEF Base, ThreadInv, ThreadOK, threadVars, StopSignal
<1> QED
  BY <1>1, <1>2 DEF Base

\* The observer ends.
LEMMA ObserverExitsBase ==
    ASSUME Base, ObserverExits
    PROVE  Base'
<1>1. TypeOK'
  BY DEF Base, TypeOK, threadVars, ObserverExits, GiveUp, Causes
<1>2. ThreadInv'
  BY DEF Base, ThreadInv, ThreadOK, threadVars, ObserverExits
<1> QED
  BY <1>1, <1>2 DEF Base

\* stop returns.
LEMMA StopReturnsBase ==
    ASSUME Base, StopReturns
    PROVE  Base'
<1>1. TypeOK'
  <2>1. worker' \in Generations \cup {None}
    BY DEF Base, TypeOK, StopReturns, Retained
  <2>2. pending' \subseteq Notes /\ ripe' \subseteq pending'
    BY DEF Base, TypeOK, StopReturns
  <2>3. excused' \in [Notes -> Causes \cup {None}]
    BY DEF Base, TypeOK, StopReturns, GiveUp, Causes
  <2>4. joining' \in BOOLEAN
    BY DEF StopReturns
  <2> QED
    BY <2>1, <2>2, <2>3, <2>4 DEF Base, TypeOK, StopReturns, threadVars
<1>2. ThreadInv'
  BY DEF Base, ThreadInv, ThreadOK, threadVars, StopReturns
<1> QED
  BY <1>1, <1>2 DEF Base

\* Init has the types and the positions.
LEMMA BaseInit == Init => Base
<1> SUFFICES ASSUME Init PROVE Base
  OBVIOUS
<1>1. tokens = {} /\ IsFiniteSet(tokens) /\ Cardinality(tokens) = 0
  BY FS_EmptySet DEF Init
<1>2. note \in [Notes -> [rev : Revisions, there : BOOLEAN, id : BOOLEAN]]
  <2>1. 1 \in Revisions /\ {1} \subseteq Revisions
    BY DEF Revisions
  <2>2. {FALSE} \subseteq BOOLEAN
    BY Zenon
  <2>3. ASSUME NEW n \in Notes
        PROVE  note[n] \in [rev : Revisions, there : BOOLEAN, id : BOOLEAN]
    <3>1. note[n] \in [rev : {1}, there : BOOLEAN, id : {FALSE}]
      BY DEF Init
    <3> QED
      BY <2>1, <2>2, <3>1, Zenon
  <2>4. note = [n \in Notes |-> note[n]]
    BY DEF Init
  <2> QED
    BY <2>3, <2>4
<1>3. index \in [Notes -> Revisions]
  BY <1>2 DEF Init, Row, Revisions
<1>4. events \in Seq(Notes)
  BY DEF Init
<1>5. TypeOK
  <2>1. pc \in [Threads -> Positions]
    BY DEF Init, Positions
  <2>2. /\ arg \in [Threads -> Notes \cup {None}]
        /\ read \in [Threads -> Revisions]
        /\ ready \in [Threads -> SUBSET Notes]
    BY DEF Init, Revisions
  <2>3. /\ attempts \in [Notes -> 0..MaxAttempts]
        /\ excused \in [Notes -> Causes \cup {None}]
    BY DEF Init
  <2>4. /\ pending \subseteq Notes /\ ripe \subseteq pending
        /\ observer \in {"off", "on", "stopping"}
        /\ worker \in Generations \cup {None}
        /\ lock \in Threads \cup {None}
        /\ handling \in [note : Notes, rev : Revisions] \cup {None}
    BY DEF Init
  <2>5. stopSet \in BOOLEAN /\ joining \in BOOLEAN
    BY DEF Init
  <2>6. 0 =< MaxTokens
    OBVIOUS
  <2> QED
    BY <1>1, <1>2, <1>3, <1>4, <2>1, <2>2, <2>3, <2>4, <2>5, <2>6 DEF TypeOK
<1>6. ThreadInv
  BY DEF Init, ThreadInv, ThreadOK, Busy, Inside
<1> QED
  BY <1>5, <1>6 DEF Base

\* Every step keeps the types and the positions.
LEMMA BaseStep == Base /\ [Next]_vars => Base'
<1> SUFFICES ASSUME Base, [Next]_vars PROVE Base'
  OBVIOUS
<1>1. CASE UNCHANGED vars
  BY <1>1 DEF Base, TypeOK, ThreadInv, ThreadOK, vars, watchVars, lifeVars,
     threadVars
<1>2. CASE Next
  <2>1. ASSUME NEW n \in Notes, Save(n)
        PROVE  Base'
    BY <2>1, SaveBase
  <2>2. ASSUME NEW n \in Notes, Remove(n)
        PROVE  Base'
    BY <2>2, RemoveBase
  <2>3. ASSUME NEW n \in Notes, Enrich(n)
        PROVE  Base'
    BY <2>3, EnrichBase
  <2>4. ASSUME NEW n \in Notes, NEW there \in BOOLEAN, ToolChanges(n, there)
        PROVE  Base'
    BY <2>4, ToolChangesBase
  <2>5. ASSUME NEW n \in Notes, TokenExpires(n)
        PROVE  Base'
    BY <2>5, TokenExpiresBase
  <2>6. ASSUME NEW n \in Notes, Ripen(n)
        PROVE  Base'
    BY <2>6, RipenBase
  <2>7. ASSUME NEW n \in Notes, WindowExpires(n)
        PROVE  Base'
    BY <2>7, WindowExpiresBase
  <2>8. CASE HandlerStat
    BY <2>8, HandlerStatBase
  <2>9. CASE HandlerDecide
    BY <2>9, HandlerDecideBase
  <2>10. ASSUME NEW t \in Threads, Breaker(t)
        PROVE  Base'
    BY <2>10, BreakerBase
  <2>11. ASSUME NEW t \in Threads, BreakerOpen(t)
        PROVE  Base'
    BY <2>11, BreakerOpenBase
  <2>12. ASSUME NEW t \in Threads, WriteLock(t)
        PROVE  Base'
    BY <2>12, WriteLockBase
  <2>13. ASSUME NEW t \in Threads, AddId(t)
        PROVE  Base'
    BY <2>13, AddIdBase
  <2>14. ASSUME NEW t \in Threads, NoIdAdded(t)
        PROVE  Base'
    BY <2>14, NoIdAddedBase
  <2>15. ASSUME NEW t \in Threads, TokenStat(t)
        PROVE  Base'
    BY <2>15, TokenStatBase
  <2>16. ASSUME NEW t \in Threads, TokenPut(t)
        PROVE  Base'
    BY <2>16, TokenPutBase
  <2>17. ASSUME NEW t \in Threads, Parse(t)
        PROVE  Base'
    BY <2>17, ParseBase
  <2>18. ASSUME NEW t \in Threads, Commit(t)
        PROVE  Base'
    BY <2>18, CommitBase
  <2>19. ASSUME NEW t \in Threads, ReindexFails(t)
        PROVE  Base'
    BY <2>19, ReindexFailsBase
  <2>20. ASSUME NEW g \in Generations, WorkerLoop(g)
        PROVE  Base'
    BY <2>20, WorkerLoopBase
  <2>21. ASSUME NEW g \in Generations, WorkerCollect(g)
        PROVE  Base'
    BY <2>21, WorkerCollectBase
  <2>22. ASSUME NEW g \in Generations, NEW n \in Notes, WorkerNext(g, n)
        PROVE  Base'
    BY <2>22, WorkerNextBase
  <2>23. ASSUME NEW g \in Generations, Start(g)
        PROVE  Base'
    BY <2>23, StartBase
  <2>24. ASSUME NEW g \in Generations, StartFails(g)
        PROVE  Base'
    BY <2>24, StartFailsBase
  <2>25. CASE StartNoVault
    BY <2>25, StartNoVaultBase
  <2>26. CASE StopSignal
    BY <2>26, StopSignalBase
  <2>27. CASE ObserverExits
    BY <2>27, ObserverExitsBase
  <2>28. CASE StopReturns
    BY <2>28, StopReturnsBase
  <2> QED
    BY <1>2, <2>1, <2>2, <2>3, <2>4, <2>5, <2>6, <2>7, <2>8, <2>9, <2>10,
       <2>11, <2>12, <2>13, <2>14, <2>15, <2>16, <2>17, <2>18, <2>19,
       <2>20, <2>21, <2>22, <2>23, <2>24, <2>25, <2>26, <2>27, <2>28 DEF
       Next, Reindex, Worker
<1> QED
  BY <1>1, <1>2

\* The types of VaultWatch: among them that there never are more tokens than
\* MAX_IGNORE_TOKENS, more attempts than the breaker allows, or a note that is
\* ripe and not pending.
THEOREM TypeCorrect == Spec => []TypeOK
<1>1. Base => TypeOK
  BY DEF Base
<1> QED
  BY <1>1, BaseInit, BaseStep, PTL DEF Spec

(***************************************************************************)
(* No change is lost.                                                      *)
(***************************************************************************)

\* Someone is going to read the note, or it was given up.
Later(n) ==
    \/ n \in pending
    \/ excused[n] # None
    \/ \E t \in Threads : n \in ready[t] \/ (arg[t] = n /\ pc[t] # "commit")

Committing(t, n) == arg[t] = n /\ pc[t] = "commit"
Fresh(n) == \E t \in Threads : Committing(t, n) /\ read[t] = Row(n)
Stale(n) == \E t \in Threads : Committing(t, n) /\ read[t] # Row(n)

\* What ChangesCovered says without the events: the note is safe even if every
\* event about it is ignored.
Sure(n) == Later(n) \/ Fresh(n) \/ (index[n] = Row(n) /\ ~Stale(n))
SureKept(n) == Sure(n) => Sure(n)'

\* A token for the revision a note has can only make events be ignored that
\* are not needed.
TokensSure ==
    \A k \in tokens :
        /\ k.rev =< note[k.note].rev
        /\ k.rev # 0 /\ k.rev = Row(k.note) => Sure(k.note)

\* An event in _enqueue has seen the note as it is, or is not needed.
HandlingSeen ==
    handling # None =>
        \/ handling.rev = Row(handling.note)
        \/ handling.note \in Queued
        \/ Sure(handling.note)

AllCovered ==
    \A n \in Notes : \/ Sure(n)
                     \/ n \in Queued
                     \/ handling # None /\ handling.note = n

CoverInv == TokensSure /\ HandlingSeen /\ AllCovered

(***************************************************************************)
(* What is sure stays sure: for every note if no note changes, for the     *)
(* others if one does.                                                     *)
(***************************************************************************)

\* An editor changes a note.
LEMMA SaveSure ==
    ASSUME Base, NEW n \in Notes, Save(n), NEW m \in Notes, m # n
    PROVE  SureKept(m)
  BY DEF SureKept, Sure, Later, Fresh, Stale, Committing, Row, threadVars,
     Save, Write

\* An editor removes a note.
LEMMA RemoveSure ==
    ASSUME Base, NEW n \in Notes, Remove(n), NEW m \in Notes, m # n
    PROVE  SureKept(m)
  BY DEF SureKept, Sure, Later, Fresh, Stale, Committing, Row, threadVars,
     Remove, Write

\* An enrichment job writes a note.
LEMMA EnrichSure ==
    ASSUME Base, NEW n \in Notes, Enrich(n), NEW m \in Notes, m # n
    PROVE  SureKept(m)
<1>1. /\ Row(m)' = Row(m)
      /\ excused'[m] = excused[m]
      /\ UNCHANGED <<pending, index, ready, read>>
  BY DEF Enrich, Write, Row, Base, TypeOK
<1>2. arg[Tool] # m /\ arg'[Tool] # m
  BY DEF Enrich, Base, TypeOK, ThreadInv, ThreadOK, Busy, Threads
<1>3. \A t \in Threads \ {Tool} : pc'[t] = pc[t] /\ arg'[t] = arg[t]
  BY DEF Enrich, Base, TypeOK
<1> QED
  BY <1>1, <1>2, <1>3 DEF SureKept, Sure, Later, Fresh, Stale, Committing

\* A tool changes a note.
LEMMA ToolChangesSure ==
    ASSUME Base, NEW n \in Notes, NEW there \in BOOLEAN, ToolChanges(n,
           there), NEW m \in Notes, m # n
    PROVE  SureKept(m)
<1>1. /\ Row(m)' = Row(m)
      /\ excused'[m] = excused[m]
      /\ UNCHANGED <<pending, index, ready, read>>
  BY DEF ToolChanges, Write, Row, Base, TypeOK
<1>2. arg[Tool] # m /\ arg'[Tool] # m
  BY DEF ToolChanges, Base, TypeOK, ThreadInv, ThreadOK, Busy, Threads
<1>3. \A t \in Threads \ {Tool} : pc'[t] = pc[t] /\ arg'[t] = arg[t]
  BY DEF ToolChanges, Base, TypeOK
<1> QED
  BY <1>1, <1>2, <1>3 DEF SureKept, Sure, Later, Fresh, Stale, Committing

\* A token expires.
LEMMA TokenExpiresSure ==
    ASSUME Base, NEW n \in Notes, TokenExpires(n), NEW m \in Notes
    PROVE  SureKept(m)
  BY DEF SureKept, Sure, Later, Fresh, Stale, Committing, Row, watchVars,
     threadVars, TokenExpires

\* A debounce window elapses.
LEMMA RipenSure ==
    ASSUME Base, NEW n \in Notes, Ripen(n), NEW m \in Notes
    PROVE  SureKept(m)
  BY DEF SureKept, Sure, Later, Fresh, Stale, Committing, Row, threadVars,
     Ripen

\* A breaker window elapses.
LEMMA WindowExpiresSure ==
    ASSUME Base, NEW n \in Notes, WindowExpires(n), NEW m \in Notes
    PROVE  SureKept(m)
  BY DEF SureKept, Sure, Later, Fresh, Stale, Committing, Row, watchVars,
     threadVars, WindowExpires

\* The observer ignores the event or makes its path pending.
LEMMA HandlerDecideSure ==
    ASSUME Base, HandlerDecide, NEW m \in Notes
    PROVE  SureKept(m)
  BY DEF SureKept, Sure, Later, Fresh, Stale, Committing, Row, threadVars,
     HandlerDecide

\* An attempt is counted.
LEMMA BreakerSure ==
    ASSUME Base, NEW t \in Threads, Breaker(t), NEW m \in Notes
    PROVE  SureKept(m)
  BY DEF SureKept, Sure, Later, Fresh, Stale, Committing, Row, watchVars,
     Breaker

\* A step of one thread on another note.
LEMMA OtherNote ==
    ASSUME NEW t \in Threads, NEW m \in Notes, arg[t] # m, arg'[t] # m,
           \A u \in Threads \ {t} : /\ pc'[u] = pc[u] /\ arg'[u] = arg[u]
                                    /\ read'[u] = read[u],
           UNCHANGED <<pending, ready>>, Row(m)' = Row(m),
           excused[m] # None => excused'[m] # None, index'[m] = index[m]
    PROVE  SureKept(m)
<1>1. ASSUME Later(m) PROVE Later(m)'
  BY <1>1 DEF Later
<1>2. ASSUME Fresh(m) PROVE Fresh(m)'
  BY <1>2 DEF Fresh, Committing
<1>3. Stale(m)' => Stale(m)
  BY DEF Stale, Committing
<1> QED
  BY <1>1, <1>2, <1>3 DEF SureKept, Sure

\* An attempt is refused.
LEMMA BreakerOpenSure ==
    ASSUME Base, NEW t \in Threads, BreakerOpen(t), NEW m \in Notes
    PROVE  SureKept(m)
<1>1. arg[t] \in Notes
  BY DEF BreakerOpen, Return, Base, ThreadInv, ThreadOK, Busy
<1>2. /\ \A u \in Threads \ {t} : /\ pc'[u] = pc[u] /\ arg'[u] = arg[u]
                                  /\ read'[u] = read[u]
      /\ UNCHANGED <<note, pending, ready>>
      /\ \A k \in Notes : Row(k)' = Row(k)
  BY DEF BreakerOpen, Return, Base, TypeOK, watchVars, Row
<1>3. /\ excused'[arg[t]] # None
      /\ \A k \in Notes : k # arg[t] => excused'[k] = excused[k]
      /\ UNCHANGED index
      /\ arg'[t] = None
  BY <1>1 DEF BreakerOpen, Return, GiveUp, Causes, Base, TypeOK
<1>4. CASE m = arg[t]
  BY <1>3, <1>4 DEF SureKept, Sure, Later
<1>5. CASE m # arg[t]
  BY <1>2, <1>3, <1>5, OtherNote
<1> QED
  BY <1>4, <1>5

\* _write_lock is taken.
LEMMA WriteLockSure ==
    ASSUME Base, NEW t \in Threads, WriteLock(t), NEW m \in Notes
    PROVE  SureKept(m)
<1>1. arg[t] \in Notes
  BY DEF WriteLock, Goto, Base, ThreadInv, ThreadOK, Busy
<1>2. /\ \A u \in Threads \ {t} : /\ pc'[u] = pc[u] /\ arg'[u] = arg[u]
                                  /\ read'[u] = read[u]
      /\ UNCHANGED <<note, pending, ready>>
      /\ \A k \in Notes : Row(k)' = Row(k)
  BY DEF WriteLock, Goto, Base, TypeOK, watchVars, Row
<1>3. /\ pc'[t] = IF note[arg[t]].there THEN "id" ELSE "commit"
      /\ read'[t] = 0
      /\ UNCHANGED <<arg, index, excused>>
  BY DEF WriteLock, Goto, Base, TypeOK, ThreadInv, ThreadOK
<1>4. CASE m = arg[t]
  <2>1. CASE note[m].there
    BY <1>3, <1>4, <2>1 DEF SureKept, Sure, Later
  <2>2. CASE ~note[m].there
    <3>1. Row(m)' = 0
      BY <1>2, <2>2 DEF Row
    <3> QED
      BY <1>3, <1>4, <2>2, <3>1 DEF SureKept, Sure, Fresh, Committing
  <2> QED
    BY <2>1, <2>2
<1>5. CASE m # arg[t]
  BY <1>2, <1>3, <1>5, OtherNote
<1> QED
  BY <1>4, <1>5

\* ensure_note_id writes.
LEMMA AddIdSure ==
    ASSUME Base, NEW t \in Threads, AddId(t), NEW m \in Notes, m # arg[t]
    PROVE  SureKept(m)
  BY DEF SureKept, Sure, Later, Fresh, Stale, Committing, Row, AddId, Goto,
     Write

\* ensure_note_id does not write.
LEMMA NoIdAddedSure ==
    ASSUME Base, NEW t \in Threads, NoIdAdded(t), NEW m \in Notes
    PROVE  SureKept(m)
  BY DEF SureKept, Sure, Later, Fresh, Stale, Committing, Row, watchVars,
     NoIdAdded, Goto

\* ignore_next_change looks at the file.
LEMMA TokenStatSure ==
    ASSUME Base, NEW t \in Threads, TokenStat(t), NEW m \in Notes
    PROVE  SureKept(m)
  BY DEF SureKept, Sure, Later, Fresh, Stale, Committing, Row, Base, TypeOK,
     ThreadInv, Inside, watchVars, TokenStat, Goto

\* ignore_next_change records the revision.
LEMMA TokenPutSure ==
    ASSUME Base, NEW t \in Threads, TokenPut(t), NEW m \in Notes
    PROVE  SureKept(m)
  BY DEF SureKept, Sure, Later, Fresh, Stale, Committing, Row, Base, TypeOK,
     watchVars, TokenPut, Goto

\* The note is parsed.
LEMMA ParseSure ==
    ASSUME Base, NEW t \in Threads, Parse(t), NEW m \in Notes
    PROVE  SureKept(m)
<1>1. arg[t] \in Notes
  BY DEF Parse, Goto, Base, ThreadInv, ThreadOK, Busy
<1>2. /\ \A u \in Threads \ {t} : /\ pc'[u] = pc[u] /\ arg'[u] = arg[u]
                                  /\ read'[u] = read[u]
      /\ UNCHANGED <<note, pending, ready>>
      /\ \A k \in Notes : Row(k)' = Row(k)
  BY DEF Parse, Goto, Base, TypeOK, watchVars, Row
<1>3. /\ pc'[t] = "commit" /\ read'[t] = Row(arg[t])
      /\ UNCHANGED <<arg, index, excused>>
  BY DEF Parse, Goto, Base, TypeOK
<1>4. CASE m = arg[t]
  BY <1>2, <1>3, <1>4 DEF SureKept, Sure, Fresh, Committing
<1>5. CASE m # arg[t]
  BY <1>2, <1>3, <1>5, OtherNote
<1> QED
  BY <1>4, <1>5

\* The rows are committed.
LEMMA CommitSure ==
    ASSUME Base, NEW t \in Threads, Commit(t), NEW m \in Notes
    PROVE  SureKept(m)
<1>1. arg[t] \in Notes
  BY DEF Commit, Return, Base, ThreadInv, ThreadOK, Busy
<1>2. /\ \A u \in Threads \ {t} : /\ pc'[u] = pc[u] /\ arg'[u] = arg[u]
                                  /\ read'[u] = read[u]
      /\ UNCHANGED <<note, pending, ready>>
      /\ \A k \in Notes : Row(k)' = Row(k)
  BY DEF Commit, Return, Base, TypeOK, watchVars, Row
<1>3. /\ pc[t] = "commit" /\ arg'[t] = None
      /\ index' = [index EXCEPT ![arg[t]] = read[t]]
      /\ index \in [Notes -> Revisions]
      /\ UNCHANGED excused
  BY DEF Commit, Return, Base, TypeOK
<1>4. \A u \in Threads \ {t} : pc[u] # "commit"
  BY <1>3 DEF Base, ThreadInv, ThreadOK, Inside
<1>5. CASE m = arg[t] /\ read[t] = Row(m)
  <2>1. index'[m] = Row(m)'
    BY <1>2, <1>3, <1>5
  <2>2. ~Stale(m)'
    BY <1>2, <1>3, <1>4 DEF Stale, Committing
  <2> QED
    BY <2>1, <2>2 DEF SureKept, Sure
<1>6. CASE m = arg[t] /\ read[t] # Row(m)
  <2>1. Stale(m) /\ ~Fresh(m)
    BY <1>3, <1>4, <1>6 DEF Stale, Fresh, Committing
  <2>2. ASSUME Later(m) PROVE Later(m)'
    BY <1>2, <1>3, <2>2 DEF Later
  <2> QED
    BY <2>1, <2>2 DEF SureKept, Sure
<1>7. CASE m # arg[t]
  BY <1>2, <1>3, <1>7, OtherNote
<1> QED
  BY <1>5, <1>6, <1>7

\* A reindex fails.
LEMMA ReindexFailsSure ==
    ASSUME Base, NEW t \in Threads, ReindexFails(t), NEW m \in Notes
    PROVE  SureKept(m)
  BY DEF SureKept, Sure, Later, Fresh, Stale, Committing, Row, watchVars,
     ReindexFails, Return, GiveUp, Causes

\* The worker evaluates its condition.
LEMMA WorkerLoopSure ==
    ASSUME Base, NEW g \in Generations, WorkerLoop(g), NEW m \in Notes
    PROVE  SureKept(m)
  BY DEF SureKept, Sure, Later, Fresh, Stale, Committing, Row, watchVars,
     WorkerLoop, Goto

\* The worker takes what is ripe.
LEMMA WorkerCollectSure ==
    ASSUME Base, NEW g \in Generations, WorkerCollect(g), NEW m \in Notes
    PROVE  SureKept(m)
  BY DEF SureKept, Sure, Later, Fresh, Stale, Committing, Row, Base, TypeOK,
     ThreadInv, ThreadOK, Threads, WorkerCollect, Goto

\* The worker begins with a note.
LEMMA WorkerNextSure ==
    ASSUME Base, NEW g \in Generations, NEW n \in Notes, WorkerNext(g, n),
           NEW m \in Notes
    PROVE  SureKept(m)
<1>1. /\ g \in Threads
      /\ arg[g] # m
      /\ pc'[g] = "breaker" /\ arg'[g] = n
      /\ ready'[g] = ready[g] \ {n}
  BY DEF WorkerNext, Goto, Base, TypeOK, ThreadInv, ThreadOK, Busy, Threads
<1>2. \A t \in Threads \ {g} :
          /\ pc'[t] = pc[t] /\ arg'[t] = arg[t]
          /\ ready'[t] = ready[t] /\ read'[t] = read[t]
  BY DEF WorkerNext, Goto, Base, TypeOK
<1>3. /\ UNCHANGED <<pending, excused, index>>
      /\ Row(m)' = Row(m)
  BY DEF WorkerNext, watchVars, Row
<1>4. ASSUME Later(m) PROVE Later(m)'
  BY <1>1, <1>2, <1>3, <1>4 DEF Later
<1>5. ASSUME Fresh(m) PROVE Fresh(m)'
  BY <1>1, <1>2, <1>3, <1>5 DEF Fresh, Committing
<1>6. Stale(m)' => Stale(m)
  BY <1>1, <1>2, <1>3 DEF Stale, Committing
<1> QED
  BY <1>3, <1>4, <1>5, <1>6 DEF SureKept, Sure

\* start succeeds.
LEMMA StartSure ==
    ASSUME Base, NEW g \in Generations, Start(g), NEW m \in Notes
    PROVE  SureKept(m)
  BY DEF SureKept, Sure, Later, Fresh, Stale, Committing, Row, Start,
     StartAllowed, GiveUp, Causes

\* start fails halfway.
LEMMA StartFailsSure ==
    ASSUME Base, NEW g \in Generations, StartFails(g), NEW m \in Notes
    PROVE  SureKept(m)
  BY DEF SureKept, Sure, Later, Fresh, Stale, Committing, Row, StartFails,
     StartAllowed, GiveUp, Causes

\* start finds no vault.
LEMMA StartNoVaultSure ==
    ASSUME Base, StartNoVault, NEW m \in Notes
    PROVE  SureKept(m)
  BY DEF SureKept, Sure, Later, Fresh, Stale, Committing, Row, threadVars,
     StartNoVault, StartAllowed, GiveUp, Causes

\* stop signals.
LEMMA StopSignalSure ==
    ASSUME Base, StopSignal, NEW m \in Notes
    PROVE  SureKept(m)
  BY DEF SureKept, Sure, Later, Fresh, Stale, Committing, Row, watchVars,
     threadVars, StopSignal

\* The observer ends.
LEMMA ObserverExitsSure ==
    ASSUME Base, ObserverExits, NEW m \in Notes
    PROVE  SureKept(m)
  BY DEF SureKept, Sure, Later, Fresh, Stale, Committing, Row, threadVars,
     ObserverExits, GiveUp, Causes

\* stop returns.
LEMMA StopReturnsSure ==
    ASSUME Base, StopReturns, NEW m \in Notes
    PROVE  SureKept(m)
  BY DEF SureKept, Sure, Later, Fresh, Stale, Committing, Row, threadVars,
     StopReturns, GiveUp, Causes

\* A step that is not about notes or events, and sets no token.
LEMMA CoverFrame ==
    ASSUME Base, CoverInv, UNCHANGED <<note, events, handling>>,
           tokens' \subseteq tokens, \A m \in Notes : SureKept(m)
    PROVE  CoverInv'
<1>1. Queued' = Queued /\ \A m \in Notes : Row(m)' = Row(m)
  BY DEF Queued, Row
<1>2. TokensSure'
  <2> SUFFICES ASSUME NEW k \in tokens'
               PROVE  /\ k.rev =< note'[k.note].rev
                      /\ k.rev # 0 /\ k.rev = Row(k.note)' => Sure(k.note)'
    BY DEF TokensSure
  <2>1. k \in tokens /\ k.note \in Notes
    BY DEF Base, TypeOK
  <2> QED
    BY <1>1, <2>1 DEF CoverInv, TokensSure, SureKept
<1>3. HandlingSeen'
  <2>1. handling # None => handling.note \in Notes
    BY DEF Base, TypeOK
  <2> QED
    BY <1>1, <2>1 DEF CoverInv, HandlingSeen, SureKept
<1>4. AllCovered'
  BY <1>1 DEF CoverInv, AllCovered, SureKept
<1> QED
  BY <1>2, <1>3, <1>4 DEF CoverInv

\* A change of a note: an event is queued, or nobody watches.  No token is for
\* the new revision.
LEMMA CoverWrite ==
    ASSUME Base, CoverInv, NEW n \in Notes, NEW there \in BOOLEAN,
           NEW id \in BOOLEAN, Write(n, there, id), tokens' = tokens,
           \A m \in Notes : m # n => SureKept(m)
    PROVE  CoverInv'
<1>1. /\ note'[n].rev = note[n].rev + 1
      /\ note[n].rev \in Nat
      /\ \A m \in Notes : m # n => note'[m] = note[m]
  BY DEF Write, Base, TypeOK, Revisions
<1>2. /\ Row(n)' \in {0, note[n].rev + 1}
      /\ \A m \in Notes : m # n => Row(m)' = Row(m)
  BY <1>1 DEF Row
<1>3. Queued \subseteq Queued' /\ (observer = "on" => n \in Queued')
  <2>1. CASE observer = "on"
    <3>1. events' = Append(events, n) /\ events \in Seq(Notes)
      BY <2>1 DEF Write, Base, TypeOK
    <3>2. /\ DOMAIN events' = DOMAIN events \cup {Len(events) + 1}
          /\ \A i \in DOMAIN events : events'[i] = events[i]
          /\ events'[Len(events) + 1] = n
      BY <3>1
    <3> QED
      BY <3>2 DEF Queued
  <2>2. CASE observer # "on"
    BY <2>2 DEF Write, Queued
  <2> QED
    BY <2>1, <2>2
<1>4. n \in Queued' \/ Sure(n)'
  <2>1. ASSUME observer # "on" PROVE excused'[n] # None
    BY <2>1 DEF Write, Base, TypeOK, Causes
  <2> QED
    BY <1>3, <2>1 DEF Sure, Later
<1>5. TokensSure'
  <2> SUFFICES ASSUME NEW k \in tokens
               PROVE  /\ k.rev =< note'[k.note].rev
                      /\ k.rev # 0 /\ k.rev = Row(k.note)' => Sure(k.note)'
    BY DEF TokensSure
  <2>1. k.note \in Notes /\ k.rev \in Nat /\ k.rev =< note[k.note].rev
    BY DEF Base, TypeOK, Revisions, CoverInv, TokensSure
  <2>2. CASE k.note = n
    <3>1. k.rev =< note[n].rev
      BY <2>1, <2>2
    <3>2. k.rev =< note[n].rev + 1 /\ k.rev # note[n].rev + 1
      BY <1>1, <2>1, <3>1
    <3> QED
      BY <1>1, <1>2, <2>2, <3>2
  <2>3. CASE k.note # n
    <3>1. note'[k.note] = note[k.note] /\ Row(k.note)' = Row(k.note)
      BY <1>1, <1>2, <2>1, <2>3
    <3> QED
      BY <2>1, <2>3, <3>1 DEF CoverInv, TokensSure, SureKept
  <2> QED
    BY <2>2, <2>3
<1>6. HandlingSeen'
  <2>1. handling' = handling /\ (handling # None => handling.note \in Notes)
    BY DEF Write, Base, TypeOK
  <2> QED
    BY <1>2, <1>3, <1>4, <2>1 DEF CoverInv, HandlingSeen, SureKept
<1>7. AllCovered'
  <2>1. handling' = handling
    BY DEF Write
  <2> QED
    BY <1>3, <1>4, <2>1 DEF CoverInv, AllCovered, SureKept
<1> QED
  BY <1>5, <1>6, <1>7 DEF CoverInv

\* The event that is taken off the queue has seen the note as it is.
LEMMA HandlerStatCover ==
    ASSUME Base, CoverInv, HandlerStat
    PROVE  CoverInv'
<1>1. UNCHANGED <<note, tokens, pending, ready, arg, pc, read, index, excused>>
  BY DEF HandlerStat, threadVars
<1>2. \A m \in Notes : (Sure(m) <=> Sure(m)') /\ Row(m)' = Row(m)
  BY <1>1 DEF Sure, Later, Fresh, Stale, Committing, Row
<1>3. /\ handling' = [note |-> Head(events), rev |-> Row(Head(events))]
      /\ Head(events) \in Notes
      /\ handling = None
  BY DEF HandlerStat, Base, TypeOK
<1>4. Queued \subseteq Queued' \cup {Head(events)}
  <2>1. events \in Seq(Notes) /\ events # <<>> /\ events' = Tail(events)
    BY DEF HandlerStat, Base, TypeOK
  <2>2. ASSUME NEW i \in DOMAIN events, i # 1
        PROVE  i - 1 \in DOMAIN events' /\ events'[i - 1] = events[i]
    BY <2>1, <2>2
  <2>3. events[1] = Head(events)
    BY <2>1
  <2> QED
    BY <2>2, <2>3 DEF Queued
<1>5. TokensSure'
  BY <1>1, <1>2 DEF CoverInv, TokensSure, Base, TypeOK
<1>6. handling' # None /\ handling'.note = Head(events)
      /\ handling'.rev = Row(Head(events))
  <2>1. handling' \in [note : Notes, rev : Revisions]
    <3>1. Row(Head(events)) \in Revisions
      BY <1>3 DEF Base, TypeOK, Row, Revisions
    <3> QED
      BY <1>3, <3>1
  <2>2. handling' # None
    BY <2>1 DEF Revisions
  <2> QED
    BY <1>3, <2>2
<1>7. HandlingSeen'
  BY <1>2, <1>3, <1>6 DEF HandlingSeen
<1>8. AllCovered'
  BY <1>2, <1>3, <1>4, <1>6 DEF CoverInv, AllCovered
<1> QED
  BY <1>5, <1>7, <1>8 DEF CoverInv

\* An event is ignored only if its token is for the revision it has seen; then
\* the note is safe, or has changed since and another event is queued.
LEMMA HandlerDecideCover ==
    ASSUME Base, CoverInv, HandlerDecide
    PROVE  CoverInv'
<1>0. PICK n \in Notes : n = handling.note
  BY DEF HandlerDecide, Base, TypeOK
<1>1. /\ UNCHANGED <<note, events>>
      /\ tokens' \subseteq tokens
      /\ handling # None /\ handling' = None
      /\ handling.note \in Notes
  BY DEF HandlerDecide, WithoutToken, Base, TypeOK
<1>2. \A m \in Notes : SureKept(m)
  BY HandlerDecideSure
<1>3. Queued' = Queued /\ \A m \in Notes : Row(m)' = Row(m)
  BY <1>1 DEF Queued, Row
<1>4. TokensSure'
  <2> SUFFICES ASSUME NEW k \in tokens'
               PROVE  /\ k.rev =< note'[k.note].rev
                      /\ k.rev # 0 /\ k.rev = Row(k.note)' => Sure(k.note)'
    BY DEF TokensSure
  <2>1. k \in tokens /\ k.note \in Notes
    BY <1>1 DEF Base, TypeOK
  <2> QED
    BY <1>1, <1>2, <1>3, <2>1 DEF CoverInv, TokensSure, SureKept
<1>5. Sure(n)' \/ n \in Queued'
  <2>1. CASE Matches(handling)
    <3>1. handling \in tokens /\ handling.rev # 0
      BY <2>1 DEF Matches
    <3>2. Sure(n) \/ n \in Queued
      BY <1>0, <1>1, <3>1 DEF CoverInv, HandlingSeen, TokensSure
    <3> QED
      BY <1>1, <1>2, <1>3, <3>2 DEF SureKept
  <2>2. CASE ~Matches(handling)
    <3>1. n \in pending'
      BY <1>0, <2>2 DEF HandlerDecide
    <3> QED
      BY <3>1 DEF Sure, Later
  <2> QED
    BY <2>1, <2>2
<1>6. HandlingSeen'
  BY <1>1 DEF HandlingSeen
<1>7. AllCovered'
  BY <1>0, <1>1, <1>2, <1>3, <1>5 DEF CoverInv, AllCovered, SureKept
<1> QED
  BY <1>4, <1>6, <1>7 DEF CoverInv

\* The thread that records a token is going to read the note.
LEMMA TokenPutCover ==
    ASSUME Base, CoverInv, NEW t \in Threads, TokenPut(t)
    PROVE  CoverInv'
<1> DEFINE new == [note |-> arg[t], rev |-> read[t]]
<1>1. /\ UNCHANGED <<note, events, handling, arg>>
      /\ tokens' \subseteq tokens \cup {new}
  BY DEF TokenPut, WithoutToken, watchVars
<1>2. \A m \in Notes : SureKept(m)
  BY TokenPutSure
<1>3. Queued' = Queued /\ \A m \in Notes : Row(m)' = Row(m)
  BY <1>1 DEF Queued, Row
<1>4. /\ arg[t] \in Notes
      /\ read[t] =< note[arg[t]].rev
      /\ pc'[t] # "commit"
  BY DEF TokenPut, Goto, Base, TypeOK, ThreadInv, ThreadOK, Busy
<1>5. Sure(arg[t])'
  BY <1>1, <1>4 DEF Sure, Later
<1>6. TokensSure'
  <2> SUFFICES ASSUME NEW k \in tokens'
               PROVE  /\ k.rev =< note'[k.note].rev
                      /\ k.rev # 0 /\ k.rev = Row(k.note)' => Sure(k.note)'
    BY DEF TokensSure
  <2>1. CASE k = new
    BY <1>1, <1>4, <1>5, <2>1
  <2>2. CASE k \in tokens
    <3>1. k.note \in Notes
      BY <2>2 DEF Base, TypeOK
    <3> QED
      BY <1>1, <1>2, <1>3, <2>2, <3>1 DEF CoverInv, TokensSure, SureKept
  <2> QED
    BY <1>1, <2>1, <2>2
<1>7. HandlingSeen'
  <2>1. handling # None => handling.note \in Notes
    BY DEF Base, TypeOK
  <2> QED
    BY <1>1, <1>2, <1>3, <2>1 DEF CoverInv, HandlingSeen, SureKept
<1>8. AllCovered'
  BY <1>1, <1>2, <1>3 DEF CoverInv, AllCovered, SureKept
<1> QED
  BY <1>6, <1>7, <1>8 DEF CoverInv

\* The events an observer leaves behind are given up.
LEMMA ObserverExitsCover ==
    ASSUME Base, CoverInv, ObserverExits
    PROVE  CoverInv'
<1>1. /\ UNCHANGED <<note, tokens, handling>>
      /\ handling = None
      /\ \A m \in Queued : m \in Notes => excused'[m] # None
  BY DEF ObserverExits, GiveUp, Causes
<1>2. \A m \in Notes : SureKept(m)
  BY ObserverExitsSure
<1>3. \A m \in Notes : Row(m)' = Row(m)
  BY <1>1 DEF Row
<1>4. TokensSure'
  <2> SUFFICES ASSUME NEW k \in tokens
               PROVE  /\ k.rev =< note'[k.note].rev
                      /\ k.rev # 0 /\ k.rev = Row(k.note)' => Sure(k.note)'
    BY <1>1 DEF TokensSure
  <2>1. k.note \in Notes
    BY DEF Base, TypeOK
  <2> QED
    BY <1>1, <1>2, <1>3, <2>1 DEF CoverInv, TokensSure, SureKept
<1>5. HandlingSeen'
  BY <1>1 DEF HandlingSeen
<1>6. \A m \in Notes : Sure(m)'
  <2> SUFFICES ASSUME NEW m \in Notes PROVE Sure(m)'
    OBVIOUS
  <2>1. CASE m \in Queued
    BY <1>1, <2>1 DEF Sure, Later
  <2>2. CASE Sure(m)
    BY <1>2, <2>2 DEF SureKept
  <2> QED
    BY <1>1, <2>1, <2>2 DEF CoverInv, AllCovered
<1>7. AllCovered'
  BY <1>6 DEF AllCovered
<1> QED
  BY <1>4, <1>5, <1>7 DEF CoverInv

\* Init: nothing happened yet, and the index has every note.
LEMMA CoverInit == Init => CoverInv
<1> SUFFICES ASSUME Init PROVE CoverInv
  OBVIOUS
<1>1. \A t \in Threads : pc[t] # "commit"
  BY DEF Init
<1>2. \A n \in Notes : index[n] = Row(n)
  BY DEF Init
<1>3. AllCovered
  BY <1>1, <1>2 DEF AllCovered, Sure, Stale, Committing
<1>4. TokensSure /\ HandlingSeen
  BY DEF Init, TokensSure, HandlingSeen
<1> QED
  BY <1>3, <1>4 DEF CoverInv

\* Every step keeps every note covered.
LEMMA CoverStep == Base /\ CoverInv /\ [Next]_vars => CoverInv'
<1> SUFFICES ASSUME Base, CoverInv, [Next]_vars PROVE CoverInv'
  OBVIOUS
<1>1. CASE UNCHANGED vars
  <2>1. /\ UNCHANGED <<note, events, handling, tokens, pending, ready, arg, pc,
                     read, index, excused>>
        /\ \A m \in Notes : SureKept(m)
    BY <1>1 DEF vars, watchVars, threadVars, SureKept, Sure, Later, Fresh,
       Stale, Committing, Row
  <2> QED
    BY <2>1, CoverFrame
<1>2. CASE Next
  <2>1. ASSUME NEW n \in Notes, Save(n)
        PROVE  CoverInv'
    <3>1. /\ \E id \in BOOLEAN : Write(n, TRUE, id)
          /\ tokens' = tokens
      BY <2>1 DEF Save, Base, TypeOK
    <3>2. \A m \in Notes : m # n => SureKept(m)
      BY <2>1, SaveSure
    <3> QED
      BY <3>1, <3>2, CoverWrite
  <2>2. ASSUME NEW n \in Notes, Remove(n)
        PROVE  CoverInv'
    <3>1. /\ \E id \in BOOLEAN : Write(n, FALSE, id)
          /\ tokens' = tokens
      BY <2>2 DEF Remove, Base, TypeOK
    <3>2. \A m \in Notes : m # n => SureKept(m)
      BY <2>2, RemoveSure
    <3> QED
      BY <3>1, <3>2, CoverWrite
  <2>3. ASSUME NEW n \in Notes, Enrich(n)
        PROVE  CoverInv'
    <3>1. /\ \E id \in BOOLEAN : Write(n, TRUE, id)
          /\ tokens' = tokens
      BY <2>3 DEF Enrich, Base, TypeOK
    <3>2. \A m \in Notes : m # n => SureKept(m)
      BY <2>3, EnrichSure
    <3> QED
      BY <3>1, <3>2, CoverWrite
  <2>4. ASSUME NEW n \in Notes, NEW there \in BOOLEAN, ToolChanges(n, there)
        PROVE  CoverInv'
    <3>1. /\ \E id \in BOOLEAN : Write(n, there, id)
          /\ tokens' = tokens
      BY <2>4 DEF ToolChanges, Base, TypeOK
    <3>2. \A m \in Notes : m # n => SureKept(m)
      BY <2>4, ToolChangesSure
    <3> QED
      BY <3>1, <3>2, CoverWrite
  <2>5. ASSUME NEW n \in Notes, TokenExpires(n)
        PROVE  CoverInv'
    <3>1. /\ UNCHANGED <<note, events, handling>>
          /\ tokens' \subseteq tokens
      BY <2>5 DEF TokenExpires, WithoutToken, watchVars
    <3>2. \A m \in Notes : SureKept(m)
      BY <2>5, TokenExpiresSure
    <3> QED
      BY <3>1, <3>2, CoverFrame
  <2>6. ASSUME NEW n \in Notes, Ripen(n)
        PROVE  CoverInv'
    <3>1. /\ UNCHANGED <<note, events, handling>>
          /\ tokens' \subseteq tokens
      BY <2>6 DEF Ripen, watchVars
    <3>2. \A m \in Notes : SureKept(m)
      BY <2>6, RipenSure
    <3> QED
      BY <3>1, <3>2, CoverFrame
  <2>7. ASSUME NEW n \in Notes, WindowExpires(n)
        PROVE  CoverInv'
    <3>1. /\ UNCHANGED <<note, events, handling>>
          /\ tokens' \subseteq tokens
      BY <2>7 DEF WindowExpires, watchVars
    <3>2. \A m \in Notes : SureKept(m)
      BY <2>7, WindowExpiresSure
    <3> QED
      BY <3>1, <3>2, CoverFrame
  <2>8. CASE HandlerStat
    BY <2>8, HandlerStatCover
  <2>9. CASE HandlerDecide
    BY <2>9, HandlerDecideCover
  <2>10. ASSUME NEW t \in Threads, Breaker(t)
        PROVE  CoverInv'
    <3>1. /\ UNCHANGED <<note, events, handling>>
          /\ tokens' \subseteq tokens
      BY <2>10 DEF Breaker, watchVars
    <3>2. \A m \in Notes : SureKept(m)
      BY <2>10, BreakerSure
    <3> QED
      BY <3>1, <3>2, CoverFrame
  <2>11. ASSUME NEW t \in Threads, BreakerOpen(t)
        PROVE  CoverInv'
    <3>1. /\ UNCHANGED <<note, events, handling>>
          /\ tokens' \subseteq tokens
      BY <2>11 DEF BreakerOpen, watchVars
    <3>2. \A m \in Notes : SureKept(m)
      BY <2>11, BreakerOpenSure
    <3> QED
      BY <3>1, <3>2, CoverFrame
  <2>12. ASSUME NEW t \in Threads, WriteLock(t)
        PROVE  CoverInv'
    <3>1. /\ UNCHANGED <<note, events, handling>>
          /\ tokens' \subseteq tokens
      BY <2>12 DEF WriteLock, watchVars
    <3>2. \A m \in Notes : SureKept(m)
      BY <2>12, WriteLockSure
    <3> QED
      BY <3>1, <3>2, CoverFrame
  <2>13. ASSUME NEW t \in Threads, AddId(t)
        PROVE  CoverInv'
    <3>0. arg[t] \in Notes
      BY <2>13 DEF AddId, Goto, Base, TypeOK, ThreadInv, ThreadOK, Busy
    <3>1. /\ \E id \in BOOLEAN : Write(arg[t], TRUE, id)
          /\ tokens' = tokens
      BY <3>0, <2>13 DEF AddId, Goto, Base, TypeOK
    <3>2. \A m \in Notes : m # arg[t] => SureKept(m)
      BY <2>13, AddIdSure
    <3> QED
      BY <3>0, <3>1, <3>2, CoverWrite
  <2>14. ASSUME NEW t \in Threads, NoIdAdded(t)
        PROVE  CoverInv'
    <3>1. /\ UNCHANGED <<note, events, handling>>
          /\ tokens' \subseteq tokens
      BY <2>14 DEF NoIdAdded, watchVars
    <3>2. \A m \in Notes : SureKept(m)
      BY <2>14, NoIdAddedSure
    <3> QED
      BY <3>1, <3>2, CoverFrame
  <2>15. ASSUME NEW t \in Threads, TokenStat(t)
        PROVE  CoverInv'
    <3>1. /\ UNCHANGED <<note, events, handling>>
          /\ tokens' \subseteq tokens
      BY <2>15 DEF TokenStat, watchVars
    <3>2. \A m \in Notes : SureKept(m)
      BY <2>15, TokenStatSure
    <3> QED
      BY <3>1, <3>2, CoverFrame
  <2>16. ASSUME NEW t \in Threads, TokenPut(t)
        PROVE  CoverInv'
    BY <2>16, TokenPutCover
  <2>17. ASSUME NEW t \in Threads, Parse(t)
        PROVE  CoverInv'
    <3>1. /\ UNCHANGED <<note, events, handling>>
          /\ tokens' \subseteq tokens
      BY <2>17 DEF Parse, watchVars
    <3>2. \A m \in Notes : SureKept(m)
      BY <2>17, ParseSure
    <3> QED
      BY <3>1, <3>2, CoverFrame
  <2>18. ASSUME NEW t \in Threads, Commit(t)
        PROVE  CoverInv'
    <3>1. /\ UNCHANGED <<note, events, handling>>
          /\ tokens' \subseteq tokens
      BY <2>18 DEF Commit, watchVars
    <3>2. \A m \in Notes : SureKept(m)
      BY <2>18, CommitSure
    <3> QED
      BY <3>1, <3>2, CoverFrame
  <2>19. ASSUME NEW t \in Threads, ReindexFails(t)
        PROVE  CoverInv'
    <3>1. /\ UNCHANGED <<note, events, handling>>
          /\ tokens' \subseteq tokens
      BY <2>19 DEF ReindexFails, watchVars
    <3>2. \A m \in Notes : SureKept(m)
      BY <2>19, ReindexFailsSure
    <3> QED
      BY <3>1, <3>2, CoverFrame
  <2>20. ASSUME NEW g \in Generations, WorkerLoop(g)
        PROVE  CoverInv'
    <3>1. /\ UNCHANGED <<note, events, handling>>
          /\ tokens' \subseteq tokens
      BY <2>20 DEF WorkerLoop, watchVars
    <3>2. \A m \in Notes : SureKept(m)
      BY <2>20, WorkerLoopSure
    <3> QED
      BY <3>1, <3>2, CoverFrame
  <2>21. ASSUME NEW g \in Generations, WorkerCollect(g)
        PROVE  CoverInv'
    <3>1. /\ UNCHANGED <<note, events, handling>>
          /\ tokens' \subseteq tokens
      BY <2>21 DEF WorkerCollect, watchVars
    <3>2. \A m \in Notes : SureKept(m)
      BY <2>21, WorkerCollectSure
    <3> QED
      BY <3>1, <3>2, CoverFrame
  <2>22. ASSUME NEW g \in Generations, NEW n \in Notes, WorkerNext(g, n)
        PROVE  CoverInv'
    <3>1. /\ UNCHANGED <<note, events, handling>>
          /\ tokens' \subseteq tokens
      BY <2>22 DEF WorkerNext, watchVars
    <3>2. \A m \in Notes : SureKept(m)
      BY <2>22, WorkerNextSure
    <3> QED
      BY <3>1, <3>2, CoverFrame
  <2>23. ASSUME NEW g \in Generations, Start(g)
        PROVE  CoverInv'
    <3>1. /\ UNCHANGED <<note, events, handling>>
          /\ tokens' \subseteq tokens
      BY <2>23 DEF Start, StartAllowed, watchVars
    <3>2. \A m \in Notes : SureKept(m)
      BY <2>23, StartSure
    <3> QED
      BY <3>1, <3>2, CoverFrame
  <2>24. ASSUME NEW g \in Generations, StartFails(g)
        PROVE  CoverInv'
    <3>1. /\ UNCHANGED <<note, events, handling>>
          /\ tokens' \subseteq tokens
      BY <2>24 DEF StartFails, StartAllowed, watchVars
    <3>2. \A m \in Notes : SureKept(m)
      BY <2>24, StartFailsSure
    <3> QED
      BY <3>1, <3>2, CoverFrame
  <2>25. CASE StartNoVault
    <3>1. /\ UNCHANGED <<note, events, handling>>
          /\ tokens' \subseteq tokens
      BY <2>25 DEF StartNoVault, StartAllowed, watchVars
    <3>2. \A m \in Notes : SureKept(m)
      BY <2>25, StartNoVaultSure
    <3> QED
      BY <3>1, <3>2, CoverFrame
  <2>26. CASE StopSignal
    <3>1. /\ UNCHANGED <<note, events, handling>>
          /\ tokens' \subseteq tokens
      BY <2>26 DEF StopSignal, watchVars
    <3>2. \A m \in Notes : SureKept(m)
      BY <2>26, StopSignalSure
    <3> QED
      BY <3>1, <3>2, CoverFrame
  <2>27. CASE ObserverExits
    BY <2>27, ObserverExitsCover
  <2>28. CASE StopReturns
    <3>1. /\ UNCHANGED <<note, events, handling>>
          /\ tokens' \subseteq tokens
      BY <2>28 DEF StopReturns, watchVars
    <3>2. \A m \in Notes : SureKept(m)
      BY <2>28, StopReturnsSure
    <3> QED
      BY <3>1, <3>2, CoverFrame
  <2> QED
    BY <1>2, <2>1, <2>2, <2>3, <2>4, <2>5, <2>6, <2>7, <2>8, <2>9, <2>10,
       <2>11, <2>12, <2>13, <2>14, <2>15, <2>16, <2>17, <2>18, <2>19,
       <2>20, <2>21, <2>22, <2>23, <2>24, <2>25, <2>26, <2>27, <2>28 DEF
       Next, Reindex, Worker
<1> QED
  BY <1>1, <1>2

\* No change of a note is lost between the observer, the ignore tokens, the
\* debounce, the worker, start and stop: it is indexed, or somebody is going to
\* index it, or it was refused, failed or made while nobody watched.
THEOREM NoChangeLost == Spec => []ChangesCovered
<1>1. Base /\ CoverInv => ChangesCovered
  BY DEF CoverInv, AllCovered, Sure, Later, Fresh, Committing, ChangesCovered,
     Covered
<1> QED
  BY <1>1, BaseInit, BaseStep, CoverInit, CoverStep, PTL DEF Spec

\* One consistent generation of the watcher, for any notes and generations.
THEOREM Sound == Spec => []WatchSound
<1>1. TypeOK /\ OneGeneration => WatchSound
  BY DEF WatchSound
<1>. QED
  BY <1>1, TypeCorrect, SingleGeneration, PTL
=============================================================================
