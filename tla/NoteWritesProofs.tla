-------------------------- MODULE NoteWritesProofs --------------------------
(***************************************************************************)
(* Theorems about the mutations of notes, for any number of threads,       *)
(* processes, paths, calls and acts of the editor.  Wherever the path      *)
(* locks coordinate all writers (fcntl, or one process) the mutations      *)
(* implement NoteStore, lose nothing and keep what they have promised.     *)
(***************************************************************************)
EXTENDS NoteWrites, TLAPS

\* The path locks exclude any two threads.
AllCoordinated ==
    \A t, u \in Threads : t # u => Lock!Coordinated(t, u)

(***************************************************************************)
(* The inductive invariant                                                 *)
(***************************************************************************)

Reading == Merging \cup {"enrich"}

\* No two threads are inside one path.
Excluded ==
    \A t, u \in Threads : t # u => inside[t] \cap inside[u] = {}

\* A file has a revision, and no revision is above the last one given.
RevisionsTell ==
    \A p \in Paths : (note[p] = Missing <=> rev[p] = 0) /\ rev[p] <= tick

\* What a thread that is not idle was called for.
Called(t) ==
    pc[t] # "idle" =>
      /\ call[t].op # "none" /\ {call[t].path, call[t].to} \subseteq Paths
      /\ call[t].mark \in 1..MaxActs
      /\ pc[t] \in {"read", "recheck"} => call[t].op \in Reading
      /\ pc[t] \in {"check", "touch"} => call[t].op # "enrich"

\* Between its first look and its last step, a thread's paths are as it saw
\* them or the editor wrote them last.
Sighted(t) ==
    pc[t] \in {"read", "recheck", "check", "touch"} =>
      /\ seen[t] <= tick
      /\ rev[call[t].path] = seen[t] \/ by[call[t].path] = Editor
      /\ call[t].op \notin {"create", "write"} => seen[t] # 0
      /\ call[t].op = "create" => seen[t] = 0
      /\ call[t].op = "move" =>
            /\ call[t].path # call[t].to
            /\ rev[call[t].to] = 0 \/ by[call[t].to] = Editor

\* What a thread has read is the note of the revision it saw, and has the
\* ids reported for the note; what it will write, it may write.
HasRead(t) ==
    pc[t] \in {"recheck", "check", "touch"} /\ call[t].op \in Reading =>
      /\ base[t] # Missing
      /\ rev[call[t].path] = seen[t] => note[call[t].path] = base[t]
      /\ \A i \in told[call[t].path] : base[t].id = i
      /\ pc[t] \in {"check", "touch"} => Applicable(call[t].op, base[t])

ThreadSound(t) ==
    /\ inside[t] = IF pc[t] \in Working THEN PathsOf(t) ELSE {}
    /\ Called(t) /\ Sighted(t) /\ HasRead(t)

WritesInv ==
    /\ TypeOK /\ Excluded /\ RevisionsTell /\ IdsAgree
    /\ \A t \in Threads : ThreadSound(t)

-----------------------------------------------------------------------------

\* Every content the model writes is a note.
LEMMA ResultIsNote ==
    ASSUME NEW op \in Writing, NEW old \in Notes \cup {Missing}, NEW n \in Nat,
           op \in Merging => old # Missing
    PROVE  Result(op, old, n) \in Notes /\ Result(op, old, n) # Missing
<1>1. Result(op, old, n) \in Notes
  <2>1. CASE op \in {"create", "write"}
    BY <2>1 DEF Result, Created, Written, Note, Notes
  <2>2. CASE op \in Merging
    <3>1. old \in Notes
      BY <2>2
    <3>. QED
      BY <2>2, <3>1 DEF Result, Merging, Appended, Updated, Replaced, Identified,
         Filled, Note, Notes
  <2>. QED
    BY <2>1, <2>2 DEF Writing
<1>. QED
  BY <1>1, MissingAssumption DEF Notes

LEMMA WritesInitInv == Init => WritesInv
<1> SUFFICES ASSUME Init PROVE WritesInv
  OBVIOUS
<1>1. Written(0) \in Notes /\ Written(0) # Missing
  BY MissingAssumption DEF Written, Note, Notes
<1>2. /\ note \in [Paths -> Notes \cup {Missing}]
      /\ rev = [p \in Paths |-> IF note[p] = Missing THEN 0 ELSE 1]
  BY <1>1 DEF Init, InitialNotes
<1>3. TypeOK
  BY <1>2 DEF Init, TypeOK, Lock!Init, NoCall, Ops, Working
<1>4. Excluded /\ RevisionsTell /\ IdsAgree
  BY <1>2 DEF Init, Excluded, RevisionsTell, IdsAgree, Lock!Init
<1>5. \A t \in Threads : ThreadSound(t)
  BY DEF Init, ThreadSound, Called, Sighted, HasRead, Working, Lock!Init
<1>. QED
  BY <1>3, <1>4, <1>5 DEF WritesInv

\* The other threads stay where they are.
Others(t) ==
    \A u \in Threads \ {t} :
        /\ pc'[u] = pc[u] /\ call'[u] = call[u] /\ seen'[u] = seen[u]
        /\ base'[u] = base[u] /\ inside'[u] = inside[u]

\* A step of t that touches no file.
LEMMA QuietKeeps ==
    ASSUME WritesInv, NEW t \in Threads, Others(t), TypeOK',
           UNCHANGED files, ThreadSound(t)',
           \A u \in Threads \ {t} : inside'[t] \cap inside[u] = {}
    PROVE  WritesInv'
<1>1. UNCHANGED <<note, rev, by, told, tick>>
  BY DEF files
<1>2. Excluded'
  BY DEF WritesInv, Excluded, Others
<1>3. RevisionsTell' /\ IdsAgree'
  BY <1>1 DEF WritesInv, RevisionsTell, IdsAgree
<1>4. ASSUME NEW u \in Threads, u # t PROVE ThreadSound(u)'
  <2>1. ThreadSound(u)
    BY DEF WritesInv
  <2>2. /\ pc'[u] = pc[u] /\ call'[u] = call[u] /\ seen'[u] = seen[u]
        /\ base'[u] = base[u] /\ inside'[u] = inside[u]
    BY <1>4 DEF Others
  <2>. QED
    BY <1>1, <2>1, <2>2 DEF ThreadSound, Called, Sighted, HasRead, PathsOf
<1>. QED
  BY <1>2, <1>3, <1>4 DEF WritesInv

\* A step of t that returns: what it did to files, it did to paths that no
\* other thread is inside.
LEMMA ReturnKeeps ==
    ASSUME WritesInv, NEW t \in Threads, NEW result, Return(t, result),
           note' \in [Paths -> Notes \cup {Missing}], rev' \in [Paths -> Nat],
           by' \in [Paths -> Threads \cup {Editor}], bin' \subseteq Nat,
           told' \in [Paths -> SUBSET Nat], tick' \in Nat, tick <= tick',
           RevisionsTell', IdsAgree',
           \A p \in Paths : \/ p \in inside[t]
                            \/ /\ note'[p] = note[p] /\ rev'[p] = rev[p]
                               /\ by'[p] = by[p] /\ told'[p] = told[p]
    PROVE  WritesInv'
<1>1. /\ pc' = [pc EXCEPT ![t] = "idle"] /\ call' = [call EXCEPT ![t] = NoCall]
      /\ seen' = [seen EXCEPT ![t] = 0] /\ base' = [base EXCEPT ![t] = Missing]
      /\ inside' = [u \in Threads |-> IF u = t THEN {} ELSE inside[u]]
      /\ UNCHANGED <<calls, edits>>
  BY DEF Return, Goto, Leave, Lock!Leave
<1>2. TypeOK'
  BY <1>1 DEF WritesInv, TypeOK, NoCall
<1>3. Excluded'
  BY <1>1 DEF WritesInv, Excluded
<1>4. ThreadSound(t)'
  BY <1>1 DEF WritesInv, TypeOK, ThreadSound, Called, Sighted, HasRead, Working
<1>5. ASSUME NEW u \in Threads, u # t PROVE ThreadSound(u)'
  <2>1. ThreadSound(u)
    BY DEF WritesInv
  <2>2. /\ pc'[u] = pc[u] /\ call'[u] = call[u] /\ seen'[u] = seen[u]
        /\ base'[u] = base[u] /\ inside'[u] = inside[u]
    BY <1>1, <1>5 DEF WritesInv, TypeOK
  <2>3. inside[t] \cap inside[u] = {}
    BY <1>5 DEF WritesInv, Excluded
  <2>4. ASSUME pc[u] \in Working, NEW p \in {call[u].path, call[u].to}
        PROVE  /\ note'[p] = note[p] /\ rev'[p] = rev[p]
               /\ by'[p] = by[p] /\ told'[p] = told[p]
    <3>1. p \in inside[u] /\ p \in Paths
      BY <2>1, <2>4 DEF ThreadSound, Called, PathsOf, Working
    <3>. QED
      BY <2>3, <3>1
  <2>5. inside'[u] = IF pc'[u] \in Working THEN PathsOf(u)' ELSE {}
    BY <2>1, <2>2 DEF ThreadSound, PathsOf
  <2>6. Called(u)'
    BY <2>1, <2>2 DEF ThreadSound, Called
  <2>7. Sighted(u)'
    <3>1. CASE pc[u] \in {"read", "recheck", "check", "touch"}
      <4>1. /\ rev'[call[u].path] = rev[call[u].path]
            /\ by'[call[u].path] = by[call[u].path]
            /\ rev'[call[u].to] = rev[call[u].to]
            /\ by'[call[u].to] = by[call[u].to]
        BY <3>1, <2>4 DEF Working
      <4>2. seen[u] \in Nat /\ tick \in Nat
        BY DEF WritesInv, TypeOK
      <4>. QED
        BY <3>1, <4>1, <4>2, <2>1, <2>2 DEF ThreadSound, Sighted
    <3>2. CASE pc[u] \notin {"read", "recheck", "check", "touch"}
      BY <3>2, <2>2 DEF Sighted
    <3>. QED
      BY <3>1, <3>2
  <2>8. HasRead(u)'
    <3>1. CASE pc[u] \in {"recheck", "check", "touch"}
      <4>1. /\ rev'[call[u].path] = rev[call[u].path]
            /\ note'[call[u].path] = note[call[u].path]
            /\ told'[call[u].path] = told[call[u].path]
        BY <3>1, <2>4 DEF Working
      <4>. QED
        BY <3>1, <4>1, <2>1, <2>2 DEF ThreadSound, HasRead
    <3>2. CASE pc[u] \notin {"recheck", "check", "touch"}
      BY <3>2, <2>2 DEF HasRead
    <3>. QED
      BY <3>1, <3>2
  <2>. QED
    BY <2>5, <2>6, <2>7, <2>8 DEF ThreadSound
<1>. QED
  BY <1>2, <1>3, <1>4, <1>5 DEF WritesInv

\* A call that ends without having touched a file.
LEMMA RejectKeeps ==
    ASSUME WritesInv, NEW t \in Threads, NEW result, Reject(t, result)
    PROVE  WritesInv'
<1>1. Return(t, result) /\ UNCHANGED <<note, rev, by, bin, told, tick>>
  BY DEF Reject, files
<1>2. RevisionsTell' /\ IdsAgree'
  BY <1>1 DEF WritesInv, RevisionsTell, IdsAgree
<1>. QED
  BY <1>1, <1>2, ReturnKeeps DEF WritesInv, TypeOK

-----------------------------------------------------------------------------

LEMMA CallKeeps ==
    ASSUME WritesInv, NEW t \in Threads, NEW op \in Ops, NEW p \in Paths,
           NEW q \in Paths, Call(t, op, p, q)
    PROVE  WritesInv'
<1> DEFINE c == [op |-> op, path |-> p, to |-> q, mark |-> calls + 1]
<1>1. /\ pc[t] = "idle" /\ pc' = [pc EXCEPT ![t] = "lock"]
      /\ call' = [call EXCEPT ![t] = c] /\ calls' = calls + 1
      /\ UNCHANGED <<files, seen, base, inside, edits>>
  BY DEF Call
<1>2. calls \in Nat /\ edits \in Nat /\ calls + edits < MaxActs
  BY DEF Call, WritesInv, TypeOK
<1>3. calls + 1 \in 1..MaxActs
  BY <1>2, BoundsAssumption
<1>4. c \in [op : Ops \cup {"none", "fill"}, path : Paths \cup {Missing},
             to : Paths \cup {Missing}, mark : Nat]
  BY <1>2
<1>5. c.op = op /\ c.path = p /\ c.to = q /\ c.mark = calls + 1
  OBVIOUS
<1>. HIDE DEF c
<1>6. TypeOK'
  BY <1>1, <1>2, <1>4 DEF WritesInv, TypeOK, files, Working
<1>7. Others(t)
  BY <1>1 DEF WritesInv, TypeOK, Others
<1>8. pc'[t] = "lock" /\ call'[t] = c /\ inside'[t] = {}
  BY <1>1 DEF WritesInv, TypeOK, ThreadSound, Working
<1>9. ThreadSound(t)'
  BY <1>3, <1>5, <1>8 DEF ThreadSound, Called, Sighted, HasRead, Working, Ops
<1>. QED
  BY <1>1, <1>6, <1>7, <1>8, <1>9, QuietKeeps

\* The lock is taken when no coordinated thread is inside.
LEMMA EnterLockKeeps ==
    ASSUME AllCoordinated, WritesInv, NEW t \in Threads, EnterLock(t)
    PROVE  WritesInv'
<1>1. /\ pc[t] = "lock" /\ pc' = [pc EXCEPT ![t] = "look"]
      /\ inside' = [inside EXCEPT ![t] = PathsOf(t)]
      /\ UNCHANGED <<files, call, seen, base, calls, edits>>
  BY DEF EnterLock, Lock!Enter, Goto
<1>2. \A u \in Threads \ {t} : PathsOf(t) \cap inside[u] = {}
  BY DEF EnterLock, Lock!Enter, AllCoordinated
<1>3. ThreadSound(t) /\ PathsOf(t) \subseteq Paths
  BY <1>1 DEF WritesInv, ThreadSound, Called, PathsOf
<1>4. TypeOK'
  BY <1>1, <1>3 DEF WritesInv, TypeOK, files, Working
<1>5. Others(t)
  BY <1>1 DEF WritesInv, TypeOK, Others
<1>6. pc'[t] = "look" /\ inside'[t] = PathsOf(t) /\ call'[t] = call[t]
  BY <1>1 DEF WritesInv, TypeOK
<1>7. ThreadSound(t)'
  BY <1>1, <1>3, <1>6 DEF ThreadSound, Called, Sighted, HasRead, Working, PathsOf
<1>. QED
  BY <1>1, <1>2, <1>4, <1>5, <1>6, <1>7, QuietKeeps

\* A step inside the lock, or without it, that only moves t on.
LEMMA MoveOnKeeps ==
    ASSUME WritesInv, NEW t \in Threads,
           NEW to \in {"read", "recheck", "check", "touch"}, pc[t] \in Working,
           Goto(t, to), TypeOK', UNCHANGED <<files, call, inside>>,
           \A u \in Threads \ {t} : seen'[u] = seen[u] /\ base'[u] = base[u],
           Called(t)', Sighted(t)', HasRead(t)'
    PROVE  WritesInv'
<1>1. pc' = [pc EXCEPT ![t] = to] /\ pc'[t] = to
  BY DEF Goto, WritesInv, TypeOK
<1>2. Others(t)
  BY <1>1 DEF WritesInv, TypeOK, Others
<1>3. ThreadSound(t)'
  BY <1>1 DEF WritesInv, ThreadSound, Working, PathsOf
<1>4. \A u \in Threads \ {t} : inside'[t] \cap inside[u] = {}
  BY DEF WritesInv, Excluded
<1>. QED
  BY <1>2, <1>3, <1>4, QuietKeeps

LEMMA LookKeeps == ASSUME WritesInv, NEW t \in Threads, Look(t) PROVE WritesInv'
<1> DEFINE to == IF Op(t) \in {"create", "write", "delete", "move"}
                 THEN "check" ELSE "read"
<1>1. /\ pc[t] = "look" /\ Goto(t, to)
      /\ seen' = [seen EXCEPT ![t] = rev[Path(t)]]
      /\ UNCHANGED <<files, call, base, inside, calls, edits>>
  BY DEF Look
<1>2. /\ call[t].op = "create" => rev[call[t].path] = 0
      /\ call[t].op \notin {"create", "write"} => rev[call[t].path] # 0
      /\ call[t].op = "move" => rev[call[t].to] = 0
  BY DEF Look, Op, Path
<1>3. /\ Called(t) /\ call[t].path \in Paths /\ call[t].to \in Paths
      /\ call[t].op \in (Ops \cup {"fill"})
  BY <1>1 DEF WritesInv, ThreadSound, Called, TypeOK
<1>4. seen'[t] = rev[call[t].path] /\ call'[t] = call[t] /\ pc'[t] = to
  BY <1>1 DEF WritesInv, TypeOK, Path, Goto
<1>5. TypeOK'
  BY <1>1, <1>3 DEF WritesInv, TypeOK, files, Goto, Path, Working
<1>6. /\ to = "read" => call[t].op \in Reading
      /\ to = "check" => call[t].op \in {"create", "write", "delete", "move"}
      /\ to \in {"read", "check"}
  BY <1>3 DEF Ops, Reading, Merging, Op
<1>. HIDE DEF to
<1>7. Called(t)'
  BY <1>1, <1>3, <1>4, <1>6 DEF Called
<1>8. Sighted(t)'
  BY <1>1, <1>2, <1>3, <1>4 DEF WritesInv, RevisionsTell, Sighted, files
<1>9. HasRead(t)'
  BY <1>4, <1>6 DEF HasRead, Reading, Merging
<1>10. \A u \in Threads \ {t} : seen'[u] = seen[u] /\ base'[u] = base[u]
  BY <1>1 DEF WritesInv, TypeOK
<1>. QED
  BY <1>1, <1>5, <1>6, <1>7, <1>8, <1>9, <1>10, MoveOnKeeps DEF Working

LEMMA ReadKeeps == ASSUME WritesInv, NEW t \in Threads, Read(t) PROVE WritesInv'
<1>1. CASE Reject(t, "failed")
  BY <1>1, RejectKeeps
<1>2. CASE ~Reject(t, "failed")
  <2>1. /\ pc[t] = "read" /\ note[call[t].path] # Missing
        /\ base' = [base EXCEPT ![t] = note[call[t].path]]
        /\ Goto(t, "recheck")
        /\ UNCHANGED <<files, call, seen, inside, calls, edits>>
    BY <1>2 DEF Read, Path
  <2>2. Called(t) /\ Sighted(t) /\ call[t].path \in Paths
    BY <2>1 DEF WritesInv, ThreadSound, Called
  <2>3. pc'[t] = "recheck" /\ base'[t] = note[call[t].path] /\ call'[t] = call[t]
        /\ seen'[t] = seen[t]
    BY <2>1 DEF WritesInv, TypeOK, Goto
  <2>4. TypeOK'
    BY <2>1, <2>2 DEF WritesInv, TypeOK, files, Goto, Working
  <2>5. Called(t)'
    BY <2>1, <2>2, <2>3 DEF Called
  <2>6. Sighted(t)'
    BY <2>1, <2>2, <2>3 DEF Sighted, files
  <2>7. HasRead(t)'
    BY <2>1, <2>2, <2>3 DEF HasRead, files, WritesInv, IdsAgree
  <2>8. \A u \in Threads \ {t} : seen'[u] = seen[u] /\ base'[u] = base[u]
    BY <2>1 DEF WritesInv, TypeOK
  <2>. QED
    BY <2>1, <2>4, <2>5, <2>6, <2>7, <2>8, MoveOnKeeps DEF Working
<1>. QED
  BY <1>1, <1>2

LEMMA MergeKeeps == ASSUME WritesInv, NEW t \in Threads, Merge(t) PROVE WritesInv'
<1>1. /\ pc[t] = "recheck" /\ call[t].op \in Merging
      /\ Applicable(call[t].op, base[t]) /\ Goto(t, "check")
      /\ UNCHANGED <<files, call, seen, base, inside, calls, edits>>
  BY DEF Merge, Rechecked, Op
<1>2. Called(t) /\ Sighted(t) /\ HasRead(t)
  BY DEF WritesInv, ThreadSound
<1>3. pc'[t] = "check"
  BY <1>1 DEF WritesInv, TypeOK, Goto
<1>4. TypeOK'
  BY <1>1 DEF WritesInv, TypeOK, files, Goto, Working
<1>5. Called(t)' /\ Sighted(t)' /\ HasRead(t)'
  BY <1>1, <1>2, <1>3 DEF Called, Sighted, HasRead, files, Reading, Merging
<1>. QED
  BY <1>1, <1>4, <1>5, MoveOnKeeps DEF Working

LEMMA CheckKeeps == ASSUME WritesInv, NEW t \in Threads, Check(t) PROVE WritesInv'
<1>1. /\ pc[t] = "check" /\ Goto(t, "touch")
      /\ UNCHANGED <<files, call, seen, base, inside, calls, edits>>
  BY DEF Check
<1>2. Called(t) /\ Sighted(t) /\ HasRead(t)
  BY DEF WritesInv, ThreadSound
<1>3. pc'[t] = "touch"
  BY <1>1 DEF WritesInv, TypeOK, Goto
<1>4. TypeOK'
  BY <1>1 DEF WritesInv, TypeOK, files, Goto, Working
<1>5. Called(t)' /\ Sighted(t)' /\ HasRead(t)'
  BY <1>1, <1>2, <1>3 DEF Called, Sighted, HasRead, files
<1>. QED
  BY <1>1, <1>4, <1>5, MoveOnKeeps DEF Working

\* The provider is asked without the lock, and its answer finds t without it.
LEMMA ProviderKeeps ==
    ASSUME WritesInv, NEW t \in Threads, AskProvider(t) \/ ProviderAnswers(t)
    PROVE  WritesInv'
<1>1. CASE AskProvider(t)
  <2>1. /\ pc[t] = "recheck" /\ pc' = [pc EXCEPT ![t] = "provider"]
        /\ inside' = [u \in Threads |-> IF u = t THEN {} ELSE inside[u]]
        /\ UNCHANGED <<files, call, seen, base, calls, edits>>
    BY <1>1 DEF AskProvider, Rechecked, Goto, Leave, Lock!Leave
  <2>2. Called(t)
    BY DEF WritesInv, ThreadSound
  <2>3. pc'[t] = "provider" /\ inside'[t] = {}
    BY <2>1 DEF WritesInv, TypeOK
  <2>4. TypeOK' /\ Others(t)
    BY <2>1 DEF WritesInv, TypeOK, files, Others
  <2>5. ThreadSound(t)'
    BY <2>1, <2>2, <2>3 DEF ThreadSound, Called, Sighted, HasRead, Working
  <2>. QED
    BY <2>1, <2>3, <2>4, <2>5, QuietKeeps
<1>2. CASE ProviderAnswers(t)
  <2>1. /\ pc[t] = "provider" /\ pc' = [pc EXCEPT ![t] = "lock"]
        /\ call' = [call EXCEPT ![t].op = "fill"]
        /\ seen' = [seen EXCEPT ![t] = 0] /\ base' = [base EXCEPT ![t] = Missing]
        /\ UNCHANGED <<files, inside, calls, edits>>
    BY <1>2 DEF ProviderAnswers, Goto
  <2>2. Called(t) /\ inside[t] = {}
    BY <2>1 DEF WritesInv, ThreadSound, Working
  <2>3. /\ pc'[t] = "lock" /\ call'[t].op = "fill" /\ call'[t].path = call[t].path
        /\ call'[t].to = call[t].to /\ call'[t].mark = call[t].mark
    BY <2>1 DEF WritesInv, TypeOK
  <2>4. TypeOK'
    <3>1. call' \in [Threads -> [op : Ops \cup {"none", "fill"},
                                 path : Paths \cup {Missing},
                                 to : Paths \cup {Missing}, mark : Nat]]
      <4>1. call \in [Threads -> [op : Ops \cup {"none", "fill"},
                                  path : Paths \cup {Missing},
                                  to : Paths \cup {Missing}, mark : Nat]]
        BY DEF WritesInv, TypeOK
      <4>2. call[t] \in [op : Ops \cup {"none", "fill"}, path : Paths \cup {Missing},
                         to : Paths \cup {Missing}, mark : Nat]
        BY <4>1
      <4>3. [call[t] EXCEPT !.op = "fill"] \in
               [op : Ops \cup {"none", "fill"}, path : Paths \cup {Missing},
                to : Paths \cup {Missing}, mark : Nat]
        BY ONLY <4>2
      <4>4. call' = [call EXCEPT ![t] = [call[t] EXCEPT !.op = "fill"]]
        BY <2>1
      <4>. QED
        BY ONLY <4>1, <4>3, <4>4
    <3>2. pc' \in [Threads -> Working \cup {"idle", "lock", "provider"}]
      BY <2>1 DEF WritesInv, TypeOK
    <3>3. seen' \in [Threads -> Nat] /\ base' \in [Threads -> Notes \cup {Missing}]
      BY <2>1 DEF WritesInv, TypeOK
    <3>. QED
      BY <2>1, <3>1, <3>2, <3>3 DEF WritesInv, TypeOK, files
  <2>5. Others(t)
    BY <2>1 DEF WritesInv, TypeOK, Others
  <2>6. ThreadSound(t)'
    BY <2>1, <2>2, <2>3 DEF ThreadSound, Called, Sighted, HasRead, Working
  <2>. QED
    BY <2>1, <2>2, <2>4, <2>5, <2>6, QuietKeeps
<1>. QED
  BY <1>1, <1>2

-----------------------------------------------------------------------------

\* What a thread at its last step knows of its paths.
LEMMA AtTouch ==
    ASSUME WritesInv, NEW t \in Threads, pc[t] = "touch"
    PROVE  /\ inside[t] = {call[t].path, call[t].to}
           /\ call[t].path \in Paths /\ call[t].to \in Paths
           /\ call[t].mark \in 1..MaxActs /\ call[t].op # "enrich"
           /\ Sighted(t) /\ HasRead(t)
BY DEF WritesInv, ThreadSound, Called, PathsOf, Working

LEMMA ReportIdKeeps ==
    ASSUME WritesInv, NEW t \in Threads, ReportId(t)
    PROVE  WritesInv'
<1> DEFINE p == call[t].path
<1>1. /\ pc[t] = "recheck" /\ rev[p] = seen[t] /\ call[t].op = "ensure"
      /\ base[t].id # NoId /\ told' = [told EXCEPT ![p] = @ \cup {base[t].id}]
      /\ Return(t, "ok") /\ UNCHANGED <<note, rev, by, bin, tick>>
  BY DEF ReportId, Rechecked, Op, Path
<1>2. HasRead(t) /\ p \in Paths /\ p \in inside[t]
  BY <1>1 DEF WritesInv, ThreadSound, Called, PathsOf, Working
<1>3. note[p] = base[t] /\ base[t] # Missing
  BY <1>1, <1>2 DEF HasRead, Reading, Merging
<1>4. base[t] \in Notes
  BY <1>3 DEF WritesInv, TypeOK
<1>5. base[t].id \in Nat
  BY <1>1, <1>4 DEF Notes
<1>. HIDE DEF p
<1>6. told' \in [Paths -> SUBSET Nat]
  BY <1>1, <1>2, <1>5 DEF WritesInv, TypeOK
<1>7. RevisionsTell'
  BY <1>1 DEF WritesInv, RevisionsTell
<1>8. IdsAgree'
  BY <1>1, <1>2, <1>3 DEF WritesInv, IdsAgree, TypeOK
<1>. QED
  BY <1>1, <1>2, <1>6, <1>7, <1>8, ReturnKeeps DEF WritesInv, TypeOK

\* safe_write_text under the lock: the ids reported before are in what the
\* call read, and ensure_note_id found none.
LEMMA ReplaceKeeps ==
    ASSUME WritesInv, NEW t \in Threads, Replace(t)
    PROVE  WritesInv'
<1> DEFINE p == call[t].path
           op == call[t].op
           new == Result(op, base[t], call[t].mark)
<1>1. /\ pc[t] = "touch" /\ op \in Writing
      /\ note' = [note EXCEPT ![p] = new]
      /\ rev' = [rev EXCEPT ![p] = tick + 1] /\ by' = [by EXCEPT ![p] = t]
      /\ told' = [told EXCEPT ![p] = Promised(t)] /\ tick' = tick + 1
      /\ Return(t, "ok") /\ UNCHANGED bin
  BY DEF Replace, Op, Path
<1>2. /\ inside[t] = {p, call[t].to} /\ p \in Paths /\ call[t].mark \in 1..MaxActs
      /\ HasRead(t)
  BY <1>1, AtTouch
<1>3. call[t].mark \in Nat /\ base[t] \in Notes \cup {Missing}
      /\ told[p] \subseteq Nat /\ tick \in Nat
  BY <1>2 DEF WritesInv, TypeOK
<1>4. op \in Merging => /\ base[t] # Missing /\ Applicable(op, base[t])
                        /\ \A i \in told[p] : base[t].id = i
  BY <1>1, <1>2 DEF HasRead, Reading
<1>5. new \in Notes /\ new # Missing
  BY <1>1, <1>3, <1>4, ResultIsNote
<1>6. Promised(t) \subseteq Nat /\ \A i \in Promised(t) : new.id = i
  <2>1. CASE op \in {"create", "write", "replace"}
    BY <2>1 DEF Promised, Op
  <2>2. CASE op = "ensure"
    <3>1. base[t].id = NoId /\ base[t] \in Notes
      BY <2>2, <1>3, <1>4 DEF Merging, Applicable
    <3>2. told[p] = {}
      BY <2>2, <3>1, <1>3, <1>4, NoIdAssumption DEF Merging
    <3>3. Promised(t) = {call[t].mark}
      BY <2>2, <3>2 DEF Promised, Op, Path
    <3>4. new.id = call[t].mark
      BY <2>2, <3>1 DEF Result, Identified, Notes
    <3>. QED
      BY <1>3, <3>3, <3>4
  <2>3. CASE op \in {"append", "update", "fill"}
    <3>1. base[t] \in Notes /\ \A i \in told[p] : base[t].id = i
      BY <2>3, <1>3, <1>4 DEF Merging
    <3>2. Promised(t) = told[p]
      BY <2>3 DEF Promised, Op, Path
    <3>3. new.id = base[t].id
      BY <2>3, <3>1 DEF Result, Appended, Updated, Filled, Notes
    <3>. QED
      BY <1>3, <3>1, <3>2, <3>3
  <2>. QED
    BY <1>1, <2>1, <2>2, <2>3 DEF Writing, Merging
<1>. HIDE DEF p, op, new
<1>7. /\ note' \in [Paths -> Notes \cup {Missing}] /\ rev' \in [Paths -> Nat]
      /\ by' \in [Paths -> Threads \cup {Editor}] /\ bin' \subseteq Nat
      /\ told' \in [Paths -> SUBSET Nat] /\ tick' \in Nat /\ tick <= tick'
  BY <1>1, <1>2, <1>3, <1>5, <1>6 DEF WritesInv, TypeOK
<1>8. RevisionsTell'
  BY <1>1, <1>2, <1>3, <1>5 DEF WritesInv, TypeOK, RevisionsTell
<1>9. IdsAgree'
  BY <1>1, <1>2, <1>5, <1>6 DEF WritesInv, TypeOK, IdsAgree
<1>10. \A q \in Paths : \/ q \in inside[t]
                        \/ /\ note'[q] = note[q] /\ rev'[q] = rev[q]
                           /\ by'[q] = by[q] /\ told'[q] = told[q]
  BY <1>1, <1>2 DEF WritesInv, TypeOK
<1>. QED
  BY <1>1, <1>7, <1>8, <1>9, <1>10, ReturnKeeps

\* The types of the files.
LEMMA FileTypes ==
    WritesInv => /\ note \in [Paths -> Notes \cup {Missing}]
                 /\ rev \in [Paths -> Nat]
                 /\ by \in [Paths -> Threads \cup {Editor}] /\ bin \subseteq Nat
                 /\ told \in [Paths -> SUBSET Nat] /\ tick \in Nat
BY DEF WritesInv, TypeOK

LEMMA MoveToTrashKeeps ==
    ASSUME WritesInv, NEW t \in Threads, MoveToTrash(t)
    PROVE  WritesInv'
<1> DEFINE p == call[t].path
<1>1. /\ pc[t] = "touch" /\ note[p] # Missing
      /\ bin' = bin \cup MarksOf(note[p])
      /\ note' = [note EXCEPT ![p] = Missing] /\ rev' = [rev EXCEPT ![p] = 0]
      /\ told' = [told EXCEPT ![p] = {}] /\ Return(t, "ok")
      /\ UNCHANGED <<by, tick>>
  BY DEF MoveToTrash, Path
<1>2. inside[t] = {p, call[t].to} /\ p \in Paths
  BY <1>1, AtTouch
<1>3. note[p] \in Notes
  BY <1>1, <1>2 DEF WritesInv, TypeOK
<1>4. MarksOf(note[p]) \subseteq Nat
  BY <1>1, <1>3 DEF MarksOf, Notes
<1>. HIDE DEF p
<1>5. /\ note' \in [Paths -> Notes \cup {Missing}] /\ rev' \in [Paths -> Nat]
      /\ by' \in [Paths -> Threads \cup {Editor}] /\ bin' \subseteq Nat
      /\ told' \in [Paths -> SUBSET Nat] /\ tick' \in Nat /\ tick <= tick'
  <2>1. note' \in [Paths -> Notes \cup {Missing}] /\ rev' \in [Paths -> Nat]
    BY <1>1, FileTypes
  <2>2. told' \in [Paths -> SUBSET Nat]
    BY <1>1, FileTypes
  <2>3. bin' \subseteq Nat
    BY <1>1, <1>4, FileTypes
  <2>. QED
    BY <1>1, <2>1, <2>2, <2>3, FileTypes
<1>6. RevisionsTell' /\ IdsAgree'
  BY <1>1, <1>2 DEF WritesInv, TypeOK, RevisionsTell, IdsAgree
<1>7. \A q \in Paths : \/ q \in inside[t]
                       \/ /\ note'[q] = note[q] /\ rev'[q] = rev[q]
                          /\ by'[q] = by[q] /\ told'[q] = told[q]
  BY <1>1, <1>2 DEF WritesInv, TypeOK
<1>. QED
  BY <1>1, <1>5, <1>6, <1>7, ReturnKeeps

\* What move_note does to the two paths.
LEMMA RenameMoves ==
    ASSUME WritesInv, NEW t \in Threads, Rename(t), NEW p, p = call[t].path,
           NEW q, q = call[t].to
    PROVE  /\ p \in Paths /\ q \in Paths /\ p # q /\ inside[t] = {p, q}
           /\ note[p] # Missing /\ Return(t, "ok") /\ UNCHANGED <<bin, tick>>
           /\ note' = [note EXCEPT ![p] = Missing, ![q] = note[p]]
           /\ rev' = [rev EXCEPT ![p] = 0, ![q] = rev[p]]
           /\ by' = [by EXCEPT ![p] = by[p], ![q] = by[p]]
           /\ told' = [told EXCEPT ![p] = {}, ![q] = told[p]]
           /\ rev[q] = 0 \/ by[q] = Editor
<1>1. pc[t] = "touch" /\ call[t].op = "move"
  BY DEF Rename, Op
<1>2. /\ inside[t] = {p, q} /\ p \in Paths /\ q \in Paths /\ p # q
      /\ rev[q] = 0 \/ by[q] = Editor
  BY <1>1, AtTouch DEF Sighted
<1>. QED
  BY <1>2 DEF Rename, Path

LEMMA RenameKeeps ==
    ASSUME WritesInv, NEW t \in Threads, Rename(t)
    PROVE  WritesInv'
<1>1. PICK p, q :
        /\ p \in Paths /\ q \in Paths /\ p # q /\ inside[t] = {p, q}
        /\ note[p] # Missing /\ Return(t, "ok") /\ UNCHANGED <<bin, tick>>
        /\ note' = [note EXCEPT ![p] = Missing, ![q] = note[p]]
        /\ rev' = [rev EXCEPT ![p] = 0, ![q] = rev[p]]
        /\ by' = [by EXCEPT ![p] = by[p], ![q] = by[p]]
        /\ told' = [told EXCEPT ![p] = {}, ![q] = told[p]]
  BY RenameMoves
<1>2. /\ note' \in [Paths -> Notes \cup {Missing}] /\ rev' \in [Paths -> Nat]
      /\ by' \in [Paths -> Threads \cup {Editor}] /\ bin' \subseteq Nat
      /\ told' \in [Paths -> SUBSET Nat] /\ tick' \in Nat /\ tick <= tick'
  <2>1. note' \in [Paths -> Notes \cup {Missing}] /\ rev' \in [Paths -> Nat]
    BY <1>1, FileTypes
  <2>2. by' \in [Paths -> Threads \cup {Editor}]
    BY <1>1, FileTypes
  <2>3. told' \in [Paths -> SUBSET Nat]
    BY <1>1, FileTypes
  <2>. QED
    BY <1>1, <2>1, <2>2, <2>3, FileTypes
<1>3. RevisionsTell'
  BY <1>1 DEF WritesInv, TypeOK, RevisionsTell
<1>4. IdsAgree'
  BY <1>1 DEF WritesInv, TypeOK, IdsAgree
<1>5. \A r \in Paths : \/ r \in inside[t]
                       \/ /\ note'[r] = note[r] /\ rev'[r] = rev[r]
                          /\ by'[r] = by[r] /\ told'[r] = told[r]
  BY <1>1 DEF WritesInv, TypeOK
<1>. QED
  BY <1>1, <1>2, <1>3, <1>4, <1>5, ReturnKeeps

\* The editor writes a path: every thread that has seen the path can tell.
LEMMA EditorKeeps ==
    ASSUME WritesInv, NEW p \in Paths, EditorActs, NEW new \in Notes \cup {Missing},
           note' = [note EXCEPT ![p] = new], by' = [by EXCEPT ![p] = Editor],
           told' \in [Paths -> SUBSET Nat], tick' \in Nat, tick <= tick',
           \A q \in Paths : told'[q] \subseteq told[q],
           NEW r \in Nat, rev' = [rev EXCEPT ![p] = r],
           r = 0 <=> new = Missing, r = 0 \/ r = tick', r # 0 => tick < tick',
           \A i \in told'[p] : new # Missing /\ new.id = i
    PROVE  WritesInv'
<1>1. UNCHANGED <<bin, pc, call, seen, base, inside, calls>> /\ edits' = edits + 1
  BY DEF EditorActs
<1>2. TypeOK'
  BY <1>1 DEF WritesInv, TypeOK
<1>3. Excluded'
  BY <1>1 DEF WritesInv, Excluded
<1>4. tick \in Nat /\ \A q \in Paths : rev[q] \in Nat
  BY DEF WritesInv, TypeOK
<1>5. \A q \in Paths : /\ q # p => note'[q] = note[q] /\ rev'[q] = rev[q] /\ by'[q] = by[q]
                       /\ q = p => note'[q] = new /\ rev'[q] = r /\ by'[q] = Editor
  BY DEF WritesInv, TypeOK
<1>6. RevisionsTell'
  BY <1>4, <1>5 DEF WritesInv, RevisionsTell
<1>7. IdsAgree'
  BY <1>5 DEF WritesInv, IdsAgree
<1>8. ASSUME NEW u \in Threads PROVE ThreadSound(u)'
  <2>1. ThreadSound(u)
    BY DEF WritesInv
  <2>2. seen[u] \in Nat
    BY DEF WritesInv, TypeOK
  <2>3. pc[u] # "idle" => call[u].path \in Paths /\ call[u].to \in Paths
    BY <2>1 DEF ThreadSound, Called
  <2>4. inside'[u] = IF pc'[u] \in Working THEN PathsOf(u)' ELSE {}
    BY <1>1, <2>1 DEF ThreadSound, PathsOf
  <2>5. Called(u)'
    BY <1>1, <2>1 DEF ThreadSound, Called
  <2>6. Sighted(u)'
    BY <1>1, <1>4, <1>5, <2>1, <2>2, <2>3 DEF ThreadSound, Sighted
  <2>7. HasRead(u)'
    <3> SUFFICES ASSUME pc[u] \in {"recheck", "check", "touch"},
                        call[u].op \in Reading
                 PROVE  /\ base[u] # Missing
                        /\ rev'[call[u].path] = seen[u] =>
                              note'[call[u].path] = base[u]
                        /\ \A i \in told'[call[u].path] : base[u].id = i
                        /\ pc[u] \in {"check", "touch"} =>
                              Applicable(call[u].op, base[u])
      BY <1>1 DEF HasRead
    <3>1. seen[u] # 0 /\ seen[u] <= tick
      BY <2>1 DEF ThreadSound, Sighted, Reading, Merging
    <3>2. call[u].path = p => rev'[call[u].path] # seen[u]
      BY <1>4, <1>5, <2>2, <3>1
    <3>3. call[u].path \in Paths
      BY <2>3
    <3>. QED
      BY <1>5, <2>1, <3>2, <3>3 DEF ThreadSound, HasRead
  <2>. QED
    BY <2>4, <2>5, <2>6, <2>7 DEF ThreadSound
<1>. QED
  BY <1>2, <1>3, <1>6, <1>7, <1>8 DEF WritesInv

LEMMA EditKeeps ==
    ASSUME WritesInv, NEW p \in Paths, NEW byHand \in BOOLEAN, Edit(p, byHand)
    PROVE  WritesInv'
<1> DEFINE n == MaxActs + edits + 1
           saved == IF note[p] = Missing THEN Written(n) ELSE Appended(note[p], n)
           new == IF byHand THEN [saved EXCEPT !.field = "user"] ELSE saved
<1>1. n \in Nat /\ tick \in Nat
  BY BoundsAssumption DEF WritesInv, TypeOK
<1>. HIDE DEF n
<1>2. saved \in Notes /\ (note[p] # Missing => saved.id = note[p].id)
  <2>1. CASE note[p] = Missing
    BY <2>1, <1>1 DEF Written, Note, Notes
  <2>2. CASE note[p] # Missing
    <3>1. note[p] \in Notes
      BY <2>2 DEF WritesInv, TypeOK
    <3>. QED
      BY <2>2, <3>1, <1>1 DEF Appended, Notes
  <2>. QED
    BY <2>1, <2>2
<1>. HIDE DEF saved
<1>3. new \in Notes /\ (note[p] # Missing => new.id = note[p].id)
  BY <1>2 DEF Notes
<1>4. new # Missing
  BY <1>3, MissingAssumption DEF Notes
<1>5. /\ EditorActs /\ note' = [note EXCEPT ![p] = new]
      /\ rev' = [rev EXCEPT ![p] = tick + 1] /\ by' = [by EXCEPT ![p] = Editor]
      /\ tick' = tick + 1 /\ told' = told
  BY DEF Edit, saved, n
<1>. HIDE DEF new
<1>6. /\ told' \in [Paths -> SUBSET Nat]
      /\ \A i \in told'[p] : new # Missing /\ new.id = i
  BY <1>3, <1>4, <1>5 DEF WritesInv, TypeOK, IdsAgree
<1>7. /\ tick' \in Nat /\ tick <= tick' /\ tick < tick' /\ tick + 1 \in Nat
      /\ tick + 1 # 0
  BY <1>1, <1>5
<1>. QED
  BY <1>3, <1>4, <1>5, <1>6, <1>7, EditorKeeps

LEMMA RemoveKeeps ==
    ASSUME WritesInv, NEW p \in Paths, Remove(p)
    PROVE  WritesInv'
<1>1. /\ EditorActs /\ note' = [note EXCEPT ![p] = Missing]
      /\ rev' = [rev EXCEPT ![p] = 0] /\ by' = [by EXCEPT ![p] = Editor]
      /\ told' = [told EXCEPT ![p] = {}] /\ tick' = tick
  BY DEF Remove
<1>2. /\ told' \in [Paths -> SUBSET Nat] /\ told'[p] = {} /\ tick \in Nat
      /\ \A q \in Paths : told'[q] \subseteq told[q]
  BY <1>1 DEF WritesInv, TypeOK
<1>3. Missing \in Notes \cup {Missing} /\ 0 \in Nat /\ tick' \in Nat
      /\ tick <= tick'
  BY <1>1, <1>2
<1>4. \A i \in told'[p] : Missing # Missing /\ Missing.id = i
  BY <1>2
<1>. QED
  BY <1>1, <1>2, <1>3, <1>4, EditorKeeps

-----------------------------------------------------------------------------

LEMMA WritesNextKeeps ==
    ASSUME AllCoordinated, WritesInv, [Next]_vars
    PROVE  WritesInv'
<1>1. ASSUME NEW t \in Threads, Step(t) PROVE WritesInv'
  <2>1. CASE \E result : Reject(t, result)
    BY <2>1, RejectKeeps
  <2>2. CASE ~\E result : Reject(t, result)
    BY <1>1, <2>2, EnterLockKeeps, LookKeeps, ReadKeeps, MergeKeeps, CheckKeeps,
       ProviderKeeps, ReportIdKeeps, ReplaceKeeps, MoveToTrashKeeps, RenameKeeps
       DEF Step, LockTimeout, LookMissing, LookExists, RecheckConflict,
           NothingMissing, CheckConflict, MoveFails, Fail
  <2>. QED
    BY <2>1, <2>2
<1>2. ASSUME NEW t \in Threads, Calling(t) PROVE WritesInv'
  BY <1>2, CallKeeps DEF Calling
<1>3. CASE Editing
  BY <1>3, EditKeeps, RemoveKeeps DEF Editing
<1>4. CASE UNCHANGED vars
  BY <1>4 DEF vars, WritesInv, TypeOK, Excluded, RevisionsTell, IdsAgree,
     ThreadSound, Called, Sighted, HasRead, PathsOf
<1>. QED
  BY <1>1, <1>2, <1>3, <1>4 DEF Next

\* Wherever the path locks coordinate the writers, every call works under the
\* locks of its paths and gives them back on every way out, and the ids that
\* ensure_note_id has reported are the notes', whatever the editor does.
THEOREM CallsAlwaysSound == ASSUME AllCoordinated PROVE Spec => []CallsSound
<1>1. WritesInv => CallsSound
  BY DEF WritesInv, CallsSound, LocksBracketWork, ThreadSound
<1>. QED
  BY WritesInitInv, WritesNextKeeps, <1>1, PTL DEF Spec

(***************************************************************************)
(* The steps that change notes                                             *)
(***************************************************************************)

LEMMA WhoChangesFiles ==
    ASSUME WritesInv, [Next]_vars
    PROVE  \/ UNCHANGED <<note, bin>>
           \/ edits' # edits
           \/ \E t \in Threads : Replace(t) \/ MoveToTrash(t) \/ Rename(t)
<1>1. ASSUME NEW t \in Threads, Step(t), ~Replace(t), ~MoveToTrash(t), ~Rename(t)
      PROVE  UNCHANGED <<note, bin>>
  BY <1>1 DEF Step, EnterLock, LockTimeout, LookMissing, LookExists, Look, Read,
     RecheckConflict, ReportId, NothingMissing, AskProvider, ProviderAnswers,
     Merge, CheckConflict, Check, MoveFails, Fail, Reject, files
<1>2. ASSUME NEW t \in Threads, Calling(t) PROVE UNCHANGED <<note, bin>>
  BY <1>2 DEF Calling, Call, files
<1>3. CASE Editing
  <2>1. EditorActs
    BY <1>3 DEF Editing, Edit, Remove
  <2>2. edits \in Nat /\ edits' = edits + 1
    BY <2>1 DEF EditorActs, WritesInv, TypeOK
  <2>. QED
    BY <2>2
<1>4. CASE UNCHANGED vars
  BY <1>4 DEF vars
<1>. QED
  BY <1>1, <1>2, <1>3, <1>4 DEF Next

\* The last step of a call that changes a note.
LEMMA TouchesOrNot ==
    ASSUME WritesInv, NEW t \in Threads,
           Replace(t) \/ MoveToTrash(t) \/ Rename(t)
    PROVE  pc[t] = "touch" /\ (note' = note \/ Touches(t))
<1>1. pc[t] = "touch" /\ pc' = [pc EXCEPT ![t] = "idle"]
  BY DEF Replace, MoveToTrash, Rename, Return, Goto
<1>2. pc'[t] = "idle"
  BY <1>1 DEF WritesInv, TypeOK
<1>. QED
  BY <1>1, <1>2 DEF Touches

\* A call that the editor has not raced acts on the note it has seen.
LEMMA NotRaced ==
    ASSUME WritesInv, NEW t \in Threads, pc[t] = "touch", ~EditorRaced(t)
    PROVE  /\ rev[call[t].path] = seen[t]
           /\ call[t].op = "create" => note[call[t].path] = Missing
           /\ call[t].op = "move" => note[call[t].to] = Missing
           /\ call[t].op \in Merging =>
                /\ note[call[t].path] = base[t] /\ base[t] \in Notes
                /\ base[t] # Missing
                /\ Applicable(call[t].op, base[t])
<1>1. /\ call[t].path \in Paths /\ call[t].to \in Paths
      /\ Sighted(t) /\ HasRead(t)
  BY AtTouch
<1>2. rev[call[t].path] = seen[t]
  BY <1>1 DEF Sighted, EditorRaced, Path
<1>3. call[t].op = "create" => note[call[t].path] = Missing
  BY <1>1, <1>2 DEF Sighted, WritesInv, RevisionsTell
<1>4. call[t].op = "move" => note[call[t].to] = Missing
  BY <1>1 DEF Sighted, WritesInv, RevisionsTell, EditorRaced, Op
<1>5. call[t].op \in Merging =>
                /\ note[call[t].path] = base[t] /\ base[t] # Missing
                /\ Applicable(call[t].op, base[t])
  BY <1>1, <1>2 DEF HasRead, Reading
<1>6. base[t] \in Notes \cup {Missing}
  BY DEF WritesInv, TypeOK
<1>. QED
  BY <1>2, <1>3, <1>4, <1>5, <1>6

\* The result depends on the note only where there has to be one.
LEMMA ReplaceIsMutate ==
    ASSUME WritesInv, NEW t \in Threads, Replace(t), ~EditorRaced(t)
    PROVE  Store!Next
<1> DEFINE p == call[t].path
           op == call[t].op
           n == call[t].mark
<1>1. /\ pc[t] = "touch" /\ op \in Writing
      /\ note' = [note EXCEPT ![p] = Result(op, base[t], n)] /\ bin' = bin
  BY DEF Replace, Op, Path
<1>2. p \in Paths /\ n \in 1..MaxActs
  BY <1>1, AtTouch
<1>3. /\ op = "create" => note[p] = Missing
      /\ op \in Merging => note[p] = base[t] /\ Applicable(op, base[t])
  BY <1>1, NotRaced
<1>4. Applicable(op, note[p]) /\ Result(op, base[t], n) = Result(op, note[p], n)
  <2>1. CASE op \in Merging
    BY <1>3, <2>1
  <2>2. CASE op \in {"create", "write"}
    BY <1>3, <2>2 DEF Applicable, Result, Merging
  <2>. QED
    BY <1>1, <2>1, <2>2 DEF Writing
<1>5. Store!Applicable(op, note[p])
  BY <1>4 DEF Applicable, Store!Applicable, Merging, Store!Merging
<1>6. n \in Marks
  BY <1>2, BoundsAssumption DEF Marks
<1>7. \A q, m : Store!Result(op, q, m) = Result(op, q, m)
  BY DEF Store!Result, Result, Store!Created, Created, Store!Written, Written,
     Store!Appended, Appended, Store!Updated, Updated, Store!Replaced, Replaced,
     Store!Identified, Identified, Store!Filled, Filled, Store!Note, Note
<1>8. Store!Mutate(op, p, n)
  BY <1>1, <1>4, <1>5, <1>7 DEF Store!Mutate
<1>9. op \in Store!Writing
  BY <1>1 DEF Writing, Merging, Store!Writing, Store!Merging
<1>. QED
  BY <1>2, <1>6, <1>8, <1>9 DEF Store!Next

LEMMA TrashIsDelete ==
    ASSUME WritesInv, NEW t \in Threads, MoveToTrash(t)
    PROVE  Store!Next
<1>1. pc[t] = "touch" /\ Store!Delete(call[t].path)
  BY DEF MoveToTrash, Path, Store!Delete, Store!MarksOf, MarksOf
<1>. QED
  BY <1>1, AtTouch DEF Store!Next

LEMMA RenameIsMove ==
    ASSUME WritesInv, NEW t \in Threads, Rename(t), ~EditorRaced(t)
    PROVE  Store!Next
<1>1. pc[t] = "touch" /\ call[t].op = "move"
  BY DEF Rename, Op
<1>2. note[call[t].to] = Missing
  BY <1>1, NotRaced
<1>3. /\ note[call[t].path] # Missing /\ UNCHANGED bin
      /\ note' = [note EXCEPT ![call[t].path] = Missing,
                              ![call[t].to] = note[call[t].path]]
  BY RenameMoves
<1>4. Store!Move(call[t].path, call[t].to)
  BY <1>2, <1>3 DEF Store!Move
<1>. QED
  BY <1>1, <1>4, AtTouch DEF Store!Next

\* The refinement: each call that changes a note is one step of the abstract
\* store on the note as it is at that moment, unless the editor wrote the
\* note between the call's last look and its replacement.
THEOREM WritesImplementStore ==
    ASSUME AllCoordinated PROVE Spec => ImplementsStore
<1>1. Init => Store!Init
  BY DEF Init, InitialNotes, Store!Init, Store!Written, Written, Store!Note, Note
<1>2. ASSUME WritesInv, [Next]_vars
      PROVE  [\/ Store!Next
              \/ edits' # edits
              \/ \E t \in Threads : Touches(t) /\ EditorRaced(t)]_<<note, bin>>
  <2>1. ASSUME NEW t \in Threads, Replace(t) \/ MoveToTrash(t) \/ Rename(t),
               ~(Touches(t) /\ EditorRaced(t))
        PROVE  Store!Next \/ UNCHANGED <<note, bin>>
    <3>1. CASE ~EditorRaced(t)
      BY <1>2, <2>1, <3>1, ReplaceIsMutate, TrashIsDelete, RenameIsMove
    <3>2. CASE ~Touches(t)
      <4>1. note' = note
        BY <1>2, <2>1, <3>2, TouchesOrNot
      <4>2. CASE MoveToTrash(t)
        BY <1>2, <4>2, TrashIsDelete
      <4>3. CASE Replace(t) \/ Rename(t)
        BY <4>1, <4>3 DEF Replace, Rename
      <4>. QED
        BY <2>1, <4>2, <4>3
    <3>. QED
      BY <2>1, <3>1, <3>2
  <2>. QED
    BY <1>2, <2>1, WhoChangesFiles
<1>. QED
  BY <1>1, <1>2, WritesInitInv, WritesNextKeeps, PTL DEF Spec, ImplementsStore

\* A fill that the editor has not raced finds the field empty.
THEOREM EnrichmentAlwaysKeepsFields ==
    ASSUME AllCoordinated PROVE Spec => EnrichmentKeepsFields
<1>1. ASSUME WritesInv, NEW t \in Threads, Touches(t), Op(t) = "fill",
             ~EditorRaced(t)
      PROVE  note[Path(t)].field = "none"
  <2>1. pc[t] = "touch" /\ call[t].op = "fill"
    BY <1>1 DEF Touches, Op
  <2>2. note[call[t].path] = base[t] /\ Applicable("fill", base[t])
    BY <1>1, <2>1, NotRaced DEF Merging
  <2>. QED
    BY <2>2 DEF Applicable, Path
<1>2. WritesInv /\ [Next]_vars =>
        [\A t \in Threads :
          Touches(t) /\ Op(t) = "fill" /\ ~EditorRaced(t) =>
              note[Path(t)].field = "none"]_vars
  BY <1>1
<1>. QED
  BY <1>2, WritesInitInv, WritesNextKeeps, PTL DEF Spec, EnrichmentKeepsFields

\* What a merging call writes has the text of what it has read.
LEMMA MergeKeepsMarks ==
    ASSUME NEW old \in Notes, NEW n,
           NEW op \in {"append", "update", "ensure", "fill"},
           old # Missing, Result(op, old, n) # Missing
    PROVE  MarksOf(old) \subseteq MarksOf(Result(op, old, n))
<1>1. /\ old.body \subseteq Result(op, old, n).body
      /\ old.meta \subseteq Result(op, old, n).meta
  BY DEF Result, Appended, Updated, Identified, Filled, Notes
<1>. QED
  BY <1>1 DEF MarksOf

\* Text at a path is kept when it stays, moves or goes to the trash.
LEMMA KeptBy ==
    ASSUME bin \subseteq bin',
           \A p \in Paths :
              \/ MarksOf(note[p]) \subseteq bin'
              \/ \E q \in Paths : MarksOf(note[p]) \subseteq MarksOf(note'[q])
    PROVE  Kept \subseteq Kept'
BY DEF Kept

LEMMA UnracedKeeps ==
    ASSUME WritesInv, NEW t \in Threads,
           Replace(t) \/ MoveToTrash(t) \/ Rename(t), ~EditorRaced(t),
           call[t].op \notin {"write", "replace"}
    PROVE  Kept \subseteq Kept'
<1>. USE FileTypes
<1>1. CASE MoveToTrash(t)
  <2>1. /\ bin' = bin \cup MarksOf(note[call[t].path])
        /\ note' = [note EXCEPT ![call[t].path] = Missing]
    BY <1>1 DEF MoveToTrash, Path
  <2>2. \A p \in Paths : \/ MarksOf(note[p]) \subseteq bin'
                         \/ MarksOf(note[p]) \subseteq MarksOf(note'[p])
    BY <2>1
  <2>. QED
    BY <2>1, <2>2, KeptBy
<1>2. CASE Rename(t)
  <2>1. PICK p, q : /\ p \in Paths /\ q \in Paths /\ p # q /\ UNCHANGED bin
                    /\ p = call[t].path /\ q = call[t].to
                    /\ note' = [note EXCEPT ![p] = Missing, ![q] = note[p]]
    BY <1>2, RenameMoves
  <2>2. note[q] = Missing
    BY <1>2, <2>1, NotRaced DEF Rename, Op
  <2>3. MarksOf(note[q]) = {}
    BY <2>2 DEF MarksOf
  <2>4. MarksOf(note[p]) \subseteq MarksOf(note'[q])
    BY <2>1
  <2>5. \A r \in Paths : r # p /\ r # q => note'[r] = note[r]
    BY <2>1
  <2>6. \A r \in Paths : \/ MarksOf(note[r]) \subseteq bin'
                         \/ \E s \in Paths : MarksOf(note[r]) \subseteq MarksOf(note'[s])
    BY <2>1, <2>3, <2>4, <2>5
  <2>. QED
    BY <2>1, <2>6, KeptBy
<1>3. CASE Replace(t)
  <2> DEFINE p == call[t].path
             new == Result(call[t].op, base[t], call[t].mark)
  <2>1. /\ pc[t] = "touch" /\ call[t].op \in Writing /\ UNCHANGED bin
        /\ note' = [note EXCEPT ![p] = new]
    BY <1>3 DEF Replace, Op, Path
  <2>2. p \in Paths /\ call[t].mark \in Nat /\ base[t] \in Notes \cup {Missing}
    BY <2>1, AtTouch DEF WritesInv, TypeOK
  <2>3. MarksOf(note[p]) \subseteq MarksOf(new)
    <3>1. CASE call[t].op = "create"
      BY <2>1, <3>1, NotRaced DEF MarksOf
    <3>2. CASE call[t].op # "create"
      <4>1. call[t].op \in {"append", "update", "ensure", "fill"}
        BY <2>1, <3>2 DEF Writing, Merging
      <4>2. note[p] = base[t] /\ base[t] \in Notes /\ base[t] # Missing
        BY <2>1, <4>1, NotRaced DEF Merging
      <4>3. new # Missing
        BY <2>1, <2>2, <4>2, ResultIsNote
      <4>. QED
        BY <4>1, <4>2, <4>3, MergeKeepsMarks
    <3>. QED
      BY <3>1, <3>2
  <2>. HIDE DEF p, new
  <2>4. \A q \in Paths : MarksOf(note[q]) \subseteq MarksOf(note'[q])
    BY <2>1, <2>2, <2>3
  <2>. QED
    BY <2>1, <2>4, KeptBy
<1>. QED
  BY <1>1, <1>2, <1>3

\* No append, merge, id, enrichment, move, deletion or creation loses what
\* another call has written, for any number of writers.
THEOREM NothingIsLost == ASSUME AllCoordinated PROVE Spec => NothingLost
<1> DEFINE Keeps ==
              \/ Kept \subseteq Kept'
              \/ edits' # edits
              \/ \E t \in Threads :
                    /\ Touches(t)
                    /\ \/ Op(t) \in {"write", "replace"} /\ seen[t] = rev[Path(t)]
                       \/ EditorRaced(t)
<1>1. ASSUME WritesInv, [Next]_vars PROVE Keeps
  <2>1. CASE UNCHANGED <<note, bin>>
    BY <2>1 DEF Kept
  <2>2. ASSUME NEW t \in Threads, Replace(t) \/ MoveToTrash(t) \/ Rename(t)
        PROVE  Keeps
    <3>1. pc[t] = "touch" /\ (note' = note \/ Touches(t)) /\ bin \subseteq bin'
      BY <1>1, <2>2, TouchesOrNot DEF Replace, MoveToTrash, Rename
    <3>2. CASE note' = note
      BY <3>1, <3>2 DEF Kept
    <3>3. CASE Touches(t) /\ EditorRaced(t)
      BY <3>3
    <3>4. CASE Touches(t) /\ ~EditorRaced(t) /\ call[t].op \in {"write", "replace"}
      <4>1. rev[call[t].path] = seen[t]
        BY <1>1, <3>1, <3>4, NotRaced
      <4>. QED
        BY <3>4, <4>1 DEF Op, Path
    <3>5. CASE ~EditorRaced(t) /\ call[t].op \notin {"write", "replace"}
      BY <1>1, <2>2, <3>5, UnracedKeeps
    <3>. QED
      BY <3>1, <3>2, <3>3, <3>4, <3>5
  <2>. QED
    BY <1>1, <2>1, <2>2, WhoChangesFiles
<1>2. WritesInv /\ [Next]_vars => [Keeps]_vars
  BY <1>1
<1>. QED
  BY <1>2, WritesInitInv, WritesNextKeeps, PTL DEF Spec, NothingLost
=============================================================================
