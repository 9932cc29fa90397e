CONSTANTS
    n1 = n1
    n2 = n2
    t1 = t1
    t2 = t2
    NoNote = NoNote
    Free = Free
    Notes = {n1, n2}
    Blank = {n2}
    Threads = {t1, t2}
    Calls <- NoteAndFull
    MaxTime = 2
    MaxFaults = 2
SPECIFICATION Spec
SYMMETRY Symmetry
INVARIANTS
    IndexSound
PROPERTIES
    FailureRestores
    CommitsMoveForward
CHECK_DEADLOCK FALSE
