CONSTANTS
    n1 = n1
    n2 = n2
    t1 = t1
    t2 = t2
    NoNote = NoNote
    Free = Free
    Notes = {n1}
    Blank = {}
    Threads = {t1, t2}
    Calls <- NoteAndFull
    MaxTime = 1
    MaxFaults = 0
SPECIFICATION Spec
PROPERTIES
    RebuildKeepsIndexedNotes
CHECK_DEADLOCK FALSE
