CONSTANTS
    n1 = n1
    n2 = n2
    t1 = t1
    t2 = t2
    NoNote = NoNote
    Free = Free
    Notes = {n1}
    Blank = {}
    Threads = {t1, t2}
    Calls <- SyncBesideWriter
    MaxTime = 3
    MaxFaults = 1
SPECIFICATION FairSpec

    
PROPERTIES
    LockReleased
CHECK_DEADLOCK FALSE
