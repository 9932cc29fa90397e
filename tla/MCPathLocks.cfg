CONSTANTS
    t1 = t1
    t2 = t2
    t3 = t3
    p1 = p1
    p2 = p2
    Threads = {t1, t2, t3}
    Processes = {p1, p2}
    ProcessOf <- TwoProcesses
    Paths = {1, 2}
    Fcntl = TRUE
    Free = Free
    MaxArgs = 2
SPECIFICATION FairSpec
INVARIANTS
    LocksSound
    DeadlockFree
PROPERTIES
    ImplementsExclusion
    CallEnds
