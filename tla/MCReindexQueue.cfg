CONSTANTS
    k1 = k1
    k2 = k2
    k3 = k3
    c1 = c1
    c2 = c2
    w1 = w1
    w2 = w2
    Keys = {k1, k2, k3}
    NoKey = NoKey
    Clients = {c1}
    Workers = {w1, w2}
    NoWorker = NoWorker
    MaxPending = 2
    MaxEdits <- OneChangesTwice
SPECIFICATION FairSpec
INVARIANTS
    QueueSound
    NoLostChange
    DrainedOnStop
PROPERTIES
    ImplementsCoalescing
    WorkerProgress
CHECK_DEADLOCK FALSE
