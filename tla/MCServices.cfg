CONSTANTS
    n1 = n1
    n2 = n2
    c1 = c1
    c2 = c2
    l1 = l1
    l2 = l2
    t1 = t1
    t2 = t2
    d1 = d1
    d2 = d2
    MaxSignals = 2
    Raising = {"watcher"}
    Clients = {c1, c2}
    MaxJobs = 3
    MaxPaths = 2
    MaxPending = 1
    MaxHistory = 1
    MaxResults = 1
    Notes = {n1, n2}
    Loops = {l1, l2}
    MaxChanges <- OneChangesTwice
    MaxFailures = 1
    MaxStops = 1
    Unread = Unread
    Threads = {t1, t2}
    NoThread = NoThread
    MaxCalls = 2
    MaxFlips = 1
    MaxFaults = 1
    MaxAttempts = 2
    Daemons = {d1, d2}
    NoDaemon = NoDaemon
    MaxRequests = 1
SPECIFICATION Spec
INVARIANTS
    ShutdownSound
    JobsSound
    ModelsSound
    DaemonSound
PROPERTIES
    SignalHeeded
    AcceptedEnds
    CatalogReconciles
    ModelsReleased
    
CHECK_DEADLOCK FALSE
