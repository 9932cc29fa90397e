CONSTANTS
    t1 = t1
    t2 = t2
    p1 = p1
    p2 = p2
    a = a
    b = b
    Threads = {t1, t2}
    Processes = {p1, p2}
    ProcessOf <- TwoProcesses
    Fcntl = TRUE
    Paths = {a, b}
    Missing = Missing
    NoId = NoId
    Editor = Editor
    MaxActs = 3
    MaxEdits = 1
SPECIFICATION Spec
CHECK_DEADLOCK FALSE
SYMMETRY Symmetry
INVARIANTS
    CallsSound
PROPERTIES
    ImplementsStore
    NothingLost
    
