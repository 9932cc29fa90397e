CONSTANTS
    n1 = n1
    n2 = n2
    g1 = g1
    g2 = g2
    Notes = {n1, n2}
    Generations = {g1, g2}
    Tool = Tool
    None = None
    MaxAttempts = 1
    MaxTokens = 1
    MaxWrites <- OneEach
SPECIFICATION Spec
CHECK_DEADLOCK FALSE
SYMMETRY Symmetry
INVARIANTS
    WatchSound
    ChangesCovered
