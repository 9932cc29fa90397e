CONSTANTS
    n1 = n1
    n2 = n2
    g1 = g1
    g2 = g2
    Notes = {n1}
    Generations = {g1}
    Tool = Tool
    None = None
    MaxAttempts = 3
    MaxTokens = 1
    MaxWrites <- TwoEach
SPECIFICATION Spec
CHECK_DEADLOCK FALSE
INVARIANTS
    WatcherRecovers
