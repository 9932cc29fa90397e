CONSTANTS
    Searchers = {s1, s2}
    Queries = {q1, q2, q3}
    NoTable = NoTable
    CacheSize = 2
    MaxSearches = 3
    MaxCommits = 2
    Notes <- NoteNumbers
    NoNote = NoNote
    NoName = NoName
    FullName <- FullNames
    StemName <- StemNames
    Aliases <- NoteAliases
    Bodies <- LinkBodies
    Limits = {1, 2}
    Vertices = {1, 2, 3, 4, 5}
    SelfLinked = {2}
    MinSizes = {2, 3}
    Rows = {1, 2, 3, 4}
    Key <- RowKeys
    Note <- RowNotes
    RrfK = 60
    Scale <- ScoreScale
    CandidatesMin = 2
    CandidatesMax = 3
    CandidatesTimes = 2
    RerankMax = 2
    RerankTimes = 2
    TopKs = {1, 2, 3}
    Scores = {0, 1}
    Peers = {1, 2, 3, 4}
    QueryNotes = {1, 2, 3}
    Times = {1, 2, 3}
    Folders <- NestedFolders
    Depths = {1, 2, 3}
    Tags <- TagNames
    Lower <- LowerTags
    Like <- LikeTags
    TagLists <- ListsOfTags
    QueryLimits = {1, 2}
    Shapes <- TextShapes
    Sizes = {2, 4}
    Overlaps = {0, 1, 3}
    NoteBodies <- LineBodies
    HeaderLevels = 3
    MetadataNotes = {m1, m2}
    Readers = {r1, r2}
    MaxSize = 2
    MaxSaves = 3
    MaxReads = 3
    MaxReadFaults = 1
SPECIFICATION Spec
INVARIANTS
    CachesSound
    
    GraphAnswersCorrect
    
    
    ChunkingCorrect
CHECK_DEADLOCK FALSE
