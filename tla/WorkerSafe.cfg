SPECIFICATION Spec
CONSTANTS
    p1 = p1
    p2 = p2
    w1 = w1
    w2 = w2
    Paths <- MCPaths
    Contents = {1, 2, 3}
    Workers <- MCWorkers
    MaxAttempts = 2
    Permanent = FALSE
    MaxChanges = 2
    MaxFaults = 1
SYMMETRY Symmetries
INVARIANTS
    TypeOK
    MirrorKept
    OneDriveFile
    CacheSound
    SkipIsSound
CHECK_DEADLOCK FALSE
