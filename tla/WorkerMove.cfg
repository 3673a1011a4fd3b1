SPECIFICATION Spec
CONSTANTS
    p1 = p1
    p2 = p2
    w1 = w1
    w2 = w2
    Paths <- MCPaths
    Contents = {1}
    Workers <- MCWorkers
    MaxAttempts = 2
    Permanent = FALSE
    MaxChanges = 1
    MaxFaults = 0
SYMMETRY Symmetries
INVARIANTS
    MovedIsMirrored
CHECK_DEADLOCK FALSE
