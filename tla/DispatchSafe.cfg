SPECIFICATION Spec
CONSTANTS
    Paths = {p1, p2}
    WatchCap = 3
    ChanCap = 1
    MaxWorkers = 1
    MaxChanges = 2
SYMMETRY Symmetry
INVARIANTS
    TypeOK
    NoChangeForgotten
    LiveOrder
