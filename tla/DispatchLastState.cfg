SPECIFICATION Spec
CONSTANTS
    Paths = {p1, p2}
    WatchCap = 3
    ChanCap = 2
    MaxWorkers = 1
    MaxChanges = 2
INVARIANTS
    LastStateWins
