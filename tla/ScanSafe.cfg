SPECIFICATION Spec
CONSTANTS
    d = d
    g = g
    Dirs = {d}
    Files = {g}
    Parent <- FolderOf
    MaxChanges = 3
    MaxFaults = 1
INVARIANTS
    TypeOK
    ScanRepairs
    DeletesAbsent
    OneCopy
    ParentCached
