SPECIFICATION FairSpec
CONSTANTS
    confA = confA
    confB = confB
    Configs = {confA, confB}
    V1Config = confA
    Orders <- AllOrders
    Windows = {w1, w2}
    CmdCap = 2
    MaxSlips = 1
INVARIANTS
    TypeOK
    TasksRunSaved
    EditingIsQuiet
    PauseHasOwner
    ConfigKept
PROPERTIES
    QuitExits
