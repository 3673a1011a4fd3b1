SPECIFICATION FairSpec
CONSTANTS
    Commands <- FewCommands
    CmdCap = 1
    ChanCap = 1
    MaxWorkers = 1
    RescanOn = FALSE
    Relogin = FALSE
    MaxTasks = 2
PROPERTIES
    ShutdownStops
CHECK_DEADLOCK FALSE
