SPECIFICATION FairSpec
CONSTANTS
    Commands <- FewCommands
    CmdCap = 1
    ChanCap = 1
    MaxWorkers = 1
    RescanOn = TRUE
    Relogin = TRUE
    MaxTasks = 3
PROPERTIES
    ShutdownHeard
    
    
    
CHECK_DEADLOCK FALSE
