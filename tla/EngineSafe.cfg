SPECIFICATION Spec
CONSTANTS
    Commands <- AllCommands
    CmdCap = 1
    ChanCap = 1
    MaxWorkers = 2
    RescanOn = TRUE
    Relogin = TRUE
    MaxTasks = 3
INVARIANTS
    TypeOK
    TasksCounted
    ActiveIsWorking
    CutScanIsRedone
    PauseIsTold
PROPERTIES
    QuietWhilePaused
    ImplementsLifecycle
CHECK_DEADLOCK FALSE
