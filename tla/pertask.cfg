CONSTANTS
    Caller = main
    MaxTasks = 4
    MayThrow = TRUE
    SpawnMayFail = TRUE
SPECIFICATION FairSpec
INVARIANT NoThreadDropped
PROPERTY ImplementsExecutor
