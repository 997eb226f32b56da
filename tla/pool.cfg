CONSTANTS
    Workers = {w1, w2}
    Clients = {main, other}
    Owner = main
    MaxTasks = 3
    MayThrow = TRUE
    SpawnMayFail = TRUE
SPECIFICATION FairSpec
INVARIANTS TypeOK TasksAccounted ExceptionKept DestroyedIsDrained
PROPERTIES
    WaitTellsTheTruth ImplementsExecutor DestructorEnds MakesProgress
