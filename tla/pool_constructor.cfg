CONSTANTS
    Workers = {w1, w2}
    Clients = {main, other}
    Owner = main
    MaxTasks = 1
    MayThrow = FALSE
    SpawnMayFail = TRUE
SPECIFICATION Spec
INVARIANT ConstructionIsExceptionSafe
