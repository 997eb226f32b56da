CONSTANTS
    Producers = {p1, p2}
    Consumers = {c1, c2}
    MaxQueueSize = 2
    MaxItems = 3
    SpawnMayFail = TRUE
SPECIFICATION Spec
INVARIANT FailedStartIsExceptionSafe
