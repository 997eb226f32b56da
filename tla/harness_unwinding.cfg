CONSTANTS
    NumTests = 2
    Detached = {1}
    Forking = {0}
    Queueing = {}
    Early = {}
    Parallel = 2
    QueueSize = 2
    TestMayThrow = FALSE
    SetupMayFail = FALSE
    SubmitMayFail = TRUE
SPECIFICATION FairSpec
PROPERTIES ExceptionEndsMain
CHECK_DEADLOCK FALSE
