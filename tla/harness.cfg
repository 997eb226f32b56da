CONSTANTS
    NumTests = 4
    Detached = {2}
    Forking = {0}
    Queueing = {1}
    Early = {3}
    Parallel = 2
    QueueSize = 2
    TestMayThrow = TRUE
    SetupMayFail = TRUE
    SubmitMayFail = TRUE
SPECIFICATION FairSpec
INVARIANTS TestsUseLiveObjects NothingOutlivesMain LastWordsAreWritten
PROPERTIES EarlyFinishIsComplete MainEnds
