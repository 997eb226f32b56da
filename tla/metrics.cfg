CONSTANTS
    WorkersCount = 2
    EventBatchSize = 2
    MaxEvents = 4
    MayThrow = TRUE
    SpawnMayFail = TRUE
SPECIFICATION FairSpec
INVARIANTS TypeOK EventsAccounted RunTellsTheTruth LastReportMissesOneBatch
PROPERTY RunEnds
