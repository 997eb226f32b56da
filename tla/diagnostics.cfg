CONSTANTS
    MaxIterations = 4
    SpawnMayFail = TRUE
SPECIFICATION FairSpec
INVARIANTS TypeOK ReporterSeesWholeIterations LinesAccounted SummaryIsExact
PROPERTIES RunEnds
