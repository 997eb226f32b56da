CONSTANTS
    Keys = {k1, k2}
    Ttls = {0, 1, 2}
    MaxTime = 3
    MaxPuts = 2
    MaxRemoves = 2
SPECIFICATION FairSpec
INVARIANT HeapCoversMap
PROPERTIES ImplementsTtlMap CoveredEntriesAreErased StopReturns
