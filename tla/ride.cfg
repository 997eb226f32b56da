CONSTANTS
    Dispatchers = {d1, d2}
    Observers = {o1}
    MaxPending = 2
    MaxChanges = 3
SPECIFICATION FairSpec
INVARIANTS
    QueueTellsTheRide HeardExactlyOnce UnsubscribedHearNoNewRound ShutdownDrains
PROPERTIES DestructorReturns ChangesGetDispatched
