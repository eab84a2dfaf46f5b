SPECIFICATION Spec
CONSTANTS
    MaxEvents = 4
    MaxAppend = 2
    Rejected = {1, 2}
    CompactThreshold = 2
    CacheLimit = 1
    MaxKills = 2
    MaxPowerLosses = 1
INVARIANTS
    TypeOK
    NoLoss
    PendingIsJournalTail
    FailedOnce
    RecordedCountExact
PROPERTY
    ImplementsQueue
