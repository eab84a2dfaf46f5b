\* Four events, the second too large alone, the third invalid; a kill and a stop.
SPECIFICATION Spec
CONSTANTS
    MaxEvents = 4
    MaxTick = 2
    BatchCap = 3
    SizeOf <- MCSizes4
    SoftLimit = 5
    HardLimit = 2
    PendingLimit = 2
    Interval = 1
    Rejected = {3}
    Poisoned = {4}
    MaxStrays = 1
    MaxKills = 1
    MaxStops = 1
INVARIANTS
    TypeOK
    NothingLost
    FailedForCause
    SplitIsRespected
    DrainMatchesBacklog
PROPERTIES
    UsesQueue
    PartialBatchesAreAged
