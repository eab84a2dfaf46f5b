SPECIFICATION FairSpec
CONSTANTS
    MaxEvents = 3
    MaxAppend = 2
    Rejected = {1, 2, 3}
    CompactThreshold = 2
    CacheLimit = 1
    MaxKills = 2
    MaxPowerLosses = 0
INVARIANTS
    RefusedAreKept
PROPERTIES
    ServesAgain
