SPECIFICATION Spec
CONSTANTS
    MaxEvents = 2
    MaxAppend = 1
    Rejected = {1, 2}
    CompactThreshold = 2
    CacheLimit = 1
    MaxKills = 1
    MaxPowerLosses = 1
INVARIANTS
    RefusedAreDurable
