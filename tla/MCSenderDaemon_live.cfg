\* Three events, the first two too large together, the second invalid, the third
\* refused by the database; a kill and a stop.
SPECIFICATION FairSpec
CONSTANTS
    MaxEvents = 3
    MaxTick = 1
    BatchCap = 2
    SizeOf <- MCSizes3
    SoftLimit = 3
    HardLimit = 2
    PendingLimit = 2
    Interval = 1
    Rejected = {2}
    Poisoned = {3}
    MaxStrays = 0
    MaxKills = 1
    MaxStops = 1
PROPERTIES
    StopEnds
    Delivered
