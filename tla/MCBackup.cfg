\* The machine from any volume, two backups, three faults.
SPECIFICATION FairSpec
CONSTANTS
    ConfFiles <- MCConfFiles
    MaxFaults = 3
    MaxBackups = 2
INVARIANTS
    ServesPreparedCluster
    NamesArePromises
PROPERTIES
    NothingIsReplaced
    ComesUp
