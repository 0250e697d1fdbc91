SPECIFICATION Spec
CONSTANTS
    HotAge = 1
    ArchiveAge = 1
    AnchorEvery = 1
    RetentionEvery = 2
    MaxTime = 6
    MaxTraffic = 1
    MaxCrashes = 2
    MaxFaults = 1
INVARIANTS
    TypeOK
    ChainLinked
    AnchorsPinChain
    RestartAccepted
    ArchiveTiles
    HealthHonest
    StorageLimited
CHECK_DEADLOCK FALSE
