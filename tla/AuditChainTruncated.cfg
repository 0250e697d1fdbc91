SPECIFICATION Spec
CONSTANTS
    HotAge = 2
    ArchiveAge = 1
    AnchorEvery = 1
    RetentionEvery = 2
    MaxTime = 5
    MaxTraffic = 2
    MaxCrashes = 1
    MaxFaults = 1
INVARIANT AnchoredEntriesKept
CHECK_DEADLOCK FALSE
