SPECIFICATION Spec
CONSTANTS
    HotAge = 2
    ArchiveAge = 1
    AnchorEvery = 1
    RetentionEvery = 2
    MaxTime = 2
    MaxTraffic = 1
    MaxCrashes = 1
    MaxFaults = 0
INVARIANT RestartableWhileServing
CHECK_DEADLOCK FALSE
