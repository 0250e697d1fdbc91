SPECIFICATION FairSpec
CONSTANTS
    Cycle = {c1, c2}
    MaxSeq = 2
    MaxRecords = 3
    MaxCrashes = 1
    MaxFaults = 2
INVARIANTS
    TypeOK
    NothingDropped
    ManifestTrue
    PutOnce
PROPERTY EventuallyExternal
CHECK_DEADLOCK FALSE
