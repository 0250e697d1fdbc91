SPECIFICATION FairSpec
CONSTANTS
    Buyer = {b1, b2}
    TTL = 3
    Fresh = 2
    SignTime = 1
    MaxSessions = 3
    MaxKeys = 2
    MaxStops = 2
    MaxFaults = 1
INVARIANTS
    TypeOK
    DocumentVerifies
    ServedLive
PROPERTY EventuallyIn
