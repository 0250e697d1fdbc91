SPECIFICATION FairSpec
CONSTANTS
    Buyer = {b1, b2}
    TTL = 2
    PriceLife = 3
    SweepEvery = 1
    MaxIntents = 2
    MaxCrashes = 2
    MaxFaults = 2
INVARIANTS
    TypeOK
    StoreMatchesLedger
PROPERTIES
    ImplementsContract
    EventuallyEnds
