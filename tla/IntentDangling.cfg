SPECIFICATION Spec
CONSTANTS
    Buyer = {b1, b2}
    TTL = 2
    PriceLife = 3
    SweepEvery = 1
    MaxIntents = 2
    MaxCrashes = 2
    MaxFaults = 1
INVARIANT NoDanglingCreated
