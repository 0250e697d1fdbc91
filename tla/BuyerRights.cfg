SPECIFICATION Spec
CONSTANTS
    Buyer = {b1, b2}
    MaxKeys = 3
    MaxDeploys = 1
    MaxCommands = 3
    MaxFaults = 1
SYMMETRY Symmetry
INVARIANTS
    TypeOK
    ErasedNotServed
    ErasureOrder
    Unlinkable
    OnePseudonym
    RawForgotten
    RestrictedNotServed
CHECK_DEADLOCK FALSE
