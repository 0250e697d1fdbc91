SPECIFICATION FairSpec
CONSTANTS
    p1 = p1
    p2 = p2
    p3 = p3
    Proc <- MCProc
    Ident <- MCIdent
    HeartbeatEvery = 1
    StaleAfter = 2
    MaxMissed = 1
INVARIANTS
    TypeOK
    SingleOwner
    TakeoverSucceeds
PROPERTY TwoOwnersResolve
