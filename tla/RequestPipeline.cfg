SPECIFICATION Spec
CONSTANTS
    b1 = b1
    b2 = b2
    t1 = t1
    t2 = t2
    MaxReq = 2
    Buyer = {b1, b2}
    Token = {t1, t2}
    Sub <- MCSub
    ClientId = {c1, c2}
    Tool = {"create"}
    ForecastTool = {"forecast"}
    Granted <- MCGranted
    TokenExp <- MCExp
    ReplayWindow = 2
    RateWindow = 1
    MaxTime = 4
    MaxStops = 1
    MaxFaults = 1
INVARIANTS
    TypeOK
    NoReplay
    RateKept
    
    Audited
CHECK_DEADLOCK FALSE
