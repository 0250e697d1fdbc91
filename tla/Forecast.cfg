SPECIFICATION Spec
CONSTANTS
    Families <- MCFamilies
    Periods <- MCPeriods
    OpensAt <- MCOpens
    StartsAt <- MCStarts
    EndsAt <- MCEnds
    Reading <- MCReading
    Policy <- MCPolicy
    Request <- MCRequest
    Entitlement <- MCEntitlement
    Interval = 1
    MaxStaleness = 1
    MaxAlternatives = 1
    Cycle = {c1, c2}
    MaxDigits = 4
    MaxCycle = 2
    MaxTime = 5
    MaxRefreshes = 2
INVARIANTS
    TypeOK
    NoStaleFigure
    NoOverPeriod
    AnswersAgree
SYMMETRY MCSymmetry
CHECK_DEADLOCK FALSE
