SPECIFICATION Spec
CONSTANTS
    Buyer = {b1, b2}
    MaxKeys = 3
    MaxDeploys = 2
    MaxCommands = 3
    MaxFaults = 1
SYMMETRY Symmetry
INVARIANT RestrictionSurvivesRedeploy
CHECK_DEADLOCK FALSE
