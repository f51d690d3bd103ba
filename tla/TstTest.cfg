SPECIFICATION FairSpec
CONSTANTS
    Plans <- MCPlans
    Kids = {k1}
    MaxRetries = 1
    MaxReports = 2
    MaxInts = 1
    CanStick = TRUE
    CanForkFail = TRUE
INVARIANTS RunInv  ZeroMeansPassed NoSurvivors QuietCleanup
PROPERTIES OwnGroupSpared Terminates
