SPECIFICATION FairSpec
CONSTANTS
    Workflows = {w1}
    InProcess = FALSE
    MaxRequests = 2
    MaxOthers = 1
    MaxRestarts = 1
    MaxLosses = 1
INVARIANTS
    RequestNotLost
PROPERTIES
    PhaseAdvances
    LatestRequestRuns
CHECK_DEADLOCK FALSE
