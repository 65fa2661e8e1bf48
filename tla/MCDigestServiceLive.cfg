SPECIFICATION FairSpec
CONSTANTS
    Updates <- MCUpdates
    Date <- MCTied
    Jobs = {j1}
    ApiRuns = {}
    Lookback = 1
    MaxTime = 3
    MaxReadFaults = 1
    MaxFaults = 2
    MaxResets = 1
PROPERTIES
    EveryUpdateSettles
CHECK_DEADLOCK FALSE
