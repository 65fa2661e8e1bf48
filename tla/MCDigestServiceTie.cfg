SPECIFICATION Spec
CONSTANTS
    Updates <- MCUpdates
    Date <- MCTied
    Jobs = {j1}
    ApiRuns = {}
    Lookback = 1
    MaxTime = 3
    MaxReadFaults = 0
    MaxFaults = 0
    MaxResets = 0
INVARIANTS
    NeverSkipsPending
CHECK_DEADLOCK FALSE
