SPECIFICATION Spec
CONSTANTS
    Updates <- MCUpdates
    Date <- MCDistinct
    Jobs = {j1}
    ApiRuns = {}
    Lookback = 1
    MaxTime = 3
    MaxReadFaults = 1
    MaxFaults = 0
    MaxResets = 0
INVARIANTS
    ReadFailureSkipsNothing
CHECK_DEADLOCK FALSE
