SPECIFICATION Spec
CONSTANTS
    Updates <- MCUpdates
    Date <- MCTied
    Jobs = {j1}
    ApiRuns = {a1}
    Lookback = 1
    MaxTime = 2
    MaxReadFaults = 1
    MaxFaults = 1
    MaxResets = 1
INVARIANTS
    TypeOK
    NothingSkipped
    StartIsSettled
PROPERTIES
    CheckpointIsRegister
CHECK_DEADLOCK FALSE
