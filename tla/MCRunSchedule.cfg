SPECIFICATION Spec
CONSTANTS
    Dispatchers = {d1, d2}
    Deployed = {"daily"}
    Managed = {"extra"}
    Occurs <- MCOccurs
    Lookback = 1
    LeaseHours = 3
    MaxWriteAttempts = 2
    MaxStall = 1
    MaxTime = 6
    MaxEdits = 2
INVARIANTS
    TypeOK
    ClaimedOnce
    RunnerHoldsLease
    NoOverlap
PROPERTIES
    LastOnlyForward
SYMMETRY MCSymmetry
CHECK_DEADLOCK FALSE
