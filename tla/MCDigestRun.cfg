SPECIFICATION FairSpec
CONSTANTS
    MaxTargets = 5
    Date <- MCDate
    MaxConcurrentAnalyses = 3
    MaxConsecutiveFailures = 2
INVARIANTS
    TypeOK
    WatermarkCovers
    FinishedIsAccountedFor
    HaltIsFinal
    OvershootBound
    OldestIsSettled
    CommittedIsAccounted
PROPERTIES
    ImplementsWindow
    RunEnds
CHECK_DEADLOCK FALSE
