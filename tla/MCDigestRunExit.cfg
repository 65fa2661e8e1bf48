SPECIFICATION Spec
CONSTANTS
    MaxTargets = 5
    Date <- MCDate
    MaxConcurrentAnalyses = 3
    MaxConsecutiveFailures = 2
INVARIANTS
    ExitOneKeepsWindow
CHECK_DEADLOCK FALSE
