SPECIFICATION Spec
CONSTANTS
    c1 = c1
    c2 = c2
    Callers = {c1, c2}
    MaxAttempts = 2
    Nobody = Nobody
    Criticised = TRUE
    Threshold = 2
    MaxIterations = 5
    MaxPlanCalls = 2
    MaxPlans = 2
    MaxRevisions = 3
    MaxRecoveries = 2
    Capacity = 1
    MaxTasks = 1
    MaxPuts = 1
    MaxSent = 2
    MaxRestarts = 1
SYMMETRY
    Symmetry
INVARIANTS
    TypeOK
    ReportRestsOnEvidence
    DiagnosticsAreNotLeftOver
    ResultsRetained
PROPERTIES
    AnalysesAreBounded
