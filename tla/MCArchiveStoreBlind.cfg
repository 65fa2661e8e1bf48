SPECIFICATION Spec
CONSTANTS
    Documents = {"d1", "d2", "d3", "d4", "d5"}
    Name <- MCNameFive
    MaxName = 5
    Late = {}
    Matching = {"d1", "d2", "d3", "d5"}
    Nothing = Nothing
    Junk = Junk
    MaxWriteAttempts = 2
    ListBatch = 2
    MaxScan = 4
    Limit = 1
    MaxListFailures = 0
INVARIANTS
    EndMeansEnd
CHECK_DEADLOCK FALSE
