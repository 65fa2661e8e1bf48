SPECIFICATION FairSpec
CONSTANTS
    Documents = {"d1", "d2", "d3", "d4", "e3"}
    Name <- MCNameFour
    MaxName = 4
    Late = {"d3", "e3"}
    Matching = {"d1", "d3", "d4"}
    Nothing = Nothing
    Junk = Junk
    MaxWriteAttempts = 2
    ListBatch = 2
    MaxScan = 2
    Limit = 1
    MaxListFailures = 1
INVARIANTS
    TypeOK
    ReceiptIsDurable
    NoFalseConflict
    NewestFirst
    ListingIsComplete
PROPERTIES
    NeverReplaced
    ListingEnds
CHECK_DEADLOCK FALSE
