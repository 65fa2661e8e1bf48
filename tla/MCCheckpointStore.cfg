SPECIFICATION Spec
CONSTANTS
    Writers = {w1, w2, w3}
    Times <- MCTimes
    MaxWriteAttempts = 3
    MaxCalls = 3
    MaxResets = 2
INVARIANTS
    TypeOK
    EtagPinsValue
    AnswerIsDurable
    ContendedMeansOvertaken
PROPERTIES
    OnlyForward
SYMMETRY MCSymmetry
CHECK_DEADLOCK FALSE
