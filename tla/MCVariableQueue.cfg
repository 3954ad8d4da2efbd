SPECIFICATION Spec
CONSTANTS
    a = a
    b = b
    Space = 20
    Lengths <- SomeLengths
    Ids <- TwoIds
INVARIANTS Layout AssertionsHold
PROPERTY IsRecordQueue
SYMMETRY Symmetry
