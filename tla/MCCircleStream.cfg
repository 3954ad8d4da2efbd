SPECIFICATION Spec
CONSTANTS
    Capacity = 4
    Lengths <- AllLengths
    Word = 65536
    Overrun = FALSE
INVARIANTS Agree PeekedIsWritten
PROPERTY IsByteQueue
