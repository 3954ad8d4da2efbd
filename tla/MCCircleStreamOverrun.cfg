SPECIFICATION Spec
CONSTANTS
    Capacity = 4
    Lengths <- AllLengths
    Word = 65536
    Overrun = TRUE
INVARIANT PeekedIsWritten
