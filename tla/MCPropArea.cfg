SPECIFICATION FairSpec
CONSTANTS
    a = a
    b = b
    p1 = p1
    p2 = p2
    r1 = r1
    NUL = NUL
    Bytes <- MCBytes
    Values <- MCValues
    Props <- MCProps2
    Readers <- MCReaders1
    MaxLen = 2
    GenMod = 2
    AreaMod = 8
    Capacity = 2
    MaxOps = 3
INVARIANTS
    TypeOK
    NoTornRead
    NoLostWakeup
    NoStaleSleep
    RestingValue
PROPERTIES ReadReturns WaitAnyReturns
