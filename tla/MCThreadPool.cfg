SPECIFICATION FairSpec
CONSTANTS
    w1 = w1
    w2 = w2
    c1 = c1
    k1 = k1
    k2 = k2
    k3 = k3
    Workers <- TwoWorkers
    Clients <- OneClient
    Tasks <- ThreeTasks
    Ops <- AllOps
    MaxSpurious = 1
    MaxCalls = 2
INVARIANTS OncePerTask FinishLosesNothing IdleAreWaiting
PROPERTY CallsReturn
CHECK_DEADLOCK FALSE
