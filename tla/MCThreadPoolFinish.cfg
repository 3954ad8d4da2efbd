SPECIFICATION FairSpec
CONSTANTS
    w1 = w1
    w2 = w2
    c1 = c1
    k1 = k1
    k2 = k2
    k3 = k3
    Workers <- OneWorker
    Clients <- OneClient
    Tasks <- TwoTasks
    Ops <- PushFinish
    MaxSpurious = 0
    MaxCalls = 1
PROPERTY FinishReturns
CHECK_DEADLOCK FALSE
