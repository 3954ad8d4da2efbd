SPECIFICATION FairSpec
CONSTANTS
    t1 = t1
    f1 = f1
    Timers <- OneTimer
    Fds <- OneFd
    Periodic <- OneTimer
    PipeCap = 3
    MaxEvents = 1
    MaxTicks = 2
    MaxInc = 1
    MaxCancel = 1
    MemoryFails = FALSE
    Conditions = {"in"}
PROPERTIES FifoMailbox PostedIsHandled StopEnds FdsAreServed
CHECK_DEADLOCK FALSE
