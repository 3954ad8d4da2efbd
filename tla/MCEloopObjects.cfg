SPECIFICATION Spec
CONSTANTS
    t1 = t1
    f1 = f1
    Timers <- OneTimer
    Fds <- OneFd
    Periodic <- OneTimer
    PipeCap = 1
    MaxEvents = 1
    MaxTicks = 1
    MaxInc = 2
    MaxCancel = 0
    MemoryFails = TRUE
    Conditions = {"in", "out", "hup", "err"}
INVARIANTS NoStaleUse EdgeNotLost
CHECK_DEADLOCK FALSE
