SPECIFICATION Spec
CONSTANTS
    ro = ro
    netChange = netChange
    net = net
    persist = persist
    ctl = ctl
    bad = bad
    c1 = c1
    c2 = c2
    UbootReload = uboot
    NetChange = netChange
    Zero = zero
    One = one
    Absent = Absent
    Torn = Torn
    RoNames <- MCRo
    NetNames <- MCNet
    PersistNames <- MCPersist
    CtlNames <- MCCtl
    IllegalNames <- MCBad
    Values <- MCValues
    Calls <- MCCalls2
    BootSets <- MCBootSets
    Installed <- MCInstalled
    Capacity = 4
    Backlog = 2
    FilesFail = FALSE
    MaxBoots = 1
INVARIANT
    AckMeansHandled
CHECK_DEADLOCK FALSE
