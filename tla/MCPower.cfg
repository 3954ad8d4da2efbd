SPECIFICATION FairSpec
CONSTANTS
    a1 = a1
    a2 = a2
    Apps <- TwoApps
    Agents <- TwoAgents
    MaxMessages = 5
INVARIANTS HeldKeepsAwake DeepIdleOnlyWhenIdle CountIsLocks ForceSleepInTurn
PROPERTY AgentsLeaveDeepIdle
CHECK_DEADLOCK FALSE
