\* Four commands or reports, one failure of the environment.
SPECIFICATION Spec
CONSTANTS
    Capacity <- MCCapacity
    InitModes <- MCInitModes
    FailedTimes = 1
    MaxInputs = 4
    MaxTrouble = 1
INVARIANTS ModeMatchesDevices TimerAccounted OkIsThisNetwork StatusTrue
PROPERTIES TimeoutHitsItsOwn CommandsAnswered ApTimesOut
CHECK_DEADLOCK FALSE
