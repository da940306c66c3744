CONSTANTS
    a = a
    b = b
    third = third
    Tasks = {a, b, third}
    Flags <- OneFlag
    Strategies <- BothStrategies
    Priorities <- TwoPriorities
    Durations <- ManyDurations
    MaxReleases = 3
    MaxCalls = 2
    MaxTime = 3
SPECIFICATION MCSpec
INVARIANTS
    EachTaskInOnePlace
    NoLostWakeup
PROPERTIES
    SleepersReadTheirDeadline
    LoweredRunsLast
    RunsEnd
CHECK_DEADLOCK FALSE
