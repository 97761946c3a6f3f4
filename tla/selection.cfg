SPECIFICATION Spec
CONSTANTS
    A = A
    B = B
    C = C
    Files <- MCFiles
    Stations <- MCStations
    Start = 2
    End = 5
    MaxDrops = 1
    MaxExpiries = 1
    Hour = 2
    HoursBack = 1
    TargetImages = 1
    MaxAge = 3
    TargetRuns = 1
    Accum = 2
    Every = 1
    Lag = 1
    CycleLen = 2
    Cycles = 2
    Steps = {3, 6}
    ProbeFrom = 1
    ProbeTo = 4
    StepsPerTick = 1
INVARIANT NomadsRateBounded
PROPERTY NeverBehindTheCap
PROPERTY WindowsGoOutWhole
PROPERTY BacklogDrains
