CONSTANTS
    StraightLength = 3
    ArcLength = 4
    StopMargin = 1
    Tolerance = 1
    CruiseSpeed = 2
    Braking = 1
    StepsPerCycle = 2
    Excess = 2
    MinCommands = 2
    MinFlow = 1
    Patience = 1
    MaxPos = 8
    LeastOvershoot = 2
    MaxStarts = 2
    MaxCrashes = 1
    MaxRevisions = 1
SPECIFICATION Spec
INVARIANTS
    PassMeansArrived
    NeverPastTheEnd
    PatchCanBeUndone
CHECK_DEADLOCK FALSE
