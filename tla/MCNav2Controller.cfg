CONSTANTS
    Margin = 1
    AllowanceCap = 2
    StepCap = 2
    MaxRejectRun = 0
    ReacquireStableSteps = 1
    ReacquireTimeoutSteps = 2
    ProbationSteps = 2
    VMin = 0
    VMax = 3
    DecelStep = 1
    Crawl = 1
    MaxHoldCycles = 1
    SegmentLength = 3
    NumSegments = 1
    Port = "cpp"
    BackMargin = 1
    Displacements <- MCOneDisplacement
    QpSpeeds <- MCQpSpeeds
    VProbation = 1
    QpFailMax = 1
    AmbiguousMax = 1
    AMax = 3
    TerminalMargin = 1
    SpeedLimits <- MCSpeedLimits
SPECIFICATION Nav2FairSpec
PROPERTIES
    CommandRespectsEveryLimit
    AbortNeedsNormalFailures
    SeekingHasItsTime
    SeekingIsResolved
