CONSTANTS
    Margin = 2
    AllowanceCap = 12
    StepCap = 6
    MaxRejectRun = 1
    ReacquireStableSteps = 2
    ReacquireTimeoutSteps = 3
    ProbationSteps = 2
    VMin = 0
    VMax = 3
    DecelStep = 1
    Crawl = 1
    MaxHoldCycles = 1
    SegmentLength = 6
    NumSegments = 3
    Port = "cpp"
    BackMargin = 1
    Displacements <- MCDisplacements
    QpSpeeds <- MCOneSpeed
    VProbation = 1
    MaxStep = 5
    MaxMissed = 0
SPECIFICATION RunSpec
INVARIANTS
    HonestNeverRejected
