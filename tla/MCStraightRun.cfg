CONSTANTS
    Margin = 1
    AllowanceCap = 6
    StepCap = 3
    MaxRejectRun = 1
    ReacquireStableSteps = 2
    ReacquireTimeoutSteps = 3
    ProbationSteps = 2
    VMin = 0
    VMax = 3
    DecelStep = 1
    Crawl = 1
    MaxHoldCycles = 0
    SegmentLength = 4
    NumSegments = 2
    Port = "cpp"
    BackMargin = 1
    Displacements <- MCDisplacements
    QpSpeeds <- MCOneSpeed
    VProbation = 1
    MaxStep = 2
    MaxMissed = 1
SPECIFICATION RunSpec
INVARIANTS
    LagIsUnseenMotion
PROPERTIES
    RejectionNeedsReanchor
