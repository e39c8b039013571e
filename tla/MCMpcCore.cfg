CONSTANTS
    Margin = 1
    AllowanceCap = 3
    StepCap = 2
    MaxRejectRun = 1
    ReacquireStableSteps = 2
    ReacquireTimeoutSteps = 3
    ProbationSteps = 2
    VMin = 0
    VMax = 3
    DecelStep = 1
    Crawl = 0
    MaxHoldCycles = 1
    SegmentLength = 2
    NumSegments = 2
    Port = "python"
    BackMargin = 1
    Displacements <- MCDisplacements
    QpSpeeds <- MCOneSpeed
    VProbation = 1
SPECIFICATION FairSpec
INVARIANTS
    TypeOK
    AdvanceWithinMotion
    SeekingIffRunExceeded
    WarmStartFromThisAnchor
    CappedCyclesAreSlow
PROPERTIES
    CommitOnlyOnStableEvidence
    ProtocolSafety
    ProtocolLiveness
    ProbationEnds
