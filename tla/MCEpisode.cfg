CONSTANTS
    Margin = 1
    AllowanceCap = 2
    StepCap = 2
    MaxRejectRun = 0
    ReacquireStableSteps = 2
    ReacquireTimeoutSteps = 2
    ProbationSteps = 2
    VMin = 0
    VMax = 2
    DecelStep = 1
    Crawl = 0
    MaxHoldCycles = 1
    SegmentLength = 4
    NumSegments = 1
    Port = "python"
    BackMargin = 1
    Displacements <- MCDisplacements
    QpSpeeds <- MCOneSpeed
    VProbation = 1
    MaxStep = 2
    Sightings <- MCSightings
    CompleteMargin = 1
    ProgressWindow = 2
    ProgressMinGain = 1
    MaxSteps = 5
SPECIFICATION EpisodeSpec
INVARIANTS
    BooksBalance
    ProgressWithinMotion
    TruthNeverRejected
    LongRunsMakeProgress
    CompletedAtTheEnd
VIEW EpisodeView
CHECK_DEADLOCK FALSE
