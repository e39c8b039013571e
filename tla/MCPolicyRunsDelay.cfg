CONSTANTS
    Margin = 1
    AllowanceCap = 5
    StepCap = 3
    Tracks <- MCTracks
    VMin = 0
    VMax = 2
    RateV = 1
    BaselineSpeeds = {2}
    Residuals <- MCResiduals
    Delays = {0, 2}
    Starts <- MCStarts
    Sightings = {5}
    CompleteMargin = 1
    Window = 3
    MinGain = 1
    MaxSteps = 6
    Budget = 5
    StudyDelay = 2
    MaxEpisodes = 2
SPECIFICATION RunSpec
INVARIANTS
    DelayAsConfigured
CHECK_DEADLOCK FALSE
