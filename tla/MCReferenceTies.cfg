CONSTANTS
    BackM = 3
    FwdM = 6
    WideM = 10
    ReacquireM = 6
    TieEps = 2
    GapFloor = 2
    Ds = 2
    WaypointLists <- MCWaypointLists
    RawReferences <- MCRawReferences
    Tracks <- MCTracks
    Serpentines <- MCSerpentines
    LaneW = 4
    OpenGap = 5
    VAdapted = 16
    CurveSpeed = 12
    VDefault = 12
    VMax = 16
    VRecorded = 16
    VFloor = 8
    OmegaMax = 24
    Ramp = 24
    Brake = 16
    VEnd = 0
    ReverseArcMax = 3
    SeedPoses <- MCMidwayPoses
    SeedYaws <- MCNoYaws
    Offsets <- MCOffsets
    Slants <- MCSlants
    MaxStride = 2
SPECIFICATION TrackSpec
INVARIANTS
    TiesAreRefused
CHECK_DEADLOCK FALSE
