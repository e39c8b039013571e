CONSTANTS
    OdomMaxAge = 1
    TrajMaxAge = 2
    ClockTol = 0
    MaxDelay = 1
    MaxJump = 2
    CoreSpeeds <- MCCoreSpeeds
    SourceTimeout = 2
    MaxTransport = 1
    MaxSetBack = 2
    Speeds <- MCOneSpeed
SPECIFICATION NodesSpec
PROPERTIES
    NoMotionOnOldState
    NoMotionOnOldPath
    StaleStateRecovers
    RecentMessageIsHeard
    SilentSourceIsDropped
    SilenceStops
