CONSTANTS
    VMin = 0
    VMax = 3
    DecelStep = 2
    Crawl = 1
    MaxHoldCycles = 2
    Speeds <- MCSpeeds
    N = 3
    OmegaMax = 1
    AMax = 1
    AlphaMax = 1
    VProbation = 1
    QDiag <- MCQDiag
    QFDiag <- MCQFDiag
    SDiag <- MCSDiag
    RefV <- MCRefV
    RefKappa <- MCRefKappa
    Errors <- MCErrors
    Blocks <- MCBlocks
    Tolerance = 1
SPECIFICATION SolveSpec
INVARIANTS
    HoldIsBounded
    PlanIsItsRollout
PROPERTIES
    NoReuseAfterStop
