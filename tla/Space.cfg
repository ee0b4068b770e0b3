SPECIFICATION SpaceSpec
CONSTANTS
    BdMax = 2
    BdClusters = 10
    ScMoves = 1
    ScGroups = 2
    ScClusters = 3
    ScRequests <- MCRequests
    OptimizeScan = TRUE
    MaxLinear = 0
    Order2Reqs = 2
    MaxToScan = 1
    MinToScan = 0
    TrimOrder = 3
    Stripe = 0
    MbClusters = 4
    MbFiles = {f1, f2}
    MbBlocks = 2
    MbPas = {1, 2}
    MbGoal = 3
    LgMax = 1
    LgKeep = 0
    WbFiles = {f2}
    MbNone = MbNone
    MbKinds <- MCKinds
    MbOps = 3
    PwBits = 16
    PwGroup = 32
    PwMax = 150
    PwStarts = {0, 5, 31, 148}
    PwLens = {1, 3}
    PwSizes = {0, 150}
    PwSteps = 3
    IaGroups = 2
    InoPerGroup = 4
    InoPerBlock = 2
    FlexSize = 2
    IaThreads = {t1, t2}
    IaLayouts <- MCLayouts
    IaGoals <- MCGoals
    IaCalls = 2
    MpNodes = {1, 2}
    UPDATE_INTERVAL = 1
    MIN_CHECK = 2
    MAX_CHECK = 6
    SEQ_MAX = 2
    Late = 1
    Over = 2
    MpMounts = 2
SYMMETRY SpaceSymmetry
INVARIANTS
    ScanExact
    ClustersInAccount
    CommittedKept
    WindowsExact
    InodesExact
    WaitsExclude
CHECK_DEADLOCK FALSE
