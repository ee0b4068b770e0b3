SPECIFICATION FilesSpec
CONSTANTS
    EsLast = 3
    ClusterRatio = 2
    EsBreaks = {1}
    EsClusters = 2
    EsNone = EsNone
    WrPages = 2
    PageBlks = 2
    BlkCells = 2
    WrWrites <- MCWrites
    WrSizes = {1, 5}
    WrOps = 2
    WrFaults = 1
    NmInodes = {1, 2, 3, 4}
    NmNames = {"a", "b"}
    LINK_MAX = 3
    DirNlink = TRUE
    NmOps = 5
    OrInodes = {i1, i2}
    OrBlocks = 2
    PerBlock = 2
    OrSize = 1
    OrCalls = 3
    OrCrashes = 2
    MaxLoops = 3
INVARIANTS
    EsTruthful
    ClustersCounted
    ReadsRight
    SyncedSurvives
    LinksExact
    OrphansExact
CHECK_DEADLOCK FALSE
