SPECIFICATION TreesSpec
CONSTANTS
    EtLast = 3
    EtRootMax = 2
    EtBlockMax = 2
    EtInitMax = 3
    EtUnwMax = 2
    EtGoals = {0}
    EtZeroout = 2
    EtNone = EtNone
    DxNames = {"a", "b", "c", "d", "e", "f", "g", "h", "i"}
    DxHash <- MCHash
    DxLen <- MCLen
    DxBlock = 8
    DotLen = 2
    DxLimit = 2
    DxLevels = 3
    DxStarts <- MCStarts
    DxChanges = 3
    DxFree = DxFree
    XaFiles = {f1, f2, f3}
    XaNames = {"x", "y"}
    XaVals = 2
    XaLarge = {2}
    XaBlocks = 4
    XaInodes = 2
    BodyRoom = 1
    BlockRoom = 3
    REFCOUNT_MAX = 2
    XaOps = 3
    RemoveMayFail = FALSE
    FcNames = {a, b}
    FcInodes = {1, 2}
    FcLast = 1
    FcPblks = {1, 2, 3}
    FcOps = 3
    FcTids = 4
INVARIANTS
    TreeExact
    DirectoryExact
    AttrsExact
    FsyncKept
CHECK_DEADLOCK FALSE
