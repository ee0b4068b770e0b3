SPECIFICATION Spec
CONSTANTS
    t1 = t1
    t2 = t2
    f1 = f1
    f2 = f2
    NONE = NONE
    Threads = {t1, t2}
    Files = {f1, f2}
    fileOf <- PrivateFileOf
    TxnThreads = {}
    VecThreads = {}
    AbortFiles = {}
    CopyMayFail = FALSE
    ClosesOverlap = TRUE
    DataMayFail = FALSE
    MAX_VERSIONS = 32
    OrigBlocks = 2
    OrigTail = 0
    PAGE_SIZE = 2
    LogicalBlocks = {0, 1, 2}
    Requests <- WholeBlocks
    Vectors <- NoVectors
    Children = {c1}
    Values <- MCValues
    Zero = "z"
    Original <- WholeOriginal
    MaxCalls = 2
PROPERTY
    ChildViewStable
