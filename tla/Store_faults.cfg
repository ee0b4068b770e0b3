SPECIFICATION FaultSpec
CONSTANTS
    t1 = t1
    t2 = t2
    f1 = f1
    f2 = f2
    NONE = NONE
    Threads = {t1, t2}
    Files = {f1}
    fileOf <- SharedFileOf
    TxnThreads = {t1}
    VecThreads = {t2}
    AbortFiles = {f1}
    CopyMayFail = TRUE
    ClosesOverlap = TRUE
    DataMayFail = TRUE
    MAX_VERSIONS = 2
    OrigBlocks = 2
    OrigTail = 1
    PAGE_SIZE = 2
    LogicalBlocks = {0, 1, 2}
    Requests <- FaultyBlocks
    Vectors <- MCVectors
    Children = {c1}
    Values <- MCValues
    Zero = "z"
    Original <- TailOriginal
    MaxCalls = 3
INVARIANTS
    LogOrdered
