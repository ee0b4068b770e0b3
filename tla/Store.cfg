SPECIFICATION ProgramSpec
CONSTANTS
    t1 = t1
    t2 = t2
    f1 = f1
    f2 = f2
    NONE = NONE
    Threads = {t1, t2}
    Files = {f1, f2}
    fileOf <- PrivateFileOf
    TxnThreads = {t1, t2}
    VecThreads = {}
    AbortFiles = {}
    CopyMayFail = FALSE
    ClosesOverlap = FALSE
    DataMayFail = FALSE
    MAX_VERSIONS = 32
    OrigBlocks = 2
    OrigTail = 1
    PAGE_SIZE = 2
    LogicalBlocks = {0, 1, 2}
    Requests <- TxnOrParts
    Vectors <- NoVectors
    Children = {c1}
    Values <- MCValues
    Zero = "z"
    Original <- TailOriginal
    MaxCalls = 3
INVARIANTS
    RecordsPointAtData
PROPERTIES
    MappingImmutable
    SnapshotImmutable
    ChildViewStable
    TxnVisibleAtEnd
    ImplementsSnapshots
