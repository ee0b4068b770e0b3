SPECIFICATION CloneSpec
CONSTANTS
    t1 = t1
    t2 = t2
    t3 = t3
    f1 = f1
    f2 = f2
    f3 = f3
    NONE = NONE
    Threads = {t1, t2, t3}
    Files = {f1, f2, f3}
    fileOf <- PrivateFileOf
    TxnThreads = {t1, t2}
    VecThreads = {t2, t3}
    AbortFiles = {f1}
    CopyMayFail = TRUE
    MAX_VERSIONS = 3
    OrigBlocks = 1
    MAX_RAM_VERSIONS = 2
    Readers = {r1}
    Writer = w
    LogicalBlocks = {0, 1}
    Maps = {m1, m2, m3}
    NULL = NULL
    Overlap = FALSE
    AllocMayFail = TRUE
    MaxLog = 2
    FrBlocks = {b1, b2}
    MaxFrVersion = 3
INVARIANTS
    CacheExact
    VersionsTell
    WriteOwnsLock
PROPERTIES
    FriendFollows
    OnlyOwnerEnds
    CallsReturn
