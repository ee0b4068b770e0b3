SPECIFICATION Spec
CONSTANTS
    MAX_VERSIONS = 8
    OrigBlocks = 2
    LogicalBlocks = {0}
    Lens = {1, 2}
    Children = {c1}
    MaxWrites = 3
    EmptyTxns = FALSE
    MaxSize = 6
    MaxDowns = 2
    MaxCommits = 1
INVARIANTS
    ActiveReadable
    ExtentsDisjoint
PROPERTY KeepsVersions
CHECK_DEADLOCK FALSE
