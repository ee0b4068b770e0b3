SPECIFICATION Spec
CONSTANTS
    c1 = c1
    c2 = c2
    w1 = w1
    w2 = w2
    Children = {c1, c2}
    Writers = {w1, w2}
    ChildOf <- MCChildOf
    NumBlocks = 2
    MaxParWrites = 1
    MaxSpoiled = 1
INVARIANTS
    
    ChildWriteKept
    FoundCopyAlive
    PendingExact
PROPERTY ChildWritesReturn
CHECK_DEADLOCK FALSE
