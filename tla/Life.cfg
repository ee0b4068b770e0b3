SPECIFICATION Spec
CONSTANTS
    Procs = {p1, p2}
    CopyThread = ct
    P = par
    Children = {c1, c2}
    SCORW_MAX_CHILDS = 2
    NoInode = NoInode
    MaxCopies = 1
    StopAtStray = TRUE
INVARIANTS
    NoneLost
    NoneLeaks
 
CHECK_DEADLOCK FALSE
