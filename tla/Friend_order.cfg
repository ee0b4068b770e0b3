SPECIFICATION FrSpec
CONSTANTS
    FrBlocks = {b1, b2}
    MaxFrVersion = 3
INVARIANT
    FriendExact
CHECK_DEADLOCK FALSE
