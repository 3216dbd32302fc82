CONSTANTS
    NeighMax = 2
    Me = 1
    Peers <- Network
    Callers <- OnlyOne
    Typed <- Everybody
    BufLen = 3
    MaxRemovals = 1
    MaxConflicts = 0
SPECIFICATION FairSpec
PROPERTY NeighborCellLearned
