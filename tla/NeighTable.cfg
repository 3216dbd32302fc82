CONSTANTS
    NeighMax = 2
    Me = 1
    Peers <- Network
    Callers <- Everybody
    Typed <- OnlyOne
    BufLen = 3
    MaxRemovals = 1
    MaxConflicts = 1
SPECIFICATION FairSpec
INVARIANTS
    TypeOK
    UniqueNeighbor
    LongestReached
PROPERTIES
    CallerListed
    SearchedCellLearned
