CONSTANTS
    NeighMax = 2
    Me = 1
    Peers <- Crossed
    Callers <- AllButOne
    Typed <- Everybody
    BufLen = 3
    MaxRemovals = 2
    MaxConflicts = 0
SPECIFICATION Spec
INVARIANT AddressRight
