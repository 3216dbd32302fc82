CONSTANTS
    UEMax = 2
    NeighMax = 1
    Rntis = {rnti1, rnti2}
    NoRnti = noRnti
    Ids = {enb1}
    NoId = noId
    U32 = 3
SPECIFICATION Spec
SYMMETRY Symmetry
INVARIANTS
    TypeOK
    ErrorShown
    MeasureOfAttached
CHECK_DEADLOCK FALSE
