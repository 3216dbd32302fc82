CONSTANTS
    UEMax = 2
    NeighMax = 2
    Rntis = {rnti1, rnti2}
    NoRnti = noRnti
    Ids = {enb1, enb2}
    NoId = noId
    U32 = 3
SPECIFICATION Spec
PROPERTY HandoverAsSelected
CHECK_DEADLOCK FALSE
