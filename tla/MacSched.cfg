CONSTANTS
    UEMax = 2
    RntiReserved = 3
    RntiTop = 3
    Imsis = {imsi1, imsi2}
    NoImsi = noImsi
    Pcis = {1}
    RanMax = 2
    CellMax = 2
    CellPrbs = {9}
    DefaultPrb = 9
    DefaultPci = 1
    PciInvalid = 99
    PrbMod = 16
    GroupMax = 2
    Adders = {"main"}
    Removers = {"agent"}
    SubFrames = 2
SPECIFICATION FairSpec
\* The model ends where the program writes past the end of the frame (Overrun).
CHECK_DEADLOCK FALSE
INVARIANTS
    TypeOK
    CellsAccounted
    RanWaitBound
PROPERTIES
    DealtFairly
    RanServesAttached
    EveryUserServed
