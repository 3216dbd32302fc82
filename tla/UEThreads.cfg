CONSTANTS
    UEMax = 2
    RntiReserved = 4
    RntiTop = 3
    Imsis = {imsi1, imsi2, imsi3}
    NoImsi = noImsi
    Pcis = {1}
    Cell0 = 1
    CountMod = 3
    NoSlot = noSlot
SPECIFICATION Spec
SYMMETRY Symmetry
INVARIANTS
    TypeOK
    UniqueImsi
    UniqueRnti
    SlotsWhole
    CountRight
    RefusedRightly
