CONSTANTS
    UEMax = 3
    RntiReserved = 4
    RntiTop = 4
    Imsis = {imsi1, imsi2, imsi3, imsi4}
    NoImsi = noImsi
    Pcis = {1, 2}
    RanMax = 2
    Phy = {1}
    Cell0 = 1
    CountMod = 4
    MaxBlank = 1
SPECIFICATION Spec
SYMMETRY Symmetry
INVARIANTS
    TypeOK
    UniqueImsi
    UniqueRnti
    SlotsWhole
    RanUsersAttached
    CountDrift
PROPERTIES
    RanKeepsUsers
    ImplementsRegistry
