CONSTANTS
    UEMax = 2
    MeasMax = 1
    Rntis = {1, 2}
    Freqs = {f0, f1}
    Freq0 = f0
    NoFreq = noFreq
    Trigs = {t1, t2}
    NoTrig = noTrig
    OwnTrig = ownTrig
    Ui = TRUE
SPECIFICATION FairSpec
INVARIANTS
    TypeOK
    ListReported
    MeasureAtItsUE
PROPERTIES
    ListServed
    MeasuresServed
