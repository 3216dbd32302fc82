\* One UE with two measurements, so that it can be asked for two frequencies.
CONSTANTS
    UEMax = 1
    MeasMax = 2
    Rntis = {1, 2}
    Freqs = {f0, f1}
    Freq0 = f0
    NoFreq = noFreq
    Trigs = {t1, t2}
    NoTrig = noTrig
    OwnTrig = ownTrig
    Ui = TRUE
SPECIFICATION FairSpec
PROPERTY UpdatesTriggered
