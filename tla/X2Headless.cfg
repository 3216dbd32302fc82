\* Every handover runs on the agent's thread (--hl).
CONSTANTS
    UEMax = 2
    RntiReserved = 3
    RntiTop = 2
    Imsis = {imsi1, imsi2, imsi3}
    NoImsi = noImsi
    Pcis = {1}
    Enbs = {enb1, enb2}
    Neigh <- MCNeigh
    Threads = {agent}
    UI = ui
    Cell0 <- MCCell0
    Lossy = {enb1}
    Duplicating = FALSE
    MaxFlight = 2
\* The program has nothing left to do once every UE is gone.
CHECK_DEADLOCK FALSE
SPECIFICATION FairSpec
INVARIANTS
    TypeOK
    NoClone
PROPERTIES
    LostOnItsWay
    HandoverSettles
    ImplementsMobility
