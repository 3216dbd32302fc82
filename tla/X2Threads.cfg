\* The agent and the operator hand over; the network drops and repeats.
CONSTANTS
    UEMax = 2
    RntiReserved = 3
    RntiTop = 2
    Imsis = {imsi1, imsi2}
    NoImsi = noImsi
    Pcis = {1}
    Enbs = {enb1, enb2}
    Neigh <- MCNeigh
    Threads = {agent, ui}
    UI = ui
    Cell0 <- MCCell0
    Lossy = {enb1, enb2}
    Duplicating = TRUE
    MaxFlight = 2
SPECIFICATION Spec
CHECK_DEADLOCK FALSE
SYMMETRY Symmetry
INVARIANT TablesCoherent
