CONSTANTS
    a1 = a1  a2 = a2  p1 = p1  none = none
    Slots <- Two
    NRounds = 2
    MaxSessions = 2
    None = none
    Workers <- Two
    Processes <- MCProcesses
    HomeOf <- TwoHomes
    MaxReserved = 0
    NBatches = 2
    MaxBadSeq = 1
    MaxTries = 2
    MaxCalls = 1
    NetworkFaults = TRUE
    MayCrash = TRUE
SYMMETRY PpSymmetry
SPECIFICATION PpSpec
INVARIANTS PpTypeOK CountedTruly FairPlay PaidOnce SuccessIsPaid
