CONSTANTS
    w1 = w1  w2 = w2  p1 = p1  none = none
    CcReaders <- Actors
    MaxVersion = 1
    MaxPolls = 1
    MaxLoads = 3
    MaxPageWrites = 2
    SweepDays = {0, 1, 360, 366}
    Sweepers <- Actors
    RecurrenceRule = "weekly"
    MaxSweeps = 4
    None = none
    Workers <- Actors
    Processes <- MCProcesses
    HomeOf <- MCHomes
    MaxReserved = 0
    NBatches = 1
    MaxBadSeq = 1
    MaxTries = 1
    MaxCalls = 2
    NetworkFaults = TRUE
    MayCrash = TRUE
SPECIFICATION ProgressSpec
INVARIANTS ProgressTypeOK   
PROPERTIES NobodyWaitsForever
CHECK_DEADLOCK FALSE
