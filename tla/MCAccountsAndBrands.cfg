CONSTANTS
    r1 = r1  r2 = r2  r3 = r3  c1 = c1  c2 = c2  u1 = u1  u2 = u2
    RtReqs <- TwoReqs
    MaxTokens = 2
    PkceStates = {"state"}
    TfReqs <- TwoReqs
    MaxSecrets = 2
    MaxBatches = 2
    BatchSize = 1
    ErReqs <- TwoReqs
    MaxErasures = 2
    MaxAttempts = 2
    Players <- TwoUsers
    UnReqs <- TwoReqs
    MaxName = 3
    MaxRenames = 3
    Callers <- TwoUsers
    PvReqs <- ThreeReqs
    OtpLimit = 2
    MaxWindows = 2
    AaReqs <- TwoReqs
    MaxChanges = 2
    MaxPasses = 1
    AvReqs <- TwoReqs
    MaxAvatars = 2
    SpReqs <- TwoReqs
    SpCallers <- TwoUsers
    SpFaults = 2
    SpAttempts = 2
    StroopsPerUsdc = 2
    BonusStroops = 1
    PaUsers <- ThreeReqs
    PaPool = 5
    PaScores = {0, 1, 2}
    PaFeeBps = 1
    BpsScale = 3
    MaxShifts = 1
    MaxRuns = 2
    PgIds = {1, 2, 3}
    PgNums = {1, 2}
    PgTimes = {0, 1, 2}
    PgLimits = {1, 2}
    MaxMoves = 1
    Chs <- TwoChs
    AuReqs <- TwoReqs
    Kits <- FullAndSparse
    MaxRegens = 3
    MaxStarts = 3
    MaxDeaths = 1
    ViBrands = {"brand"}
    ViChs <- TwoChs
    ViUsers <- TwoUsers
    BrandOf <- OneBrand
    BenchmarkMin = 2
    MaxEvents = 2
SYMMETRY AbSymmetry
SPECIFICATION AbSpec
INVARIANTS AbTypeOK  ErasureFollowsRequests  
              
PROPERTIES NothingRevives 
CHECK_DEADLOCK FALSE
