SPECIFICATION Spec
CONSTANTS
    u1 = u1
    u2 = u2
    a1 = a1
    a2 = a2
    Rank <- MCRank
    Addresses = {a1, a2}
    Plans <- MCPlans
    Workers = {w1, w2}
    MaxAttempts = 2
    MaxStalls = 1
    MaxFaults = 2
    MaxRetries = 1
    MaxOps = 2
INVARIANTS
    PayoutTypeOK
    PaidTwiceOnlyIfLost
    
    RunsAlone
PROPERTIES
    SentStaysSent
    StrandedRowsReconciled
CHECK_DEADLOCK FALSE
