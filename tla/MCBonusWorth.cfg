CONSTANTS
    SpReqs = {r1, r2}
    SpCallers = {q1, q2}
    SpFaults = 2
    SpAttempts = 2
    StroopsPerUsdc = 2
    BonusStroops = 1
SPECIFICATION SpSpec
INVARIANTS BonusWorth
CHECK_DEADLOCK FALSE
