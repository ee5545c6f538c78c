CONSTANTS
    RtReqs = {r1, r2}
    MaxTokens = 2
    PkceStates = {s1}
SPECIFICATION RtSpec
INVARIANTS RefreshRotates
CHECK_DEADLOCK FALSE
