SPECIFICATION Spec
CONSTANTS
    Workers = {w1, w2, w3}
    WINDOW_SEC = 5
    MAX_REQUESTS = 2
    MaxDelay = 2
    MaxTime = 7
    MaxTwins = 2
    None = None
INVARIANT TypeOK
INVARIANT AtMostLimit
INVARIANT RefusedOnlyOverLimit
\* the clock stops at MaxTime
CHECK_DEADLOCK FALSE
