SPECIFICATION Spec
CONSTANTS
    Readers = {q1, q2}
    RIDE_CACHE_TTL = 2
    MaxDelay = 1
    LastVersion = 3
    MaxTime = 7
    None = None
INVARIANT TypeOK
INVARIANT OnlyCommitted
INVARIANT BoundedStaleness
\* the clock stops at MaxTime
CHECK_DEADLOCK FALSE
