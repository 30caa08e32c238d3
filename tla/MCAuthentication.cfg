SPECIFICATION Spec
CONSTANTS
    Bootstraps = {b1, b2}
    Keys = {k1, k2}
    AuthRequests = {q1, q2}
    CACHE_TTL = 2
    MaxDelay = 1
    MaxTime = 4
    None = None
SYMMETRY Symmetry
INVARIANT TypeOK
INVARIANT VersionTellsSchema
INVARIANT RevokedKeyExpires
INVARIANT RefusedWasAbsent
\* the clock stops at MaxTime
CHECK_DEADLOCK FALSE
