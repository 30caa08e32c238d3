SPECIFICATION FairSpec
CONSTANTS
    Rides = {r1}
    Drivers = {d1}
    AcceptRequests = {q1, q2}
    EndRequests = {e1}
    PingRequests = {}
    None = None
    Radii = 2
    FlagsExpire = TRUE
    Faults = FALSE
INVARIANT RideKeyTrue
INVARIANT NobodyForgotten
PROPERTY EveryRideDecided
PROPERTY MatchedIsAssigned
PROPERTY RequestsReturn
\* Rides end and drivers need not call: the system may stop.
CHECK_DEADLOCK FALSE
