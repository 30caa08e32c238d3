SPECIFICATION Spec
CONSTANTS
    Rides = {r1, r2}
    Drivers = {d1}
    AcceptRequests = {q1}
    EndRequests = {e1, e2}
    PingRequests = {p1}
    None = None
    Radii = 1
    FlagsExpire = TRUE
    Faults = FALSE
SYMMETRY Symmetry
INVARIANT TripsCounted
PROPERTY DriverKeyAgrees
PROPERTY SettledStays
\* Rides end and drivers need not call: the system may stop.
CHECK_DEADLOCK FALSE
