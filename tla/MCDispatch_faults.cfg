SPECIFICATION Spec
CONSTANTS
    Rides = {r1}
    Drivers = {d1, d2}
    AcceptRequests = {q1, q2}
    EndRequests = {e1}
    PingRequests = {p1}
    None = None
    Radii = 1
    FlagsExpire = TRUE
    Faults = TRUE
SYMMETRY Symmetry
INVARIANT TypeOK
INVARIANT TripMatchesRide
INVARIANT OnlyOffered
PROPERTY ImplementsAssignment
\* Rides end and drivers need not call: the system may stop.
CHECK_DEADLOCK FALSE
