SPECIFICATION Spec
CONSTANTS
    Rides = {r1}
    Drivers = {d1}
    AcceptRequests = {q1}
    EndRequests = {e1}
    PingRequests = {}
    None = None
    Radii = 1
    FlagsExpire = TRUE
    Faults = FALSE
INVARIANT AssignedNotCancelled
\* Rides end and drivers need not call: the system may stop.
CHECK_DEADLOCK FALSE
