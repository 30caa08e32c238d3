SPECIFICATION FairSpec
CONSTANTS
    Keys = {k1, k2}
    CreateRequests = {q1, q2, q3}
    MaxRides = 4
    None = None
INVARIANT TypeOK
INVARIANT SameAnswer
INVARIANT AnswerIsStored
INVARIANT RefusedHasRide
PROPERTY ImplementsCreate
PROPERTY EveryRideMatched
\* The bound MaxRides stops new requests.
CHECK_DEADLOCK FALSE
