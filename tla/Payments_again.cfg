SPECIFICATION FairSpec
CONSTANTS
    PaymentRequests = {q1}
    Methods = {CARD}
    Offline = {}
    MAX_RETRIES = 3
    MaxPaid = 3
    Tier = "ECONOMY"
    Distance = 10
    Durations = {10, 100}
    SurgeKey = 12
    None = None
INVARIANT PaidOnce
\* The bound MaxPaid stops new requests.
CHECK_DEADLOCK FALSE
