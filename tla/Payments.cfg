SPECIFICATION FairSpec
CONSTANTS
    PaymentRequests = {q1, q2}
    Methods = {CARD, CASH}
    Offline = {CASH}
    MAX_RETRIES = 3
    MaxPaid = 2
    Tier = "ECONOMY"
    Distance = 10
    Durations = {10, 100}
    SurgeKey = 12
    None = None
INVARIANT TypeOK
INVARIANT ChargedAfterTrip
INVARIANT SuccessWasCharged
INVARIANT ChargedTheFare
INVARIANT MinimumCharged
PROPERTY ChargesCostCalls
PROPERTY RequestAnswered
\* The bound MaxPaid stops new requests.
CHECK_DEADLOCK FALSE
