SPECIFICATION FairSpec
CONSTANTS
    Clients = {c1, c2, c3}
    POOL_SIZE = 1
    MAX_OVERFLOW = 1
    MAX_RETRIES = 2
    None = None
INVARIANT TypeOK
INVARIANT Accounted
INVARIANT WaiterHoldsNothing
INVARIANT SomebodyWorks
PROPERTY EveryoneServed
\* All may be idle.
CHECK_DEADLOCK FALSE
