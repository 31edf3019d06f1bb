SPECIFICATION FairSpec
CONSTANTS
    Calls = {k1, k2}
    PoolSize = 1
    NumConns = 2
    MaxAcquired = 0
    Closer = Closer
    NULL = NULL
CHECK_DEADLOCK FALSE
PROPERTIES
    CancelledCallEnds
    CloseEnds
