SPECIFICATION Spec
CONSTANTS
    Calls = {k1, k2}
    PoolSize = 2
    NumConns = 2
    MaxAcquired = 1
    Closer = Closer
    NULL = NULL
SYMMETRY CallSymmetry
INVARIANTS
    TypeOK
    CounterIsLoad
    InterruptHitsCancelled
    ClosedIsQuiet
PROPERTY KeepsPromise
