SPECIFICATION Spec
CONSTANTS
    Threads = {t1, t2}
    Main = t1
    Workers = {w1, w2}
    Conns = {c1, c2}
    UDF = UDF
    NULL = NULL
    MaxDepth = 3
    CallKinds = {"released"}
    Untracked = {}
SYMMETRY ConnSymmetry
INVARIANTS
    TypeOK
    InFlightCountsFrames
    TeardownIsAlone
    UdfNeverWaitsInClose
    NoCircularWait
PROPERTY AbortReopensUsable
