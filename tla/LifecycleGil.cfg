SPECIFICATION Spec
CONSTANTS
    Threads = {t1, t2}
    Main = t1
    Workers = {w1}
    Conns = {c1}
    UDF = UDF
    NULL = NULL
    MaxDepth = 2
    CallKinds = {"released", "kept"}
    Untracked = {}
CHECK_DEADLOCK FALSE
INVARIANT NoCircularWait
