SPECIFICATION FairSpec
CONSTANTS
    Threads = {t1, t2}
    Main = t1
    Workers = {w1}
    Conns = {c1}
    UDF = UDF
    NULL = NULL
    MaxDepth = 3
    CallKinds = {"released"}
    Untracked = {"interrupt", "init"}
PROPERTY CloseEnds
