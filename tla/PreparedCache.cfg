CONSTANTS
    Backends = {"pybind", "capi"}
    Threads = {t1, t2}
    Conns = {c1, c2}
    Values <- FewValues
    Type <- TypeOfEach
    PybindKey <- PybindKeyOfEach
    CapiKey <- CapiKeyOfEach
    Frames = {f1, f2}
    Addresses = {a1}
    Schemas = {s1, s2}
    MaxCalls = 3
    NULL = NULL
SPECIFICATION Spec
CHECK_DEADLOCK FALSE
SYMMETRY CacheSymmetry
INVARIANTS
    TypeOK
    PlanFitsValue
    KeyDeterminesType
    RunsOwnValue
