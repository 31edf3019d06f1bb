CONSTANTS
    Backends = {"pybind"}
    Threads = {t1}
    Conns = {c1}
    Values <- MixedValues
    Type <- TypeOfEach
    PybindKey <- PybindKeyOfEach
    CapiKey <- CapiKeyOfEach
    Frames = {}
    Addresses = {}
    Schemas = {s1}
    MaxCalls = 6
    NULL = NULL
SPECIFICATION Spec
CHECK_DEADLOCK FALSE
INVARIANT PlanFitsValue
