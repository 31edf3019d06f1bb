CONSTANTS
    Threads = {t1, t2}
    Settings = {timeout}
    Timeout = timeout
    HasPybind = TRUE
    MaxCalls = 3
    MaxSets = 1
    None = None
SPECIFICATION Spec
CHECK_DEADLOCK FALSE
SYMMETRY ThreadSymmetry
INVARIANTS
    SettingsReachBackend
