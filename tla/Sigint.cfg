SPECIFICATION FairSpec
CONSTANTS
    Contexts = {x1, x2, x3}
    Signals = {s1, s2}
    MaxNesting = 2
    NULL = NULL
CHECK_DEADLOCK FALSE
INVARIANTS
    TypeOK
    NoDanglingInterrupt
    ChainsToPython
    RestoredWhenIdle
PROPERTY DestructorEnds
