CONSTANTS
    Backends = {"pybind", "capi"}
    Db = Db
    Conns = {c1}
    Results = {r1, r2}
    TableResults = {q1}
    Stmts = {s1}
    NULL = NULL
SPECIFICATION Spec
CHECK_DEADLOCK FALSE
SYMMETRY HandleSymmetry
INVARIANTS
    TypeOK
    OutlivesUsers
    ClosesChildrenFirst
    ChecksSuffice
    CollectedIsReleased
    DatabaseReleased
