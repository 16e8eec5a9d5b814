SPECIFICATION Spec
CONSTANTS
    o1 = o1
    o2 = o2
    r1 = r1
    r2 = r2
    Null = Null
    Orgs = {o1, o2}
    Reqs = {r1, r2}
    Scopes <- MCScopes
    Ops <- MCOps
    FaultKinds = {"put", "remove", "insert", "delete"}
    MaxFaults = 1
    MaxId = 3
SYMMETRY MCSymmetry
INVARIANTS
    TypeOK
    Isolation
    ContextKept
    ObjectsMatchRows
    NoRowsLeft
CHECK_DEADLOCK FALSE
