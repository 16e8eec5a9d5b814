SPECIFICATION Spec
CONSTANTS
    Orgs = {o1}
    Jobs = {j1, j2}
    Ticks = {t1, t2}
    Publishers = {p1}
    o1 = o1
    j1 = j1
    j2 = j2
    t1 = t1
    t2 = t2
    p1 = p1
    NoJob = NoJob
    JobOrg <- MCJobOrg
    Target <- MCGit
    MaxAttempts = 2
    Batch = 1
    MaxContent = 2
    FaultKinds = {"crash", "db"}
    MaxFaults = 1
SYMMETRY MCSymmetry
INVARIANTS
    TypeOK
    ExclusiveDispatch
    SuccessCoversPublish
PROPERTIES
    Settled
    ImplementsLifecycle
