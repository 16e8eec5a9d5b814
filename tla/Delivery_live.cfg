SPECIFICATION FairSpec
CONSTANTS
    Orgs = {o1, o2}
    Jobs = {j1, j2}
    Ticks = {t1, t2}
    Publishers = {p1}
    o1 = o1
    o2 = o2
    j1 = j1
    j2 = j2
    t1 = t1
    t2 = t2
    p1 = p1
    NoJob = NoJob
    JobOrg <- MCJobOrg
    Target <- MCMixed
    MaxAttempts = 2
    Batch = 1
    MaxContent = 1
    FaultKinds = {"crash", "db", "slow"}
    MaxFaults = 1
INVARIANTS
    AttemptBudget
    SuccessWasSent
PROPERTIES
    EventuallySettles
