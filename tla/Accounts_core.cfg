\* The last super admin can go (see LossOvertaken), and then nobody can act.
CHECK_DEADLOCK FALSE
SPECIFICATION Spec
CONSTANTS
    Users = {u1, u2}
    Orgs = {o1, o2}
    Reqs = {r1, r2}
    u1 = u1
    u2 = u2
    o1 = o1
    o2 = o2
    r1 = r1
    r2 = r2
    NoOrg = NoOrg
    Keep = Keep
    Root = u1
    NewUsers <- AllNewUsers
    Patches <- AllPatches
    OrgDeletes = TRUE
SYMMETRY MCSymmetry
INVARIANTS
    TypeOK
    PairUnlessOvertaken
PROPERTIES
    LossOvertaken
