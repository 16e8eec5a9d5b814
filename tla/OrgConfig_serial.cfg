SPECIFICATION Spec
CONSTANTS
    Reqs = {r1}
    r1 = r1
    Ships = {s1}
    s1 = s1
    MaxTime = 6
    MaxContent = 2
    MaxSettings = 2
INVARIANTS
    TypeOK
    IndicatorHonest
