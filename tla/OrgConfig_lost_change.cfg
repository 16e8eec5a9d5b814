SPECIFICATION Spec
CONSTANTS
    Reqs = {r1, r2}
    r1 = r1
    r2 = r2
    Ships = {s1}
    s1 = s1
    MaxTime = 7
    MaxContent = 2
    MaxSettings = 0
INVARIANTS
    IndicatorHonest
