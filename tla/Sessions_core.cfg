SPECIFICATION FairSpec
CONSTANTS
    Reqs = {r1, r2}
    r1 = r1
    r2 = r2
    Passwords = {p1, p2, p3}
    p1 = p1
    p2 = p2
    p3 = p3
    First = p1
    MaxVersion = 2
INVARIANTS
    TypeOK
    RefreshKnowsPassword
PROPERTIES
    OnlyOvertakenEscape
    OldSessionsEnd
