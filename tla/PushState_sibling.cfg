SPECIFICATION Spec
CONSTANTS
    i1 = i1
    i2 = i2
    a1 = a1
    a2 = a2
    b1 = b1
    v1 = v1
    v2 = v2
    p1 = p1
    p2 = p2
    Item = {i1}
    Copy = {a1, a2}
    Home <- Homes
    Known = {a1, a2}
    Value = {v1}
    Slot = {p1, p2}
    Week = 2
    MissTTL = 1
    MaxEdits = 1
    MaxFaults = 1
INVARIANTS
    RecordedEverywhere
