SPECIFICATION FairSpec
CONSTANTS
    i1 = i1
    i2 = i2
    a1 = a1
    a2 = a2
    b1 = b1
    v1 = v1
    v2 = v2
    p1 = p1
    p2 = p2
    Item = {i1, i2}
    Copy = {a1, a2, b1}
    Home <- Homes
    Known = {a1, a2}
    Value = {v1, v2}
    Slot = {p1}
    Week = 2
    MissTTL = 1
    MaxEdits = 2
    MaxFaults = 1
INVARIANTS
    RecordedWasSent
PROPERTIES
    FullReconciles
    Converges
