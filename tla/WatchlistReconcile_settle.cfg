SPECIFICATION FairSpec
CONSTANTS
    k1 = k1
    k2 = k2
    c1 = c1
    c2 = c2
    Key = {k1, k2}
    Conn = {c1}
    Floor = 2
    Patient = TRUE
    MaxEdits = 3
    MaxFaults = 1
CHECK_DEADLOCK FALSE
PROPERTIES
    NoResurrection
    OnlyRemovedGoes
    Settles
