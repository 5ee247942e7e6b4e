SPECIFICATION Spec
CONSTANTS
    k1 = k1
    k2 = k2
    c1 = c1
    c2 = c2
    Key = {k1}
    Conn = {c1, c2}
    Floor = 2
    Patient = TRUE
    MaxEdits = 1
    MaxFaults = 0
PROPERTIES
    OnlyRemovedGoes
SYMMETRY Symmetry
