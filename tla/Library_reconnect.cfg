SPECIFICATION Spec
CONSTANTS
    m1 = m1
    m2 = m2
    m3 = m3
    px = px
    py = py
    jf = jf
    Media = {m1, m2}
    Sid = {1, 2}
    Conn = {px}
    Type <- Kinds
    Reporting = {px}
    MinExisting = 2
    MaxChanges = 2
    MaxFixes = 1
    MaxTroubles = 1
CHECK_DEADLOCK FALSE
INVARIANTS
    NothingLeft
