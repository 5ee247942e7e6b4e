SPECIFICATION Spec
CONSTANTS
    m1 = m1
    m2 = m2
    m3 = m3
    px = px
    py = py
    jf = jf
    Media = {m1, m2}
    Sid = {1, 2}
    Conn = {px}
    Type <- Kinds
    Reporting = {px}
    MinExisting = 2
    MaxChanges = 3
    MaxFixes = 1
    MaxTroubles = 0
CHECK_DEADLOCK FALSE
INVARIANTS
    RematchMirrors
