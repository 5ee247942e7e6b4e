SPECIFICATION FairSpec
CONSTANTS
    m1 = m1
    m2 = m2
    m3 = m3
    px = px
    py = py
    jf = jf
    Media = {m1, m2}
    Sid = {1, 2}
    Conn = {px, jf}
    Type <- Kinds
    Reporting = {px, jf}
    MinExisting = 2
    MaxChanges = 2
    MaxFixes = 1
    MaxTroubles = 1
CHECK_DEADLOCK FALSE
INVARIANTS
    PullMirrors
    EmptyOnlyCrossed
PROPERTIES
    Follows
