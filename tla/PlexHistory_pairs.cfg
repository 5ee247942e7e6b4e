SPECIFICATION PlexFairSpec
CONSTANTS
    m1 = m1
    c1 = c1
    c2 = c2
    Media = {m1}
    Conn = {c1, c2}
    Setups <- AllPairs
    MaxTime = 2
    MaxFails = 1
    MaxJobs <- Jobs
    MaxAge = 3
CHECK_DEADLOCK FALSE
INVARIANTS
    NoEcho
    CursorCovers
PROPERTIES
    Settles
