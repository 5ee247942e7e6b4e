SPECIFICATION Spec
CONSTANTS
    m1 = m1
    m2 = m2
    jf = jf
    em = em
    px = px
    kd = kd
    ja = ja
    pa = pa
    Media = {m1}
    Server = {jf, em}
    Kind <- Kinds
    Full = {jf, em}
    Side = {}
    Pushing = {jf, em}
    NoSession <- AllTracked
    NoWatched <- Unsynced
    Ordered <- InOrder
    Window = 0
    TTL = 1
    Retry = 1
    MaxFlight = 1
    LongCredits = FALSE
    Latency = 0
    MaxActs = 2
    MaxTime = 1
    MaxFaults = 0
CHECK_DEADLOCK FALSE
INVARIANT NothingLeavesForEcho
