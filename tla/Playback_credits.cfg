SPECIFICATION Spec
CONSTANTS
    m1 = m1
    m2 = m2
    jf = jf
    em = em
    px = px
    kd = kd
    ja = ja
    pa = pa
    Media = {m1}
    Server = {jf, em, px, kd, ja, pa}
    Kind <- Kinds
    Full = {jf, em, px, kd}
    Side = {ja, pa}
    Pushing = {jf, em}
    NoSession <- Untracked
    NoWatched = {}
    Ordered <- InOrder
    Window = 0
    TTL = 1
    Retry = 1
    MaxFlight = 1
    LongCredits = TRUE
    Latency = 0
    MaxActs = 2
    MaxTime = 1
    MaxFaults = 1
CHECK_DEADLOCK FALSE
INVARIANTS
    NoPhantomPlay
