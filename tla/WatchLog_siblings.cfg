SPECIFICATION Spec
CONSTANTS
    m1 = m1
    m2 = m2
    m3 = m3
    e1 = e1
    e2 = e2
    w1 = w1
    w2 = w2
    Poller = poller
    Media = {m1, m3}
    Episode = {e1, e2}
    Ep <- Eps
    Worker = {w1, w2}
    Window = 1
    Latency = 0
    Runtime = 1
    Total = 2
    SharedPlays = FALSE
    MaxPlays = 1
    MaxTime = 1
    MaxRewatch = 0
    MaxOther = 1
CHECK_DEADLOCK FALSE
INVARIANTS
    OnePlayOneEvent
SYMMETRY Symmetry
