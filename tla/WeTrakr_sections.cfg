SPECIFICATION FairSpec
CONSTANTS
    i1 = i1
    i2 = i2
    Item = {i1, i2}
    Setups <- Sections
    Choices <- AllOrNone
    MaxChanges = 2
    MaxFails = 1
CHECK_DEADLOCK FALSE
INVARIANTS
    PullCovers
    PushCovers
    WrittenOnce
PROPERTIES
    Settles
