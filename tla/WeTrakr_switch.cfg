SPECIFICATION Spec
CONSTANTS
    i1 = i1
    i2 = i2
    Item = {i1}
    Setups <- Cores
    Choices <- OneByOne
    MaxChanges = 3
    MaxFails = 1
CHECK_DEADLOCK FALSE
INVARIANTS
    SwitchedOnMeansAll
