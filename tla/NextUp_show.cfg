SPECIFICATION Spec
CONSTANTS
    Room <- TwoSeasons
    absent = absent
    undated = undated
    Absent = absent
    Undated = undated
    None = None
    Starts <- Shows
    Recheck = 1
    Ahead = 1
    MaxEvents = 2
PROPERTIES ShownAired LeftTrue Surfaces
