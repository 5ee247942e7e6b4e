SPECIFICATION StubsSpec
CONSTANTS
    x = x
    y = y
    z = z
    a = a
    b = b
    ann = ann
    bob = bob
    None = None
    Ep = {x, y, z}
    Series = {a, b}
    Rows <- OneToEight
    Shows <- OneToFour
    Worlds <- AllWorlds
    MaxActs = 3
INVARIANT RightEpisode
PROPERTIES PlaysSurvive PullMerges VersionsFold
CHECK_DEADLOCK FALSE
