SPECIFICATION ShelfFairSpec
CONSTANTS
    m1 = m1
    m2 = m2
    c1 = c1
    c2 = c2
    e0 = e0
    e1 = e1
    Media = {m1, m2}
    Watched = {m1}
    Conn = {c1, c2}
    Setups <- AllParts
    Scores = {14, 15}
    MaxChanges <- Changes
    MaxFails = 1
    MaxJobs <- Jobs
    Film = film
    Series = series
    Episodes = {e0, e1}
    Seasons <- TmdbSeasons
    Specials <- TmdbSpecials
    Displayed <- OtherSeasons
CHECK_DEADLOCK FALSE
INVARIANTS
    WordStands
    ShelfInStep
PROPERTIES
    AllSettle
