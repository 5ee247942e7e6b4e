SPECIFICATION FairSpec
CONSTANTS
    m1 = m1
    c1 = c1
    h1 = h1
    Media = {m1}
    Cloud = {c1}
    Healer = {h1}
    RollsBack <- SomeRollBack
    Scheduled = {m1, c1}
    MaxJobs = 2
    MaxTime = 2
    Interval <- LongInterval
    Retention = 0
INVARIANTS
    NoOrphanRow
    MutualExclusion
    OneScheduled
PROPERTIES
    ScheduleKept
    LifeSpec
    JobsSettle
