SPECIFICATION Spec
CONSTANTS
    s1 = s1
    s2 = s2
    s3 = s3
    a = a
    b = b
    Id = {s1, s2, s3}
    File = {a, b}
    Files <- MCFiles
    MaxPriority = 2
    MinPriority = 1
    MaxDepth = 2
    MaxSize = 2
    DedupPercent = 50
    SaturationPercent = 100
    GraphSeeds = {s1}
    Concurrency = 1
    Budget = 1
    DeepThreshold = 2
    DepthBonus = 1
    BreadthPercent = 40
    MaxPaths = 1
    MaxFollowOns = 1
INVARIANTS
    TypeOK
    Bookkeeping
    NeverReenters
    NothingLost
    RepeatsBounded
    BudgetKept
PROPERTIES
    KeepsTheQueue
    CycleEnds
CHECK_DEADLOCK FALSE
