\* A parent and a child share two partitions.
CONSTANTS
    nobody = nobody
    parent = parent
    child = child
    p1 = p1
    p2 = p2
    Workers = {parent, child}
    Nobody = nobody
    Parent = parent
    Partitions = {p1, p2}
    RequiredStreak = 2
    MaxLog = 1
    MaxDisturbances = 1
SPECIFICATION FairSpec
INVARIANTS
    TypeOK
    CaughtUpMeansDelivered
PROPERTY EveryWorkerEnds
\* All workers may have ended.
CHECK_DEADLOCK FALSE
