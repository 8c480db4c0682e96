\* A single worker, one rebalance, with the streak the code asks of it.
CONSTANTS
    nobody = nobody
    parent = parent
    child = child
    p1 = p1
    p2 = p2
    Workers = {parent}
    Nobody = nobody
    Parent = parent
    Partitions = {p1}
    RequiredStreak = 4
    MaxLog = 1
    MaxDisturbances = 1
SPECIFICATION Spec
PROPERTY StopsAtZeroLag
CHECK_DEADLOCK FALSE
