\* Rows that PostgreSQL refuses, in a buffer of two.
CONSTANTS
    k1 = k1
    k2 = k2
    k3 = k3
    t1 = t1
    t2 = t2
    Keys = {k1, k3}
    Kinds = {"upsert", "poison"}
    MaxLog = 3
    Tables = {t1, t2}
    TableOf <- CollectionOf
    Existing = {k1}
    AutoCommit = TRUE
    BatchSize = 2
    FlushAfter = FALSE
    SnapshotMode = FALSE
    MaxIncarnations = 1
SPECIFICATION Spec
INVARIANTS
    ReplayFailureIsDeadLettered
\* The last process may end, and none is started again.
CHECK_DEADLOCK FALSE
