\* A snapshot import into a table that already holds a row.
CONSTANTS
    k1 = k1
    k2 = k2
    k3 = k3
    t1 = t1
    t2 = t2
    Keys = {k1, k2}
    Kinds = {"upsert", "delete"}
    MaxLog = 3
    Tables = {t1, t2}
    TableOf <- CollectionOf
    Existing = {k1, k2}
    AutoCommit = TRUE
    BatchSize = 2
    FlushAfter = FALSE
    SnapshotMode = TRUE
    MaxIncarnations = 1
SPECIFICATION Spec
INVARIANTS
    SnapshotStartsClean
\* The last process may end, and none is started again.
CHECK_DEADLOCK FALSE
