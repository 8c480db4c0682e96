\* One process, every kind of event, two tables.
CONSTANTS
    k1 = k1
    k2 = k2
    k3 = k3
    t1 = t1
    t2 = t2
    Keys = {k1, k3}
    Kinds = {"upsert", "literal", "delete", "poison", "hollow", "incomplete"}
    MaxLog = 3
    Tables = {t1, t2}
    TableOf <- CollectionOf
    Existing = {k1}
    AutoCommit = TRUE
    BatchSize = 2
    FlushAfter = FALSE
    SnapshotMode = FALSE
    MaxIncarnations = 1
SPECIFICATION Spec
INVARIANTS
    TypeOK
    InOnePlace
\* The last process may end, and none is started again.
CHECK_DEADLOCK FALSE
