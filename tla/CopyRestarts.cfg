\* One document, restarts, buffers flushed early.
CONSTANTS
    k1 = k1
    k2 = k2
    k3 = k3
    t1 = t1
    t2 = t2
    Keys = {k1}
    Kinds = {"upsert", "delete", "garbled"}
    MaxLog = 4
    Tables = {t1, t2}
    TableOf <- CollectionOf
    Existing = {k1}
    AutoCommit = TRUE
    BatchSize = 2
    FlushAfter = TRUE
    SnapshotMode = FALSE
    MaxIncarnations = 2
SPECIFICATION FairSpec
INVARIANTS
    OvertakenOnlyAcrossPaths
    OneBufferAtRisk
PROPERTY CatchesUp
\* The last process may end, and none is started again.
CHECK_DEADLOCK FALSE
