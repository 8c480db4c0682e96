\* Transactions of two events, offsets committed by the client's timer.
CONSTANTS
    k1 = k1
    k2 = k2
    Keys = {k1}
    Kinds = {"upsert", "hollow", "poison"}
    MaxLog = 5
    AutoCommit = TRUE
    BatchSize = 2
    FlushAfter = TRUE
    MaxIncarnations = 2
    MaxCommitFailures = 0
SPECIFICATION FairSpec
INVARIANTS
    RowsShowLatestApplied
    OneBatchAtRisk
PROPERTY CatchesUp
\* The last process may end, and none is started again.
CHECK_DEADLOCK FALSE
