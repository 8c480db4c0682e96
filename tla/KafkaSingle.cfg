\* One event per statement, manual offset commits.
CONSTANTS
    k1 = k1
    k2 = k2
    Keys = {k1, k2}
    Kinds = {"upsert", "hollow", "poison", "garbled"}
    MaxLog = 4
    AutoCommit = FALSE
    BatchSize = 1
    FlushAfter = FALSE
    MaxIncarnations = 2
    MaxCommitFailures = 1
SPECIFICATION Spec
SYMMETRY KeySymmetry
INVARIANTS
    TypeOK
PROPERTY ImplementsAtLeastOnce
\* The last process may end, and none is started again.
CHECK_DEADLOCK FALSE
