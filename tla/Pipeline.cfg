SPECIFICATION Spec
CONSTANTS
    NameOrder <- McNameOrder
    PgNames <- McPgNames
    HexKeys = {"0000000a", "0000000b"}
    UuidKeys = {}
    Numerals = {"1", "2", "3", "4", "5", "7", "8", "9", "10"}
    TimestampFields = {}
    MidnightDates = {}
    Reserved = {}
    Collections <- McCollections
    Name = "shop"
    IdOrder <- McIdOrder
    TextOrder <- McTextOrder
    NewId <- McNewId
    PlanFor <- InferredPlan
    Exported <- ExportLoad
    Streamed <- StreamLoad
    Accepts <- PgAccepts
    TargetsOf <- PlanTargets
    RecordsOf <- MongoRecords
    RecordOf <- PgRecord
    CountsFor <- PlanCounts
    MongoCursorRetryMax = 1
    PgStreamRetryMax = 1
    PgStreamIdleStallRetryMax = 1
    TargetMd5RetryMax = 1
    MaxFailures = 2
    MaxChanges = 1
INVARIANT TypeOK
INVARIANT SchemasAgree
INVARIANT ScriptIsOrdered
INVARIANT SampledRowsFit
INVARIANT StreamedAsExported
INVARIANT NothingLost
INVARIANT ReportIsFounded
INVARIANT LoadedAgrees
INVARIANT NoFalseAlarm
INVARIANT AcceptedIsFaithful
