SPECIFICATION Spec
CONSTANTS
    Numeral <- MCNumeral
    Order <- MCOrder
    Docs <- MCDocsOf
    SampleSize = 3
    ChunkSize = 2
    RetryMax = 1
    Workers = 2
    Raw = TRUE
    Grouping = TRUE
    MaxFaults = 3
    MaxRuns = 2
INVARIANT TypeOK
INVARIANT RecountedOnlyByRetries
INVARIANT SampleIsFull
INVARIANT OneCollectionPerTable
INVARIANT NothingLostByMove
INVARIANT SqlMatchesMappings
