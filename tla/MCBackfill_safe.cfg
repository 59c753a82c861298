CONSTANTS
    p1 = p1
    p2 = p2
    p3 = p3
    a = a
    b = b
    c = c
    NoPair = NoPair
    Pairs = {p1, p2, p3}
    Tokens = {a, b, c}
    TokensOf <- MCTokensOf
    CreatedAt <- MCCreatedAt
    Unreadable = {c}
    BlockRange = 3
    ChunkSize = 2
    TokenBatch = 2
    MetadataBatch = 2
    MaxRetries = 3
    MaxBigint = 15
    PairsHasCreatedAt = FALSE
    FaultyCalls <- Harmless
    InitHead = 6
    MaxHead = 8
    MaxFaults = 2
    MaxRestarts = 2
    MaxId = 5
SPECIFICATION RowsSpec
INVARIANTS TypeOK ProgressWithinChain NoPairLost SuccessCovers
PROPERTIES RecordedWhenProcessed SweepRefined ReadsLastWrite
CHECK_DEADLOCK FALSE
