CONSTANTS
    p1 = p1
    p2 = p2
    p3 = p3
    a = a
    b = b
    c = c
    NoPair = NoPair
    Pairs = {p1, p2, p3}
    Tokens = {a, b, c}
    TokensOf <- MCTokensOf
    CreatedAt <- CreatedApart
    Unreadable = {c}
    BlockRange = 3
    ChunkSize = 2
    TokenBatch = 2
    MetadataBatch = 2
    MaxRetries = 2
    MaxBigint = 15
    PairsHasCreatedAt = TRUE
    FaultyCalls <- Calls
    InitHead = 6
    MaxHead = 8
    MaxFaults = 2
    MaxRestarts = 1
SPECIFICATION FairSpec
PROPERTIES WaitEnds CancelStops SweepDescends
CHECK_DEADLOCK FALSE
