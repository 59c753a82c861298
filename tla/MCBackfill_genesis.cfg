CONSTANTS
    p1 = p1
    p2 = p2
    p3 = p3
    a = a
    b = b
    c = c
    NoPair = NoPair
    Pairs = {p1, p2, p3}
    Tokens = {a, b, c}
    TokensOf <- MCTokensOf
    CreatedAt <- MCCreatedAt
    Unreadable = {}
    BlockRange = 3
    ChunkSize = 2
    TokenBatch = 2
    MetadataBatch = 2
    MaxRetries = 2
    MaxBigint = 15
    PairsHasCreatedAt = FALSE
    FaultyCalls <- NoCalls
    InitHead = 7
    MaxHead = 8
    MaxFaults = 0
    MaxRestarts = 0
SPECIFICATION FairSpec
PROPERTIES NewPairsFound
