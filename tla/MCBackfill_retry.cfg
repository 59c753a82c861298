CONSTANTS
    p1 = p1
    p2 = p2
    p3 = p3
    a = a
    b = b
    c = c
    NoPair = NoPair
    Pairs = {p1, p2, p3}
    Tokens = {a, b, c}
    TokensOf <- MCTokensOf
    CreatedAt <- MCCreatedAt
    Unreadable = {}
    BlockRange = 3
    ChunkSize = 2
    TokenBatch = 2
    MetadataBatch = 2
    MaxRetries = 2
    MaxBigint = 15
    PairsHasCreatedAt = FALSE
    FaultyCalls <- ProgressWrites
    InitHead = 6
    MaxHead = 8
    MaxFaults = 1
    MaxRestarts = 0
SPECIFICATION Spec
INVARIANTS SuccessCovers
