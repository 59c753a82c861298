CONSTANTS
    a = a
    b = b
    c = c
    ab = ab
    bc = bc
    Tokens = {a, b, c}
    Pairs = {ab, bc}
    Token0 <- MCToken0
    Token1 <- MCToken1
    Blocks = {0, 1, 2, 3, 4, 5, 6}
    NoPair = NoPair
    BatchSize = 3
    ChunkSize = 2
    Wrap = 32
    Ranges <- MCRanges
    InitHead = 5
    MaxHead = 6
    MaxFaults = 2
    MaxCalls = 2
SPECIFICATION Spec
INVARIANTS TypeOK SuccessCollects CheckpointTrue NeverOlder ListShowsNewest
PROPERTIES WithinRange
CHECK_DEADLOCK FALSE
