CONSTANTS
    c1 = c1
    c2 = c2
    a = a
    b = b
    s = s
    g = g
    r = r
    NoCaller = NoCaller
    Fallback = Fallback
    Callers = {c1, c2}
    Tokens = {a, b, s, g, r}
    Nature <- MCNature
    CodeNature <- MCCodeNature
    AbiMethods = {"name", "symbol", "decimals"}
    Operations <- MCOperations
    MetadataBatch = 2
    ScanBatch = 3
    MaxAttempts = 2
    MaxFaults = 2
SPECIFICATION FairSpec
INVARIANTS TypeOK Paced MetadataAligned FallbackEarned EntriesCounted OnlyLoneBatchFails BlocksComplete ScanKeyed
PROPERTIES Returns
CHECK_DEADLOCK FALSE
