CONSTANTS
    s1 = s1
    s2 = s2
    s3 = s3
    pair = pair
    None = None
    Subs = {s1, s2}
    Pairs = {pair}
    PairOf <- OnePair
    Buffer = 1
    MaxAttempts = 1
    MaxEvents = 3
    MaxFaults = 1
SPECIFICATION FairSpec
INVARIANTS TypeOK RollbackInBounds ListedOnce ClosedUnlisted SingleHandler OneBinding
PROPERTIES BroadcastEnds
CHECK_DEADLOCK FALSE
