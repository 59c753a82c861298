CONSTANTS
    s1 = s1
    s2 = s2
    s3 = s3
    pair = pair
    None = None
    Subs = {s1, s2, s3}
    Pairs = {pair}
    PairOf <- OnePair
    Buffer = 1
    MaxAttempts = 1
    MaxEvents = 0
    MaxFaults = 0
SPECIFICATION Spec
INVARIANTS ActiveWatched
CHECK_DEADLOCK FALSE
