SPECIFICATION Spec
CHECK_DEADLOCK FALSE
INVARIANT LogTruthful
INVARIANT TriesBounded
 
SYMMETRY MCSymmetry
CONSTANTS
    r1 = r1
    r2 = r2
    Reader = {1}
    Chapter = {1}
    Replica = {r1, r2}
    Price = {1, 3}
    Cap = {2}
    TopUp = 2
    Batch = 2
    Window = 3
    RetryAfter = 1
    MaxAttempts = 2
    Events = {"buy", "topup", "subscribe", "cancel", "publish", "unpublish", "reprice"}
    Faults = {"crash", "record", "debit", "reply"}
    MaxFaults = 1
    MaxTime = 1
    MaxCoins = 3
    Opening <- MCOpening
