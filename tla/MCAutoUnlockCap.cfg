SPECIFICATION Spec
CHECK_DEADLOCK FALSE
PROPERTY AutoDebitWithinCap
CONSTANTS
    r1 = r1
    r2 = r2
    Reader = {2}
    Chapter = {1}
    Replica = {r1}
    Price = {2, 3}
    Cap = {2}
    TopUp = 2
    Batch = 1
    Window = 3
    RetryAfter = 1
    MaxAttempts = 2
    Events = {"publish", "reprice"}
    Faults = {}
    MaxFaults = 0
    MaxTime = 2
    MaxCoins = 8
    Opening <- MCOpening
