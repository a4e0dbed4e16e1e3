SPECIFICATION FairSpec
CHECK_DEADLOCK FALSE
PROPERTY EveryPairDecided
PROPERTY PayingSubscriberServed
CONSTANTS
    r1 = r1
    r2 = r2
    Reader = {1, 2}
    Chapter = {1}
    Replica = {r1}
    Price = {2}
    Cap = {0}
    TopUp = 2
    Batch = 1
    Window = 3
    RetryAfter = 1
    MaxAttempts = 2
    Events = {"publish", "topup"}
    Faults = {"crash", "record"}
    MaxFaults = 1
    MaxTime = 3
    MaxCoins = 6
    Opening <- MCOpening
