SPECIFICATION PayoutsSpec
CONSTANTS
    Writer = {"a"}
    Request = {"one", "two"}
    WriterOf <- AllOfOne
    Earning = {1, 2}
    Amount <- Amounts
    MaxEarned = 4
INVARIANT PayoutsCovered
CHECK_DEADLOCK FALSE
