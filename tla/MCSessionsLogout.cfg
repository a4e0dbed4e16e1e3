SPECIFICATION SessionsSpec
CONSTANTS
    Token = {1, 2, 3, 4}
    None = None
    Caller = {"one", "two"}
    BrowserTab = {"first"}
    TabOf <- OneTab
    TTL = 2
    Retain = 1
    Faults = {}
    MaxLogins = 1
    MaxErrors = 0
    MaxTicks = 1
INVARIANTS
    LogoutEndsFamily
CHECK_DEADLOCK FALSE
