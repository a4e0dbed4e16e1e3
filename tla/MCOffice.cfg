SPECIFICATION MCSpec
CHECK_DEADLOCK FALSE
INVARIANTS
    HistoryKeepsNewest
    PlacedTogether
    PayoutsCovered
    FairSplit
    NoJobIsStarved
    TurnsAreFirst
    FiguresFinal
    LimitsHold
    ListedOnce
PROPERTIES
    ReorderAsAsked
    TermsNoticed
    SchedulerKeepsRunning
    NightlyWriteOff
    NoStrays
CONSTANTS
    Book = {1, 2, 3}
    Collection = {"A", "B"}
    Editor = {1, 2}
    Wish <- MCWish
    Slot = {2}
    MaxEdits = 3
    Chapter = {1, 2}
    Arc = {1, 2}
    Number = {1, 2}
    Price = {0}
    Pen = {1, 2}
    Keep = 1
    MaxSaves = 3
    Group = {1, 2}
    Term = {11, 12}
    TermKey = {"a", "b"}
    Desk = {1, 2}
    MaxEntries = 5
    Writer = {"a", "b"}
    Request = {"a", "b"}
    WriterOf <- OneEach
    Earning = {1, 2}
    Amount <- Amounts
    MaxEarned = 4
    Sold = {1, 2, 3, 4}
    MaxPrice = 6
    DiscountPercent = 30
    Slots = 2
    Week = 2
    MonthDays <- MCMonths
    Zone = 1
    Replica = {1, 2}
    Schedules <- MCSchedules
    MaxRun <- MCMaxRun
    MaxStops = 1
    Saver = {1, 2, 3}
    Batch = 2
    BonusTTL = 2
    MaxHour = 3
    MaxGrants = 1
    Story = {1, 2}
    Hours = 2
    ServerZone = 0
    DaysPerMonth = 1
    MaxDays = 2
    MaxTraffic = 3
    Caller = {1, 2}
    Body = {1, 2}
    Worker = {1, 2}
    Rate = 1
    Per = 2
    Limit = 1
    Window = 3
    SweepAt = 2
    Lag = 1
    MaxNow = 5
    MaxAsks = 4
    Item = {1, 2, 3}
    Weight = {0, 1, 2}
    PageSize = 1
    MaxMoves = 2
