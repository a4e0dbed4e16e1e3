SPECIFICATION MCSpec
CHECK_DEADLOCK FALSE
INVARIANTS
    CountersMatch
    AnswersTruthful
    BodyOnlyToEntitled
    EntitledAreServed
    FamilyIsChain
PROPERTIES
    RatingHeals
    EveryRequestAnswered
    RowsStayTheirs
    StaysSignedIn
CONSTANTS
    mei = mei
    nok = nok
    anon = anon
    tr = tr
    ot = ot
    adm = adm
    n1 = n1
    n2 = n2
    q1 = q1
    q2 = q2
    q3 = q3
    k1 = k1
    k2 = k2
    k3 = k3
    Reader = {mei, nok, tr, adm}
    Novel = {n1, n2}
    Comment = {1, 2, 3}
    Request = {q1, q2, q3}
    Histories <- MCHistories
    MaxFaults = 1
    Call = {k1, k2, k3}
    Chapter = {"first", "other"}
    Admin = {adm}
    TranslatorOf <- MCTranslatorOf
    Visitor = {anon, mei, tr, ot, adm}
    Buyer = {mei}
    Anonymous = anon
    RolesOf <- MCRolesOf
    Translator = tr
    Open = {1}
    Price = {0, 3}
    Lead = {0, 1}
    MaxTime = 3
    MaxChanges = 2
    Owner = {"mei", "nok"}
    Device = {1, 2}
    Tab = {"saved", "done"}
    Pct <- MCPct
    Item = {1}
    MaxClock = 2
    MaxWrites = 2
    Token = {1, 2, 3, 4}
    None = None
    Caller = {"one", "two"}
    BrowserTab = {"first"}
    TabOf <- OneTab
    TTL = 1
    Retain = 0
    Faults = {"request", "reply", "server", "mount", "reload"}
    MaxLogins = 2
    MaxErrors = 1
    MaxTicks = 2
