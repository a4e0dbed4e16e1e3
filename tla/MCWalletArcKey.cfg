SPECIFICATION Spec
CONSTANTS
    mei = mei
    nok = nok
    nobody = nobody
    small = small
    k1 = k1
    k2 = k2
    s1 = s1
    s2 = s2
    NoWriter = nobody
    ArcOf <- MCOneEach
    TranslatorOf <- MCTranslatorOf
    PackCoins <- MCPackCoins
    Adjustment <- MCAdjustment
    FeePercent = 30
    ArcBundleDiscountPercent = 15
    TipsEnabled = TRUE
    SellByArc = TRUE
    User = {mei, nok}
    Reader = {nok}
    Chapter = {1, 2}
    Arc = {1, 2}
    Pack = {}
    Purchase = {}
    ClientKey = {k1}
    Slot = {s1}
    Endpoints = {"arc_unlock"}
    Price = {4}
    TipCoins = {3}
    Opening <- Rich
    BonusTTL = 1
    EarlyAccess = 1
    MaxTime = 0
    MaxRows = 3
INVARIANT ReceiptNamesTarget
CHECK_DEADLOCK FALSE
