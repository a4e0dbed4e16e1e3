SPECIFICATION Spec
CONSTANTS
    mei = mei
    nok = nok
    nobody = nobody
    small = small
    k1 = k1
    k2 = k2
    s1 = s1
    s2 = s2
    NoWriter = nobody
    ArcOf <- MCArcOf
    TranslatorOf <- MCTranslatorOf
    PackCoins <- MCPackCoins
    Adjustment <- MCAdjustment
    FeePercent = 30
    ArcBundleDiscountPercent = 15
    TipsEnabled = TRUE
    SellByArc = TRUE
    User = {mei, nok}
    Reader = {nok}
    Chapter = {1, 2}
    Arc = {1}
    Pack = {}
    Purchase = {}
    ClientKey = {k1}
    Slot = {s1, s2}
    Endpoints = {"unlock", "auto_unlock", "arc_unlock", "tip", "reprice", "publish", "subscribe"}
    Price = {4, 6}
    TipCoins = {3}
    Opening <- Rich
    BonusTTL = 1
    EarlyAccess = 1
    MaxTime = 0
    MaxRows = 3
INVARIANTS
    OneRowPerKey
    OneDebitPerChapter
    ReceiptsTruthful
PROPERTIES
    BundleAtCheckedPrices
    ImplementsShop
SYMMETRY MCSymmetry
CHECK_DEADLOCK FALSE
