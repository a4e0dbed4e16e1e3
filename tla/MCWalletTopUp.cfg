SPECIFICATION Spec
CONSTANTS
    mei = mei
    nok = nok
    nobody = nobody
    small = small
    k1 = k1
    k2 = k2
    s1 = s1
    s2 = s2
    NoWriter = nobody
    ArcOf <- MCArcOf
    TranslatorOf <- MCTranslatorOf
    PackCoins <- MCPackCoins
    Adjustment <- MCAdjustment
    FeePercent = 30
    ArcBundleDiscountPercent = 15
    TipsEnabled = TRUE
    SellByArc = TRUE
    User = {nok}
    Reader = {nok}
    Chapter = {2}
    Arc = {}
    Pack = {small}
    Purchase = {1, 2}
    ClientKey = {k1, k2}
    Slot = {s1, s2}
    Endpoints = {"topup", "adjust", "bonus_expire", "unlock"}
    Price = {4}
    TipCoins = {}
    Opening <- Broke
    BonusTTL = 1
    EarlyAccess = 1
    MaxTime = 2
    MaxRows = 3
INVARIANTS
    RunningTotal
    PurchaseCreditedOnce
SYMMETRY MCSymmetry
CHECK_DEADLOCK FALSE
