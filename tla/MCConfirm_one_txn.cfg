\* Two ads offered the same transaction, which an ignore pattern matches.
SPECIFICATION Spec
CONSTANTS
    Ads = {a1, a2}
    Txns = {t1}
    Tabs = {s1, s2}
    Saas = {t1}
    NoAd = NoAd
    NoTxn = NoTxn
    Workers = 2
    MaxFaults = 1
    MayGiveUp = TRUE
SYMMETRY Symmetric
VIEW WithoutStatus
INVARIANT
    PointerBacked
PROPERTY
    ConsumedNeverReturns
CHECK_DEADLOCK TRUE
