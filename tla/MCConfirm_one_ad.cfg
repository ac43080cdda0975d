\* Two tabs on one ad, two transactions to choose from, two failures.
SPECIFICATION Spec
CONSTANTS
    Ads = {a1}
    Txns = {t1, t2}
    Tabs = {s1, s2}
    Saas = {t2}
    NoAd = NoAd
    NoTxn = NoTxn
    Workers = 2
    MaxFaults = 2
    MayGiveUp = TRUE
SYMMETRY Symmetric
INVARIANTS
    TypeOK
    ConfirmedIsDurable
    DiscrepancyTraced
    LimboExplained
PROPERTY
    SettlementSpec
CHECK_DEADLOCK TRUE
