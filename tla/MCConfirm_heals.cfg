\* Two tabs choose different transactions for one ad; nothing fails.
SPECIFICATION Spec
CONSTANTS
    Ads = {a1}
    Txns = {t1, t2}
    Tabs = {s1, s2}
    Saas = {}
    NoAd = NoAd
    NoTxn = NoTxn
    Workers = 2
    MaxFaults = 0
    MayGiveUp = FALSE
INVARIANT
    RetriesHeal
CHECK_DEADLOCK TRUE
