\* Two popups are offered the same transaction.
SPECIFICATION Spec
CONSTANTS
    Ads = {a1, a2}
    Txns = {t1}
    Tabs = {s1, s2}
    Saas = {}
    NoAd = NoAd
    NoTxn = NoTxn
    Workers = 2
    MaxFaults = 0
    MayGiveUp = TRUE
INVARIANT
    ConfirmationPointedBack
CHECK_DEADLOCK TRUE
