\* Two tabs share one worker and users who follow the advice to retry.
SPECIFICATION LiveSpec
CONSTANTS
    Ads = {a1}
    Txns = {t1}
    Tabs = {s1, s2}
    Saas = {}
    NoAd = NoAd
    NoTxn = NoTxn
    Workers = 1
    MaxFaults = 2
    MayGiveUp = FALSE
PROPERTIES
    EveryRequestEnds
    OrphanHeals
CHECK_DEADLOCK TRUE
