SPECIFICATION Spec
CONSTANTS
  a1 = a1
  a2 = a2
  a3 = a3
  NoAd = NoAd
  NoAmount = NoAmount
  NoDay = NoDay
  Ad <- MCAd
  Sender <- MCSender
  Lookback = 10
  Lookahead = 10
  Margin = 60
  MinScore = 6000
  PageLimit = 1
  Ads = {a1, a2}
  Txns = {1, 2, 3, 4}
  Strings = {"paper"}
  Row <- MCRow
  Vendor <- MCVendor
  Saas = {2}
  MaxFaults = 1
  TopN = 2
  Limit = 2
INVARIANTS TypeOK PopupListsOnce TakenIsNotOffered
PROPERTY PlausibleIsShown
