\* Three alerts (one batched, one transaction of it refused) and one failure.
SPECIFICATION Spec
CONSTANTS
    Alerts = {1, 2, 3}
    Runs = {d, c}
    Daemon = d
    Days = 1
    MaxDay = 1
    MaxFaults = 1
    Unreadable = Unreadable
    Empty = Empty
    Missing = Missing
    NoIndex = NoIndex
    Blocks <- MCBlocks
    Saas <- MCSaas
    Poison <- MCPoison
    Lookback <- MCLookback
INVARIANTS
    TypeOK
    LogsAccountForRows
    QuietBackfillHolds
PROPERTIES
    SuccessMeansStored
    LedgerSpec
CHECK_DEADLOCK TRUE
