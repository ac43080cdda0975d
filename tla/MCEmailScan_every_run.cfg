\* Nothing fails; Postgres refuses one row.
SPECIFICATION Spec
CONSTANTS
    Alerts = {1, 2}
    Runs = {d, c}
    Daemon = d
    Days = 1
    MaxDay = 1
    MaxFaults = 0
    Unreadable = Unreadable
    Empty = Empty
    Missing = Missing
    NoIndex = NoIndex
    Blocks <- MCBlocks
    Saas <- MCSaas
    Poison <- MCPoison
    Lookback <- MCLookback
PROPERTY
    EveryRunLogged
CHECK_DEADLOCK TRUE
