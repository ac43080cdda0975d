\* A look-back of two days, one failed pass, nothing refused; the passes are
\* fair.
SPECIFICATION LiveSpec
CONSTANTS
    Alerts = {2}
    Runs = {d, c}
    Daemon = d
    Days = 2
    MaxDay = 4
    MaxFaults = 1
    Unreadable = Unreadable
    Empty = Empty
    Missing = Missing
    NoIndex = NoIndex
    Blocks <- MCBlocks
    Saas <- MCSaas
    Poison <- MCNoPoison
    Lookback <- MCLookback
INVARIANTS
    NoWaitCycle
    AgedOutIsStored
PROPERTIES
    PassEnds
    AlertIsStored
CHECK_DEADLOCK TRUE
