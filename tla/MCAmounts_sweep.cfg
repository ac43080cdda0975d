SPECIFICATION Sweep
CONSTANTS
    Prices <- MCPrices
    Values <- MCValues
    RowsOf <- MCRowsOf
    MaxRows <- MCMaxRows
    Unreadable = Unreadable
    Empty = Empty
    Missing = Missing
    NoIndex = NoIndex
INVARIANTS StrongIsPlausible
    ParsedAsLaidOut KeysTellApart UnreadableCostsOne
PROPERTY CloserScoresNoLess
\* The sweeps end above the last amount of interest and with the last row.
CHECK_DEADLOCK FALSE
