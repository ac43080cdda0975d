\* One run at a time, repeated while ads are pending; three failures or kills;
\* three of the ads share a directory.
SPECIFICATION LiveSpec
CONSTANTS
    Confs = {c1, c2, c3, c4}
    c1 = c1
    c2 = c2
    c3 = c3
    c4 = c4
    Procs = {p}
    MaxFaults = 3
    Thread <- MCThread
    Dir <- MCDir
    MaxSuffix = 5
    NoConf = NoConf
    NoPath = NoPath
    Absent = Absent
    Torn = Torn
INVARIANTS
    TypeOK
    RecordedIsReceipt
    NoCopies
PROPERTIES
    NothingOverwritten
    ArchiveSpec
    EveryReceiptRecorded
CHECK_DEADLOCK TRUE
