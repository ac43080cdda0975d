SPECIFICATION Spec
CONSTANTS
    Emails = {e1, e2}
    e1 = e1
    e2 = e2
    Internal = Internal
    MailName <- MCMailName
    Spellings = {"news"}
    Norm <- MCNorm
    Mailboxes <- MCMailboxes
    VendorLists <- MCVendorLists
    MaxMessages = 2
    Procs = {p, q}
    Db = Db
    Ids = {1, 2, 3, 4, 5, 6}
    IdsOf <- MCIdsOf
    NoId = NoId
    NoRow = NoRow
    NoHit = NoHit
    MaxFaults = 1
    MaxEdits = 1
SYMMETRY Symmetric
INVARIANTS
    TypeOK
    UniqueKeys
    LinksHaveEnds
PROPERTIES
    ScanLogIsTrue
    DoneMeansRegistered
    NonDestructive
    RegistrySpec
CHECK_DEADLOCK TRUE
