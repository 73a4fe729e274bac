CONSTANTS
    None = None
    Symbols = {SPY}
    Names = {SPY}
    MaxTickets = 3
    BootModes <- MCBootModes
    MaxHistory = 4
    StartingCash = 9000
    SlipBps = 500
    FeePerShare = 1
    Lots <- MCLots
    Marks = {1800}
SPECIFICATION TPSpec
INVARIANTS
    NoDuplicateOpen
    VenueMatchesMode
    FillsAreTickets
    BookExplained
    AuditTrailFaithful
    StopConfinesMode
PROPERTY ImplementsKillSwitch
\* The tickets and the history reach their bounds.
CHECK_DEADLOCK FALSE
