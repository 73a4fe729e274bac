CONSTANTS
    None = None
    Symbols = {SPY}
    MaxTickets = 2
    BootModes <- MCLiveBoot
    MaxHistory = 1
SPECIFICATION ORSpec
INVARIANT BrokerHasNoDuplicates
\* The tickets and the history reach their bounds.
CHECK_DEADLOCK FALSE
