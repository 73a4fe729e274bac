CONSTANTS
    None = None
    Symbols = {SPY, QQQ}
    Prices = {100, 105}
    Delay = 1
    Window = 1
    MaxOrders = 2
SPECIFICATION FeedSpec
INVARIANTS
    PnlFromMatches
    NotResolvedEarly
PROPERTY OrdersGetResolved
\* The loop ends when it is stopped.
CHECK_DEADLOCK FALSE
