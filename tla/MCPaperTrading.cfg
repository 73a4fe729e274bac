CONSTANTS
    NoDate = NoDate
    AlpacaItems = {a}
    RssItems = {r1, r2}
    Important = {a, r1}
    PollLimit = 1
    Instants = {19, 32, 40}
    FinalDate = 1
    Fridays = {1}
    UtcMidnight = 38
SPECIFICATION PTSpec
INVARIANTS
    NewsHandledOnce
    ReviewOrder
PROPERTIES
    KeepsPolling
    LoopEndsCleanly
    
\* The loop ends and the calendar reaches its bound.
CHECK_DEADLOCK FALSE
