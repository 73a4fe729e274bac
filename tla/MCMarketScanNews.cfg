CONSTANTS
    NoVerdict = NoVerdict
    Registered <- MCRegistered
    Rows <- MCRows
    Failures <- MCFailures
    Contexts <- MCContexts
    MinQualified = 75
SPECIFICATION PathSpec
INVARIANTS
    NewsBlocks
\* A signal is judged once.
CHECK_DEADLOCK FALSE
