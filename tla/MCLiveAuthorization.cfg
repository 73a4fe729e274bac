CONSTANTS
    alice = alice
    bob = bob
    None = None
    Subjects = {s1}
    Approvers <- MCApprovers
    ApprovalTtl = 1
    MaxRequests = 1
    MaxAudit = 4
    MaxTime = 4
    BootModes <- MCBootModes
    MaxHistory = 3
    ManualItems = {rollback_plan_documented}
    AutomatedItems = {kill_switch_tested}
    Capitals = {1, 2}
    CapitalCap = 1
    AuthTtl = 1
    EnvAuthorized = TRUE
SPECIFICATION LASpec
INVARIANTS
    GrantsAreBacked
    DualControl
    AuditExplainsStatus
    GrantLifetime
\* The clock, the ledger, the audit log and the history reach their bounds.
CHECK_DEADLOCK FALSE
