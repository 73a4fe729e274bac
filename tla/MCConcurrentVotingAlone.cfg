CONSTANTS
    alice = alice
    bob = bob
    bot = bot
    None = None
    Subjects = {s1}
    Approvers <- MCApprovers
    Threads = {t1, t2}
    ApprovalTtl = 1
    MaxRequests = 1
    MaxAudit = 6
    MaxTime = 2
SPECIFICATION CVSpec
INVARIANT DualControl
CHECK_DEADLOCK FALSE
