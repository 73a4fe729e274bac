------------------------ MODULE MCConcurrentVoting ------------------------
(* Model-checking instance of ConcurrentVoting: two handlers, two people who *)
(* each may claim a role, and the automated system.                          *)
EXTENDS ConcurrentVoting

CONSTANTS alice, bob, bot

Approver(name, role) == [name |-> name, role |-> role]

MCApprovers ==
    {Approver(alice, "RISK_OFFICER"), Approver(alice, "PORTFOLIO_OWNER"),
     Approver(bob, "PORTFOLIO_OWNER"), Approver(bob, "OPERATOR"),
     Approver(bot, "SYSTEM")}
=============================================================================
