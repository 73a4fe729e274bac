------------------------ MODULE MCLiveAuthorization ------------------------
(* Model-checking instance of LiveAuthorization: one strategy, two people of   *)
(* whom alice claims both required roles, booted in SHADOW, the only mode      *)
(* below LIVE.                                                                 *)
EXTENDS LiveAuthorization

CONSTANTS alice, bob

MCApprovers ==
    {[name |-> alice, role |-> "RISK_OFFICER"],
     [name |-> alice, role |-> "PORTFOLIO_OWNER"],
     [name |-> bob, role |-> "PORTFOLIO_OWNER"]}

MCBootModes == {"SHADOW"}
=============================================================================
