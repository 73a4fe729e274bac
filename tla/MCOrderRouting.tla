--------------------------- MODULE MCOrderRouting ---------------------------
(* Model-checking instance of OrderRouting: one instrument, booted in one of   *)
(* the modes that trade.                                                       *)
EXTENDS OrderRouting

MCLiveBoot == {"LIVE"}
=============================================================================
