-------------------------- MODULE MCShadowTrading --------------------------
(* Model-checking instance of ShadowTrading. *)
EXTENDS ShadowTrading
=============================================================================
