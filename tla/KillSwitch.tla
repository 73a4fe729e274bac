----------------------------- MODULE KillSwitch -----------------------------
(***************************************************************************)
(* What the master kill switch promises, without the trading modes.        *)
(*                                                                         *)
(* The switch is either armed or tripped.  While it is armed, trading may  *)
(* be turned on and off freely; tripping it turns trading off in the same  *)
(* step, and it stays off until a separate, later step re-arms the switch. *)
(* Re-arming does not resume trading.  core/system_state.py is shown to    *)
(* implement this in SystemState (property ImplementsKillSwitch).          *)
(***************************************************************************)
VARIABLES
    tripped,    \* the emergency flag
    trading     \* what is_trading_allowed() answers

ksvars == <<tripped, trading>>

KSInit == tripped = FALSE /\ trading \in BOOLEAN

\* Anyone, at any time, and as often as they like.
Trip == tripped' = TRUE /\ trading' = FALSE

\* The manual reset; trading has to be started again explicitly.
Rearm == tripped /\ tripped' = FALSE /\ trading' = FALSE

\* Ordinary mode changes.
Operate == ~tripped /\ tripped' = FALSE /\ trading' \in BOOLEAN

KSNext == Trip \/ Rearm \/ Operate

KSSpec == KSInit /\ [][KSNext]_ksvars
=============================================================================
