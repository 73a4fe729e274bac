--------------------------- MODULE PromotionLadder ---------------------------
(***************************************************************************)
(* What the promotion pipeline promises, without its gates: a ladder whose *)
(* rungs are climbed one at a time, each by earning the rung one stands    *)
(* on, down which there is no way but to start again with nothing earned.  *)
(* validation/pipeline.py is shown to implement it in ValidationPipeline   *)
(* (property ImplementsLadder).                                            *)
(***************************************************************************)
EXTENDS Naturals

CONSTANT Top    \* the rung above the last gate

VARIABLES
    rung,       \* where the strategy stands
    earned      \* the rungs whose gate it has passed

ladder == <<rung, earned>>

PLInit == rung = 1 /\ earned = {}

Climb ==
    /\ rung < Top
    /\ earned' = earned \cup {rung}
    /\ rung' = rung + 1

Restart == rung' = 1 /\ earned' = {}

PLNext == Climb \/ Restart

PLSpec == PLInit /\ [][PLNext]_ladder
=============================================================================
