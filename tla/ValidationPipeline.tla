------------------------- MODULE ValidationPipeline -------------------------
(***************************************************************************)
(* The promotion pipeline of a strategy (validation/pipeline.py).          *)
(*                                                                         *)
(* A validation state carries the stage and the results of the gates run   *)
(* so far.  A gate called at another stage than its own changes nothing,   *)
(* and is not a step.  What a gate measures (the backtest engine, Monte    *)
(* Carlo, paper and shadow metrics) is external to this model: it passes,  *)
(* fails, or raises.  run_full_validation makes its calls one after the    *)
(* other on a state of its own, while nothing else touches that state.     *)
(***************************************************************************)
EXTENDS Integers, Sequences

CONSTANT MaxResults    \* bound on the number of gate results

ASSUME MaxResultsAssumption == MaxResults \in Nat

\* PromotionStage: a stage is its position in STAGE_ORDER.
RESEARCH == 1
HYPOTHESIS == 2
BACKTEST == 3
OUT_OF_SAMPLE == 4
WALK_FORWARD == 5
MONTE_CARLO == 6
PAPER == 7
SHADOW == 8
RISK_REVIEW == 9
APPROVAL == 10
LIVE == 11

Stages == RESEARCH .. LIVE

Verdicts == {"overfit", "not_overfit"}

VARIABLES
    stage,      \* current_stage
    results,    \* gate_results
    overfit,    \* overfitting_report, or "none"
    auto        \* the call run_full_validation makes next, or "idle"

vpvars == <<stage, results, overfit, auto>>
-----------------------------------------------------------------------------
(* Definitions named Faulty... are not the code: each is a plausible bug in    *)
(* the definition after it, seeded to show that a property can fail.           *)

GateResult(gate, passed) == [stage |-> gate, passed |-> passed]

FaultyCanAdvance(trail, at) == trail # <<>>

\* can_advance: the last result is a pass of the current stage.
CanAdvance(trail, at) ==
    /\ trail # <<>>
    /\ trail[Len(trail)].passed
    /\ trail[Len(trail)].stage = at

FaultyEvaluate(gate, passed) ==
    /\ Len(results) < MaxResults
    /\ results' = Append(results, GateResult(stage, passed))
    /\ stage' = IF CanAdvance(results', gate) /\ gate < LIVE
                THEN gate + 1 ELSE gate

\* The end of every gate: the result is recorded and _advance called.
Evaluate(gate, passed) ==
    /\ Len(results) < MaxResults
    /\ results' = Append(results, GateResult(gate, passed))
    /\ stage' = IF CanAdvance(results', gate) /\ gate < LIVE
                THEN gate + 1 ELSE gate

VPInit ==
    /\ stage = RESEARCH
    /\ results = <<>>
    /\ overfit = "none"
    /\ auto = "idle"

\* create(): the strategy starts again with a fresh state.
Create ==
    /\ auto = "idle"
    /\ stage' = RESEARCH /\ results' = <<>> /\ overfit' = "none"
    /\ UNCHANGED auto

\* The backtest gate moves the strategy to BACKTEST before it measures.
RunBacktestGate(passed) ==
    /\ auto = "idle"
    /\ stage \in {RESEARCH, HYPOTHESIS, BACKTEST}
    /\ Evaluate(BACKTEST, passed)
    /\ UNCHANGED <<overfit, auto>>

BacktestRaises ==
    /\ auto = "idle"
    /\ stage \in {RESEARCH, HYPOTHESIS, BACKTEST}
    /\ stage' = BACKTEST
    /\ UNCHANGED <<results, overfit, auto>>

\* run_oos_gate, run_walk_forward_gate, run_monte_carlo_gate, run_paper_gate
\* and run_shadow_gate.  There is no gate for the stages after SHADOW.
RunGate(gate, passed) ==
    /\ auto = "idle"
    /\ stage = gate /\ gate \in OUT_OF_SAMPLE .. SHADOW
    /\ Evaluate(gate, passed)
    /\ UNCHANGED <<overfit, auto>>

\* run_overfitting_check: at any stage, and with no influence on the stage.
RunOverfittingCheck(verdict) ==
    /\ auto = "idle"
    /\ overfit' = verdict
    /\ UNCHANGED <<stage, results, auto>>
-----------------------------------------------------------------------------
(* run_full_validation. *)

\* A fresh state; then gate after gate until one fails.
BeginFullValidation ==
    /\ auto = "idle"
    /\ stage' = RESEARCH /\ results' = <<>> /\ overfit' = "none"
    /\ auto' = "backtest"

FullValidationGate(call, gate, passed, next) ==
    /\ auto = call
    /\ Evaluate(gate, passed)
    /\ auto' = IF stage' = gate THEN "idle" ELSE next
    /\ UNCHANGED overfit

\* Monte Carlo is run on the closed trades of the backtest, if there are any,
\* and the overfitting check follows whatever comes of it.
FullMonteCarlo(passed) ==
    /\ auto = "monte_carlo"
    /\ Evaluate(MONTE_CARLO, passed)
    /\ auto' = "overfitting"
    /\ UNCHANGED overfit

SkipMonteCarlo ==
    /\ auto = "monte_carlo"
    /\ auto' = "overfitting"
    /\ UNCHANGED <<stage, results, overfit>>

EndFullValidation(verdict) ==
    /\ auto = "overfitting"
    /\ overfit' = verdict
    /\ auto' = "idle"
    /\ UNCHANGED <<stage, results>>

FullValidationRaises ==
    /\ auto # "idle"
    /\ auto' = "idle"
    /\ stage' = IF auto = "backtest" THEN BACKTEST ELSE stage
    /\ UNCHANGED <<results, overfit>>

VPNext ==
    \/ Create
    \/ BacktestRaises
    \/ BeginFullValidation
    \/ SkipMonteCarlo
    \/ FullValidationRaises
    \/ \E passed \in BOOLEAN :
          \/ RunBacktestGate(passed)
          \/ \E gate \in Stages : RunGate(gate, passed)
          \/ FullValidationGate("backtest", BACKTEST, passed, "out_of_sample")
          \/ FullValidationGate("out_of_sample", OUT_OF_SAMPLE, passed, "walk_forward")
          \/ FullValidationGate("walk_forward", WALK_FORWARD, passed, "monte_carlo")
          \/ FullMonteCarlo(passed)
    \/ \E verdict \in Verdicts :
          RunOverfittingCheck(verdict) \/ EndFullValidation(verdict)

VPSpec == VPInit /\ [][VPNext]_vpvars
-----------------------------------------------------------------------------
(* Properties *)

\* The stage a result leads to.
After(r) == IF r.passed THEN r.stage + 1 ELSE r.stage

\* The results tell the whole story of the stage: they start at BACKTEST, each
\* one is of the stage its predecessor led to, and the last one led to where
\* the strategy is.  So no gate is missing, repeated after a pass, or counted
\* at the wrong stage, however gates, retries, exceptions and full validations
\* are mixed.
GateTrail ==
    /\ results = <<>> => stage \in {RESEARCH, BACKTEST}
    /\ results # <<>> =>
          /\ results[1].stage = BACKTEST
          /\ \A i \in 1 .. Len(results) - 1 : results[i + 1].stage = After(results[i])
          /\ stage = After(results[Len(results)])

Ladder ==
    INSTANCE PromotionLadder WITH
        Top <- RISK_REVIEW - 2,
        rung <- IF stage < BACKTEST THEN 1 ELSE stage - 2,
        earned <- {results[i].stage - 2 :
                      i \in {j \in 1 .. Len(results) : results[j].passed}}

\* From BACKTEST on the pipeline is a ladder climbed one earned rung at a time.
ImplementsLadder == Ladder!PLSpec
=============================================================================
