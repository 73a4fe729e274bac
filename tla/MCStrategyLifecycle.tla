------------------------ MODULE MCStrategyLifecycle ------------------------
(* Model-checking instance: a strategy in the backtest, before and after its   *)
(* promotion, the research register, and the risk engines of the account.  The *)
(* parts share no variable but the trades, which two of them read, so that a   *)
(* behaviour has only one of them at work.                                     *)
EXTENDS ValidationPipeline, StrategyLearner, Hypotheses, MCBacktest, MCRiskEngine

VARIABLE part

MCOutcomes == {-3, -1, 0, 5}

\* Figures of the backtest: none, modest and good ones, some of them missing.
MCBacktests ==
    {[expectancy |-> 0, win_rate |-> 0, sharpe |-> 0,
      profit_factor |-> 0, max_drawdown |-> 0],
     [expectancy |-> 0, win_rate |-> 60, sharpe |-> 0,
      profit_factor |-> 150, max_drawdown |-> 2],
     [expectancy |-> 2, win_rate |-> 0, sharpe |-> 1,
      profit_factor |-> 0, max_drawdown |-> 0]}

Profile(name, category, st, sharpe, drawdown, factor, wins, correlation) ==
    [name |-> name, category |-> category, status |-> st, sharpe |-> sharpe,
     max_drawdown |-> drawdown, profit_factor |-> factor, win_rate |-> wins,
     correlation |-> correlation]

MCProfiles ==
    <<Profile("trend one", "trend", "ACTIVE", 100, 10, 150, 50, 0),
      Profile("reviewed", "trend", "ACTIVE", 150, 10, 200, 55, 0),
      Profile("trend three", "trend", "WATCH", 80, 20, 120, 45, 10),
      Profile("reversion", "reversion", "ACTIVE", -20, 40, 90, 30, 90)>>

LifeInit ==
    /\ VPInit
    /\ ReviewInit
    /\ LearnerInit
    /\ HypothesisInit
    /\ BTInit
    /\ REInit
    /\ part \in {"backtest", "pipeline", "review", "learner", "research", "account"}
    /\ part \notin {"review", "learner"} => backtest.expectancy > 0
    /\ part # "account" => ~trading

AccountSteps ==
    /\ part = "account"
    /\ RENext
    /\ UNCHANGED <<vpvars, reviewvars, learnvars, hypvars, btvars>>

BacktestSteps ==
    /\ part = "backtest"
    /\ BTNext
    /\ UNCHANGED <<vpvars, reviewvars, learnvars, hypvars, revars>>

PipelineSteps ==
    /\ part = "pipeline"
    /\ VPNext
    /\ UNCHANGED <<reviewvars, learnvars, hypvars, btvars, revars>>

ReviewSteps ==
    /\ part = "review"
    /\ ReviewNext
    /\ UNCHANGED <<vpvars, learnvars, hypvars, btvars, revars>>

LearningSteps ==
    /\ part = "learner"
    /\ LearnerSteps
    /\ UNCHANGED <<vpvars, hypvars, btvars, revars>>

ResearchSteps ==
    /\ part = "research"
    /\ HypothesisNext
    /\ UNCHANGED <<vpvars, reviewvars, learnvars, btvars, revars>>

LifeNext ==
    /\ \/ BacktestSteps \/ PipelineSteps \/ ReviewSteps
       \/ LearningSteps \/ ResearchSteps \/ AccountSteps
    /\ UNCHANGED part

lifevars == <<vpvars, reviewvars, learnvars, hypvars, btvars, revars, part>>

LifeSpec == LifeInit /\ [][LifeNext]_lifevars
=============================================================================
