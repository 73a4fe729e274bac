-------------------------- MODULE StrategyLearner --------------------------
(***************************************************************************)
(* What is learnt from the trades of the reviewed strategy:                *)
(* memory/strategy_learner.py proposes changes of its parameters to        *)
(* memory/learning_engine.py and keeps its figures in                      *)
(* memory/knowledge_store.py, each call in a transaction of its own.       *)
(*                                                                         *)
(* Nothing in the code applies a proposal, approved or not: an operator    *)
(* takes one over with all its parameters (ApplyChange).  Parameters are   *)
(* in millionths, the score apart.                                         *)
(***************************************************************************)
EXTENDS StrategyReview

CONSTANTS
    MinSample,       \* the fewest trades to be analysed
    LossAlarm,       \* the run of losses that calls for smaller positions
    Yearly,          \* TRADING_DAYS_PER_YEAR
    MaxProposals     \* bound on the proposals and on the evidence of an instance

ASSUME LearnerAssumption ==
    /\ {MinSample, LossAlarm, Yearly} \subseteq Nat \ {0}
    /\ MaxProposals \in Nat
    /\ Yearly >= 2

VARIABLES
    params,      \* min_signal_score, risk_per_trade_pct and stop_loss_atr_mult
    proposals,   \* learning events: parameters before and after, approved
    evidence     \* evidence_count of the figures remembered, 0 before the first

learnvars == <<params, proposals, evidence>>

DefaultParams == [score |-> 75, risk |-> 10000, stop |-> 2000000]
-----------------------------------------------------------------------------
Won(s) == Total(SelectSeq(s, LAMBDA p : p > 0))

Lost(s) == -Total(SelectSeq(s, LAMBDA p : p < 0))

\* The deepest fall of the profit from its peak, in money.
Fall(s) ==
    LET earned == [i \in DOMAIN s |-> Total(SubSeq(s, 1, i))]
        FallAt(j) == Max({earned[i] : i \in 1 .. j}) - earned[j]
    IN  Max({FallAt(j) : j \in DOMAIN s})

\* The yearly Sharpe ratio is less than seven tenths of the backtest's.
SharpeDrifts(s, b) ==
    /\ b.sharpe > 0
    /\ \/ Total(s) <= 0
       \/ Spread(s) = 0
       \/ 100 * Yearly * Total(s) * Total(s) < 49 * b.sharpe * b.sharpe * Spread(s)

\* _detect_drift: the win rate is a tenth off, or the Sharpe ratio, the profit
\* factor or the drawdown is worse than in the backtest.  Among other figures a
\* win rate that is missing counts as one half.
Drifts(s, b) ==
    LET rate == IF b.win_rate = 0 THEN 50 ELSE b.win_rate
        off == 100 * Wins(s) - rate * Len(s)
    IN  /\ \E figure \in DOMAIN b : b[figure] # 0
        /\ \/ (IF off < 0 THEN -off ELSE off) * 10 > rate * Len(s)
           \/ SharpeDrifts(s, b)
           \/ /\ b.profit_factor > 100
              /\ 1000 * Won(s) < 7 * b.profit_factor * Lost(s) \/ Won(s) + Lost(s) = 0
           \/ b.max_drawdown > 0 /\ 2 * Fall(s) > 3 * b.max_drawdown

FewWins(s) == 10 * Wins(s) < 3 * Len(s)

LongLosses(s) == MaxConsecutiveLosses(s) >= LossAlarm

WeakProfit(s) == 0 < Won(s) /\ 10 * Won(s) < 11 * Lost(s)

\* A plausible bug: the bound of the risk is a ceiling.
FaultySuggest(s, p) ==
    [score |-> IF FewWins(s) THEN Min({95, p.score + 5}) ELSE p.score,
     risk |-> IF LongLosses(s) THEN Min({5000, (p.risk * 4) \div 5}) ELSE p.risk,
     stop |-> IF WeakProfit(s) THEN Max({1000000, (p.stop * 9) \div 10}) ELSE p.stop]

\* _suggest_parameters: a higher score for few wins, less risk after a run of
\* losses, a tighter stop for a weak profit factor, each up to a bound.
Suggest(s, p) ==
    [score |-> IF FewWins(s) THEN Min({95, p.score + 5}) ELSE p.score,
     risk |-> IF LongLosses(s) THEN Max({5000, (p.risk * 4) \div 5}) ELSE p.risk,
     stop |-> IF WeakProfit(s) THEN Max({1000000, (p.stop * 9) \div 10}) ELSE p.stop]

Event(kind, before, after) ==
    [kind |-> kind, before |-> before, after |-> after, approved |-> FALSE]

\* What analyze_and_propose proposes, in its order; only the last kind is about
\* parameters.  The regimes are those of the caller: most of the trades may lie
\* in a single one.
Proposed(concentrated) ==
    (IF Drifts(trades, backtest) THEN <<Event("drift", None, None)>> ELSE <<>>) \o
    (IF concentrated THEN <<Event("regime", None, None)>> ELSE <<>>) \o
    (IF FewWins(trades) \/ LongLosses(trades) \/ WeakProfit(trades)
     THEN <<Event("params", params, Suggest(trades, params))>> ELSE <<>>)
-----------------------------------------------------------------------------
LearnerInit ==
    /\ params = DefaultParams
    /\ proposals = <<>>
    /\ evidence = 0

\* analyze_and_propose: proposal after proposal, then the figures, whose loss
\* is passed over.  A proposal that cannot be stored ends the call, with those
\* before it in the table.
Analyze ==
    /\ Len(trades) >= MinSample
    /\ evidence < MaxProposals
    /\ \E concentrated \in BOOLEAN :
          LET wanted == Proposed(concentrated)
          IN  /\ Len(proposals) + Len(wanted) <= MaxProposals
              /\ \/ /\ proposals' = proposals \o wanted
                    /\ evidence' \in {evidence, evidence + 1}
                 \/ \E stored \in 0 .. Len(wanted) - 1 :
                       /\ proposals' = proposals \o SubSeq(wanted, 1, stored)
                       /\ UNCHANGED evidence
    /\ UNCHANGED params

\* approve_change: of any event, at any time and any number of times.
ApproveChange(i) ==
    /\ proposals' = [proposals EXCEPT ![i].approved = TRUE]
    /\ UNCHANGED <<params, evidence>>

\* An approved change is taken over, perhaps an old one after a newer one.
ApplyChange(i) ==
    /\ proposals[i].approved
    /\ proposals[i].kind = "params"
    /\ params' = proposals[i].after
    /\ UNCHANGED <<proposals, evidence>>

LearnerNext ==
    Analyze \/ \E i \in DOMAIN proposals : ApproveChange(i) \/ ApplyChange(i)

LearnerSteps ==
    \/ CloseTrade /\ UNCHANGED learnvars
    \/ LearnerNext /\ UNCHANGED reviewvars

LearnerSpec ==
    ReviewInit /\ LearnerInit /\ [][LearnerSteps]_<<reviewvars, learnvars>>
-----------------------------------------------------------------------------
(* Properties *)

StreaksAgree(s) ==
    /\ LosingTail(s) <= MaxConsecutiveLosses(s)
    /\ MaxConsecutiveLosses(s) <= MaxLossStreak(s)
    /\ (\A i \in DOMAIN s : s[i] # 0) => MaxConsecutiveLosses(s) = MaxLossStreak(s)

\* The parts that read the same trades do not contradict each other: the losing
\* tail of the monitor is within the longest run of the learner, and that is
\* the detector's unless a trade broke even; and while all the trades are in
\* the monitor's window, a Sharpe ratio that the learner calls a drift makes
\* the monitor see a divergence.
ReadersAgree ==
    /\ StreaksAgree(trades)
    /\ Len(trades) <= Window /\ SharpeDrifts(trades, backtest) =>
          Diverges(trades, backtest)

\* p is at least as careful as q, and within the bounds of the suggestions.
Tightens(p, q) ==
    /\ p.score \in q.score .. 95
    /\ p.risk \in 5000 .. q.risk
    /\ p.stop \in 1000000 .. q.stop

\* However often the trades are analysed, and in whatever order changes are
\* approved and taken over, perhaps an old one after a newer one, no proposal
\* loosens the parameters it was made for or leaves the bounds.  (This needs
\* parameters that began within the bounds: from a risk of less than half a per
\* cent the code suggests to go up to that.)
ProposalsTighten ==
    \A i \in DOMAIN proposals :
        proposals[i].kind = "params" => Tightens(proposals[i].after, proposals[i].before)
=============================================================================
