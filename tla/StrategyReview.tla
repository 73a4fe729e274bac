--------------------------- MODULE StrategyReview ---------------------------
(***************************************************************************)
(* The life of a strategy after validation: its trades, the weekly review  *)
(* (orchestration/weekly_review.py) with the degradation monitor           *)
(* (validation/strategy_degradation.py) and the ensemble allocator         *)
(* (validation/ensemble_allocator.py).                                     *)
(*                                                                         *)
(* Nothing in the code applies a recommendation: an operator does (Adopt). *)
(***************************************************************************)
EXTENDS TradeFigures

CONSTANTS
    Outcomes,     \* what a trade may earn or lose
    MaxTrades,    \* bound on the trades of the reviewed strategy
    Window,       \* rolling_window
    LossRun,      \* suspended_consecutive_losses
    RetireAfter,  \* retired_negative_expectancy_trades
    Backtests,    \* backtest figures it may have; 0 stands for none
    Profiles,     \* the strategies of the review, in order
    Reviewed,     \* the name of the one whose trades are modelled
    None

\* Percentages, and hundredths for the Sharpe ratio and the profit factor.
Figures ==
    [name : STRING, category : STRING, status : STRING, sharpe : Int,
     max_drawdown : Int, profit_factor : Int, win_rate : Int, correlation : Int]

ASSUME ReviewAssumption ==
    /\ Outcomes \subseteq Int
    /\ {MaxTrades, Window, LossRun, RetireAfter} \subseteq Nat \ {0}
    /\ \A b \in Backtests : b.sharpe \in Int
    /\ Profiles \in Seq(Figures)

VARIABLES
    trades,      \* the profits of the reviewed strategy, oldest first
    status,      \* its status
    backtest,    \* its backtest figures
    review,      \* what the last review said and how many trades it saw, or None
    buried       \* whether a review retired it for its drawdown

reviewvars == <<trades, status, backtest, review, buried>>
-----------------------------------------------------------------------------
(* The degradation monitor. *)

\* The last trades, all of them while there are few.
Rolling(s) == SubSeq(s, Max({1, Len(s) - Window + 1}), Len(s))

Retire(s) ==
    DrawdownExceeds(s, 40) \/ (Len(s) >= RetireAfter /\ Total(Rolling(s)) < 0)

Suspend(s) == LosingTail(s) >= LossRun \/ DrawdownExceeds(s, 25)

\* A negative Sharpe ratio comes with a negative expectancy.
Degrade(s) == Total(Rolling(s)) <= 0 \/ DrawdownExceeds(s, 15)

\* The expectancy has dropped by more than 30 percent or, only where there is
\* none to compare with, the win rate by more than 20.
Watch(s, b) ==
    LET n == Len(Rolling(s))
        expected == b.expectancy * n
    IN  IF b.expectancy > 0
        THEN 10 * (expected - Total(Rolling(s))) > 3 * expected
        ELSE /\ b.win_rate > 0
             /\ 10 * (b.win_rate * n - 100 * Wins(Rolling(s))) > 2 * b.win_rate * n

\* Mean over deviation of the rolling trades is less than half the Sharpe ratio
\* of the backtest, which is a yearly figure.
Diverges(s, b) ==
    LET w == Rolling(s)
    IN  /\ b.sharpe > 0
        /\ \/ Total(w) <= 0
           \/ Spread(w) = 0
           \/ 4 * Total(w) * Total(w) < b.sharpe * b.sharpe * Spread(w)

FaultyRecommendation(current, s, b) ==
    LET reasons == Retire(s) \/ Suspend(s) \/ Degrade(s) \/ Watch(s, b)
        found == IF Retire(s) THEN "RETIRED"
                 ELSE IF Suspend(s) THEN "SUSPENDED"
                 ELSE IF Watch(s, b) THEN "WATCH"
                 ELSE IF Degrade(s) THEN "DEGRADED"
                 ELSE current
    IN  IF s = <<>> THEN current
        ELSE IF Diverges(s, b) /\ found \notin {"SUSPENDED", "RETIRED"} THEN "DEGRADED"
        ELSE IF ~reasons /\ current \in {"DEGRADED", "SUSPENDED"} THEN "WATCH"
        ELSE found

\* evaluate(): the most severe finding, then the divergence, then recovery.
Recommendation(current, s, b) ==
    LET reasons == Retire(s) \/ Suspend(s) \/ Degrade(s) \/ Watch(s, b)
        found == IF Retire(s) THEN "RETIRED"
                 ELSE IF Suspend(s) THEN "SUSPENDED"
                 ELSE IF Degrade(s) THEN "DEGRADED"
                 ELSE IF Watch(s, b) THEN "WATCH"
                 ELSE current
    IN  IF s = <<>> THEN current
        ELSE IF Diverges(s, b) /\ found \notin {"SUSPENDED", "RETIRED"} THEN "DEGRADED"
        ELSE IF ~reasons /\ current \in {"DEGRADED", "SUSPENDED"} THEN "WATCH"
        ELSE found
-----------------------------------------------------------------------------
(* The allocator.  Scores are in ten-thousandths of the code's; a weight is in *)
(* hundredths of the sum of all scores, so a portfolio is 100 times that sum.  *)

Trading == {"ACTIVE", "WATCH"}

Score(m) ==
    Max({10, 35 * Max({0, m.sharpe}) + 25 * (100 - m.max_drawdown)
             + 4 * Min({500, m.profit_factor}) + 20 * m.win_rate
             - 200 * m.correlation})

ScoreSum(eligible) == Total([i \in DOMAIN eligible |-> Score(eligible[i])])

\* What the strategies of a category have been given so far.
Used(eligible, weights, category) ==
    Total([i \in DOMAIN weights |->
              IF eligible[i].category = category THEN weights[i] ELSE 0])

\* At most 30 percent for a strategy and 40 for its category; what a cap cuts
\* off stays in cash.
Give(eligible, weights, i) ==
    LET p == eligible[i]
        all == ScoreSum(eligible)
        room == Max({0, 40 * all - Used(eligible, weights, p.category)})
    IN  Append(weights, Min({90 * Score(p), 30 * all, room}))

\* allocate(): by score, 90 percent in all, first come first served.
Allocation(eligible) ==
    LET given[i \in 0 .. Len(eligible)] ==
            IF i = 0 THEN <<>> ELSE Give(eligible, given[i - 1], i)
    IN  given[Len(eligible)]
-----------------------------------------------------------------------------
ReviewInit ==
    /\ trades = <<>>
    /\ status = "ACTIVE"
    /\ backtest \in Backtests
    /\ review = None
    /\ buried = FALSE

\* A position of the strategy is closed, perhaps one opened before it was
\* suspended.
CloseTrade ==
    /\ Len(trades) < MaxTrades
    /\ \E p \in Outcomes : trades' = Append(trades, p)
    /\ UNCHANGED <<status, backtest, review, buried>>

Admit(chosen, p, recommended) ==
    LET after == IF p.name = Reviewed THEN recommended ELSE p.status
    IN  IF after \in Trading THEN Append(chosen, p) ELSE chosen

\* The strategies that may trade by the recommended statuses, in order.
Eligible(recommended) ==
    LET chosen[i \in 0 .. Len(Profiles)] ==
            IF i = 0 THEN <<>> ELSE Admit(chosen[i - 1], Profiles[i], recommended)
    IN  chosen[Len(Profiles)]

\* run(): a recommendation for each strategy, then the allocation over the
\* recommended statuses.  The trades of the other strategies stand still.
WeeklyReview ==
    LET recommended == Recommendation(status, trades, backtest)
        eligible == Eligible(recommended)
    IN  /\ review = None
        /\ review' = [recommended |-> recommended, seen |-> Len(trades),
                      from |-> status, eligible |-> eligible,
                      weights |-> Allocation(eligible)]
        /\ buried' = (buried \/ DrawdownExceeds(trades, 40))
        /\ UNCHANGED <<trades, status, backtest>>

\* The operator adopts the recommendation, or does not.
Adopt ==
    /\ review # None
    /\ review' = None
    /\ status' \in {status, review.recommended}
    /\ UNCHANGED <<trades, backtest, buried>>

ReviewNext == CloseTrade \/ WeeklyReview \/ Adopt

ReviewSpec == ReviewInit /\ [][ReviewNext]_reviewvars
-----------------------------------------------------------------------------
(* Properties *)

WithinCaps ==
    LET all == ScoreSum(review.eligible)
        weights == review.weights
    IN  /\ Total(weights) <= 90 * all
        /\ \A i \in DOMAIN weights :
              /\ weights[i] \in 0 .. 30 * all
              /\ Total([j \in DOMAIN weights |->
                          IF review.eligible[j].category = review.eligible[i].category
                          THEN weights[j] ELSE 0]) <= 40 * all

Earned(s) ==
    /\ Total(Rolling(s)) > 0
    /\ ~DrawdownExceeds(s, 15)
    /\ LosingTail(s) < LossRun
    /\ Diverges(s, backtest) => review.from = "SUSPENDED"

\* The allocation of a review keeps the caps whatever the scores, never more
\* than nine tenths in all, three tenths in a strategy and four tenths in a
\* category; and money goes to a strategy that has traded only if the trades
\* the review saw earn something, never fell more than 15 percent from their
\* peak, do not end in a long run of losses and do not diverge from the
\* backtest.  The one exception is divergence in a suspended strategy, which
\* counts as recovered.
AllocationSound ==
    review # None =>
        /\ WithinCaps
        /\ review.seen > 0 /\ (\E i \in DOMAIN review.eligible :
                                  review.eligible[i].name = Reviewed)
              => Earned(SubSeq(trades, 1, review.seen))

\* A strategy that a review retired for its drawdown is retired by every later
\* review, whatever it has earned since and whatever status it was given.
DrawdownRetiresForGood ==
    buried => Recommendation(status, trades, backtest) = "RETIRED"
=============================================================================
