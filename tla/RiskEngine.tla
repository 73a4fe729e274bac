----------------------------- MODULE RiskEngine -----------------------------
(***************************************************************************)
(* The account's loss limits: PortfolioRiskIntegrator, which keeps the     *)
(* equity of the account and the references its losses are measured from   *)
(* (risk/portfolio_risk_integrator.py), and RiskEngine, which vetoes       *)
(* trades and trips the kill switch (risk/risk_engine.py).                 *)
(*                                                                         *)
(* There are several engines: the paper loop makes one and its integrator  *)
(* makes another.  Each has a circuit breaker of its own; the portfolio    *)
(* and the kill switch are shared, the switch taken from its abstract      *)
(* specification.  Days pass on their own and an update may or may not     *)
(* come on any of them.  Money is in whole units, limits are per mille,    *)
(* the tolerance of 1e-9 for rounded quotients is 0; the reports and       *)
(* summaries are left out.                                                 *)
(***************************************************************************)
EXTENDS PositionSizing, FiniteSets, KillSwitch

CONSTANTS
    Engines,          \* the RiskEngine instances
    InitialEquity,    \* initial_equity of the integrator
    Equities,         \* the equities an update may report
    Exposures,        \* the open positions and exposures it may report with them
    Candidates,       \* the trades asked about
    Mondays,          \* the days on which today.weekday() is 0
    FinalDay,         \* bound on the number of days
    MaxRisk, MaxDailyLoss, MaxWeeklyLoss, MaxDrawdown, MaxLeverage,
    MaxCorrelated,    \* the limits of the settings, per mille
    MaxSimultaneous,  \* MAX_SIMULTANEOUS_TRADES
    Never             \* no day yet

ASSUME RiskAssumption ==
    /\ InitialEquity \in Nat \ {0}
    /\ Equities \subseteq Int
    /\ Exposures \subseteq [open : Nat, gross : Int, correlated : Int]
    /\ Candidates \subseteq [distance : Nat, quantity : Nat, notional : Int,
                              multiplier : Nat]
    /\ Mondays \subseteq Nat
    /\ FinalDay \in Nat
    /\ {MaxRisk, MaxDailyLoss, MaxWeeklyLoss, MaxDrawdown, MaxLeverage,
        MaxCorrelated} \subseteq Nat
    /\ MaxDrawdown < 1000
    /\ MaxSimultaneous \in Nat
    /\ Never \notin Nat

VARIABLES
    breaker,        \* _circuit_breaker_active of each engine
    equity,         \* portfolio.equity
    dayRef,         \* portfolio.starting_equity_day
    weekRef,        \* portfolio.starting_equity_week
    peak,           \* portfolio.peak_equity
    exposure,       \* portfolio.open_positions, gross_ and correlated_exposure
    booked,         \* the sum of _daily_pnl_history
    lastDay,        \* _last_day
    lastWeekStart,  \* _last_week_start
    today,          \* the calendar
    dayOpen,        \* history: the equity when the calendar day began
    weekOpen,       \* history: the equity when the calendar week began
    missedMonday,   \* history: this week's Monday went by without an update
    owed            \* history: which resets are due after a trip of each engine

portfolio == <<equity, dayRef, weekRef, peak, exposure, booked, lastDay, lastWeekStart>>
calendar == <<today, dayOpen, weekOpen, missedMonday>>
revars == <<ksvars, breaker, portfolio, calendar, owed>>
-----------------------------------------------------------------------------
(* The veto.  Definitions named Faulty... are not the code: each is a          *)
(* plausible bug in the definition after it.                                   *)

\* x / equity <= limit, with the sign of the division kept.
Within(x, limit) ==
    IF equity >= 0 THEN x * 1000 <= limit * equity ELSE x * 1000 >= limit * equity

\* _loss_pct(reference, current) > limit.
LossExceeds(reference, current, limit) ==
    reference > 0 /\ (reference - current) * 1000 > limit * reference

\* The thresholds that are over: the same three are asked by both methods.
Breaches ==
    { b \in {"daily_loss", "weekly_loss", "portfolio_drawdown"} :
        \/ b = "daily_loss" /\ LossExceeds(dayRef, equity, MaxDailyLoss)
        \/ b = "weekly_loss" /\ LossExceeds(weekRef, equity, MaxWeeklyLoss)
        \/ b = "portfolio_drawdown" /\ LossExceeds(peak, equity, MaxDrawdown) }

\* What the trade loses at its stop.
AtRisk(s) == s.multiplier * s.distance * s.quantity

\* per_unit_risk * qty: check_trade is not told what a point of the instrument
\* is worth and takes it for a dollar.
FitsRisk(s) == Within(Dollar * s.distance * s.quantity, MaxRisk)
FitsSize(s) == Within(s.notional, MaxPositionSize)

FitsAccount(s) ==
    /\ exposure.open < MaxSimultaneous
    /\ Within(exposure.gross + s.notional, MaxLeverage)
    /\ Within(exposure.correlated + s.notional, MaxCorrelated)

FaultyCheckTrade(e, s) ==
    trading /\ FitsRisk(s) /\ FitsSize(s) /\ FitsAccount(s) /\ Breaches = {}

\* check_trade allows the trade.
CheckTrade(e, s) ==
    /\ trading
    /\ ~breaker[e]
    /\ FitsRisk(s) /\ FitsSize(s) /\ FitsAccount(s)
    /\ Breaches = {}

Admits(e) == \E s \in Candidates : CheckTrade(e, s)
-----------------------------------------------------------------------------
REInit ==
    /\ KSInit
    /\ breaker = [e \in Engines |-> FALSE]
    /\ equity = InitialEquity
    /\ dayRef = InitialEquity /\ weekRef = InitialEquity /\ peak = InitialEquity
    /\ exposure = [open |-> 0, gross |-> 0, correlated |-> 0]
    /\ booked = 0
    /\ lastDay = Never /\ lastWeekStart = Never
    /\ today = 0 /\ dayOpen = InitialEquity /\ weekOpen = InitialEquity
    /\ missedMonday = FALSE
    /\ owed = [e \in Engines |-> {}]

NewDay == lastDay # Never /\ today # lastDay
NewWeek == lastWeekStart = Never \/ (today \in Mondays /\ today # lastWeekStart)

FaultyRollDayToNew ==
    /\ dayRef' = IF NewDay THEN equity' ELSE dayRef
    /\ booked' = IF NewDay THEN booked + equity' - dayRef ELSE booked

RollDay ==
    /\ dayRef' = IF NewDay THEN equity ELSE dayRef
    /\ booked' = IF NewDay THEN booked + equity - dayRef ELSE booked

RollWeek ==
    /\ weekRef' = IF NewWeek THEN equity ELSE weekRef
    /\ lastWeekStart' = IF NewWeek THEN today ELSE lastWeekStart

\* update(): the references roll to the equity before this update.
Update(eq, exp) ==
    /\ equity' = eq /\ exposure' = exp
    /\ RollDay
    /\ RollWeek
    /\ lastDay' = today
    /\ peak' = IF eq > peak THEN eq ELSE peak
    /\ UNCHANGED <<ksvars, breaker, calendar, owed>>

\* circuit_breaker_check() when something is breached; otherwise it only
\* answers no.
CircuitBreakerCheck(e) ==
    /\ Breaches # {}
    /\ breaker' = [breaker EXCEPT ![e] = TRUE]
    /\ Trip
    /\ owed' = [owed EXCEPT ![e] = {"switch", "breaker"}]
    /\ UNCHANGED <<portfolio, calendar>>

ResetCircuitBreaker(e) ==
    /\ breaker' = [breaker EXCEPT ![e] = FALSE]
    /\ owed' = [owed EXCEPT ![e] = @ \ {"breaker"}]
    /\ UNCHANGED <<ksvars, portfolio, calendar>>

\* The operators' part: mode changes, the kill switch and its reset.
OperatorActs ==
    /\ KSNext
    /\ owed' = [e \in Engines |-> IF tripped' THEN owed[e] ELSE owed[e] \ {"switch"}]
    /\ UNCHANGED <<breaker, portfolio, calendar>>

\* Midnight, with the account as it is.
DayPasses ==
    /\ today < FinalDay
    /\ today' = today + 1
    /\ dayOpen' = equity
    /\ weekOpen' = IF today' \in Mondays THEN equity ELSE weekOpen
    /\ missedMonday' = /\ today' \notin Mondays
                       /\ IF today \in Mondays THEN lastDay \notin {today, Never}
                          ELSE missedMonday
    /\ UNCHANGED <<ksvars, breaker, portfolio, owed>>

RENext ==
    \/ \E eq \in Equities, exp \in Exposures : Update(eq, exp)
    \/ \E e \in Engines : CircuitBreakerCheck(e) \/ ResetCircuitBreaker(e)
    \/ OperatorActs
    \/ DayPasses

RESpec == REInit /\ [][RENext]_revars
-----------------------------------------------------------------------------
(* Properties *)

\* Type correctness of the engines, the portfolio, the calendar and the history.
RETypeOK ==
    /\ tripped \in BOOLEAN /\ trading \in BOOLEAN
    /\ breaker \in [Engines -> BOOLEAN]
    /\ {equity, dayRef, weekRef, peak, booked, dayOpen, weekOpen} \subseteq Int
    /\ exposure \in [open : Nat, gross : Int, correlated : Int]
    /\ today \in Nat
    /\ lastDay \in Nat \cup {Never} /\ lastWeekStart \in Nat \cup {Never}
    /\ missedMonday \in BOOLEAN
    /\ owed \in [Engines -> SUBSET {"switch", "breaker"}]

\* No engine admits a trade on a day on which the account has already lost
\* more than the daily limit, measured from the equity it had at midnight,
\* on whichever days updates came and however many came on each.
DailyLossGate ==
    (\E e \in Engines : Admits(e)) => ~LossExceeds(dayOpen, equity, MaxDailyLoss)

\* The same for the week, measured from the equity the week began with,
\* unless Monday went by without an update: then the reference stays that of
\* an earlier week.
WeeklyLossGate ==
    (\E e \in Engines : Admits(e)) =>
        missedMonday \/ ~LossExceeds(weekOpen, equity, MaxWeeklyLoss)

\* An account in debt admits no trade, although the ratios of check_trade turn
\* negative and pass: the drawdown from a positive peak catches it.
DebtNeverTrades == equity < 0 => \A e \in Engines : ~Admits(e)

\* After an engine has tripped the circuit breaker it admits nothing until the
\* kill switch has been re-armed and its own breaker reset, in whatever order
\* and however often the other engine trips or is reset in between.
BothResetsNeeded == \A e \in Engines : owed[e] # {} => ~Admits(e)

\* The days' results in the history add up to what the account had gained when
\* the current day's reference was taken.
DailyResultsAddUp == booked = dayRef - InitialEquity

\* The trade a sizing result is for, with its stop at the distance.
Asked(z, distance, multiplier) ==
    [distance |-> distance, quantity |-> z.quantity, notional |-> z.notional,
     multiplier |-> multiplier]

Fits(s) == FitsRisk(s) /\ FitsSize(s)

SharesFit(entry, stop, range, multiple, v) ==
    /\ Fits(Asked(FixedFractional(equity, MaxRisk, entry, stop),
                  Distance(entry, stop), Dollar))
    /\ Fits(Asked(AtrBased(equity, MaxRisk, range, multiple, entry),
                  range * multiple, Dollar))
    /\ Fits(Asked(VolatilityAdjusted(equity, MaxRisk, v, entry, stop),
                  Distance(entry, stop), Dollar))

FutureFits(entry, stop, spec) ==
    LET s == Asked(FuturesContracts(equity, MaxRisk, entry, stop, spec),
                   Distance(entry, stop), spec.multiplier)
    IN  /\ Within(AtRisk(s), MaxRisk)
        /\ FitsSize(s)
        /\ spec.multiplier >= Dollar => FitsRisk(s)

\* A quantity of shares chosen by the position sizer for the account as it
\* stands passes the risk and the size check of check_trade, by whichever method
\* it was sized.  A number of contracts loses no more at its stop than the limit
\* and passes the size check; the risk check it passes if a point is worth a
\* dollar at least, which leaves out MYM: check_trade counts that one double.
SizedTradesFit ==
    equity >= 0 =>
        \A entry \in {3, 60}, stop \in {2, 58} :
            /\ \A v \in {15, 35} : SharesFit(entry, stop, stop, 2, v)
            /\ \A c \in DOMAIN FuturesSpecs : FutureFits(entry, stop, FuturesSpecs[c])

\* Whatever trade check_trade admits loses at its stop no more than the limit
\* for one trade.  The code does not keep this: it counts the points of a future
\* as dollars.
RiskPerTradeCapped ==
    \A e \in Engines, s \in Candidates : CheckTrade(e, s) => Within(AtRisk(s), MaxRisk)
=============================================================================
