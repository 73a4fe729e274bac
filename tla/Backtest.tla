------------------------------ MODULE Backtest ------------------------------
(***************************************************************************)
(* The backtest of one strategy on one instrument: the bar loop of         *)
(* BacktestEngine.run (backtesting/backtest_engine.py) and the windows of  *)
(* the walk-forward analysis (backtesting/walk_forward.py).                *)
(*                                                                         *)
(* A bar is one step, in four parts: the pending order is executed at the  *)
(* open, the position is managed within the bar, a new signal is asked     *)
(* for, the account is marked at the close.  Bars and signals are          *)
(* arbitrary: the signal relates entry, stop and target as StrategySignal  *)
(* demands (strategies/base_strategy.py).  Spread and slippage together    *)
(* are the cost of a bar.  Money is in whole units, small enough for the   *)
(* costs to be whole; metrics are left out.                                *)
(***************************************************************************)
EXTENDS Integers, Sequences

CONSTANTS
    Bars,             \* the bars of the data, [open, low, high, close, cost]
    Signals,          \* what the strategy returns
    InitialCapital,   \* initial_capital
    Commission,       \* commission_per_share
    RiskBps,          \* risk_fraction, in basis points
    Warmup,           \* warmup_bars
    LastBar,          \* bound on the number of bars
    Windows,          \* n_windows of the walk-forward analysis
    OosPercent,       \* oos_fraction, in per cent
    Nothing           \* no signal, no exit yet

\* StrategySignal.__post_init__: the stop is on the losing side of the entry
\* and the target on the other.
IsSignal(s) ==
    \/ s.direction = "LONG"  /\ s.stop < s.entry /\ s.entry < s.target
    \/ s.direction = "SHORT" /\ s.stop > s.entry /\ s.entry > s.target

ASSUME BarsAssumption ==
    Bars \subseteq [open : Nat, low : Nat, high : Nat, close : Nat, cost : Nat]
ASSUME SignalsAssumption ==
    /\ Signals \subseteq [direction : {"LONG", "SHORT"},
                          entry : Nat, stop : Nat, target : Nat]
    /\ \A s \in Signals : IsSignal(s)
    /\ Nothing \notin Signals
ASSUME CapitalAssumption ==
    /\ InitialCapital \in Nat /\ Commission \in Nat /\ RiskBps \in Nat
    /\ Warmup \in Nat /\ LastBar \in Nat
    /\ Nothing \notin Nat
ASSUME WindowsAssumption ==
    Windows \in Nat \ {0} /\ OosPercent \in 1 .. 99

VARIABLES
    bar,       \* i, the bar about to be processed
    account,   \* cash, position and trades
    pending,   \* pending_signal, or Nothing
    since,     \* history: the bar on which the last signal was made
    lastPoint  \* the last point of equity_curve

btvars == <<bar, account, pending, since, lastPoint>>
-----------------------------------------------------------------------------
(* Prices and quantities.  Definitions named Faulty... are not the code: each  *)
(* is a plausible bug in the definition after it.                              *)

StopDistance(s) == IF s.entry >= s.stop THEN s.entry - s.stop ELSE s.stop - s.entry

\* _slip: every fill is worse than the price by the cost of the bar.
Slip(price, side, b) ==
    LET total == (price * b.cost) \div 10000
    IN  IF side = "buy" THEN price + total ELSE price - total

\* The whole number of units whose stop costs the risk fraction of the cash;
\* not positive if the cash is used up.  The stop of a signal differs from its
\* entry, so that the distance the code falls back on is never needed.
Size(money, s) == (money * RiskBps) \div (10000 * StopDistance(s))

\* Where the bar ends a position of q units: at the stop if it was touched,
\* else at the target if it was.
ExitLevel(q, s, b) ==
    LET stopped == IF q > 0 THEN b.low <= s.stop ELSE b.high >= s.stop
        reached == IF q > 0 THEN b.high >= s.target ELSE b.low <= s.target
    IN  IF q = 0 THEN Nothing
        ELSE IF stopped THEN s.stop
        ELSE IF reached THEN s.target
        ELSE Nothing
-----------------------------------------------------------------------------
(* The account: cash; the position, its entry price and the signal with its    *)
(* stop and target; the trades with their signed quantity, the bars of signal, *)
(* entry and exit; realised, the sum of trade_pnls; and, as history,           *)
(* entryFees, the commissions paid for entries.                                *)

NewAccount ==
    [cash |-> InitialCapital, qty |-> 0, entry |-> 0, plan |-> Nothing,
     trades |-> <<>>, realised |-> 0, entryFees |-> 0]

NewTrade(q) == [qty |-> q, signalled |-> since, entered |-> bar, exited |-> Nothing]

\* Part 1: the pending signal becomes a position at the open of this bar.
Execute(a, s, b) ==
    LET side == IF s.direction = "LONG" THEN "buy" ELSE "sell"
        units == Size(a.cash, s)
        q == IF side = "buy" THEN units ELSE -units
        fill == Slip(b.open, side, b)
    IN  IF s = Nothing \/ a.qty # 0 \/ units <= 0 THEN a
        ELSE [a EXCEPT !.cash = @ - (q * fill + Commission * units),
                       !.qty = q, !.entry = fill, !.plan = s,
                       !.trades = Append(@, NewTrade(q)),
                       !.entryFees = @ + Commission * units]

FaultyManage(a, b) ==
    LET level == ExitLevel(a.qty, a.plan, b)
        units == IF a.qty > 0 THEN a.qty ELSE -a.qty
        fill == Slip(level, IF a.qty > 0 THEN "sell" ELSE "buy", b)
    IN  IF level = Nothing THEN a
        ELSE [a EXCEPT !.cash = @ + (a.qty * fill - Commission * units),
                       !.qty = 0,
                       !.trades[Len(a.trades)].exited = bar,
                       !.realised = @ + (fill - a.entry) * a.qty]

\* Part 2: the stop or the target ends the position; the profit of the trade
\* counts the commission of the exit, not that of the entry.
Manage(a, b) ==
    LET level == ExitLevel(a.qty, a.plan, b)
        units == IF a.qty > 0 THEN a.qty ELSE -a.qty
        fill == Slip(level, IF a.qty > 0 THEN "sell" ELSE "buy", b)
    IN  IF level = Nothing THEN a
        ELSE [a EXCEPT !.cash = @ + (a.qty * fill - Commission * units),
                       !.qty = 0,
                       !.trades[Len(a.trades)].exited = bar,
                       !.realised = @ + ((fill - a.entry) * a.qty - Commission * units)]
-----------------------------------------------------------------------------
BTInit ==
    /\ bar = Warmup
    /\ account = NewAccount
    /\ pending = Nothing /\ since = bar
    /\ lastPoint = InitialCapital

FaultyProcessBar(b, s) ==
    /\ bar < LastBar
    /\ LET a == Manage(Execute(account, s, b), b)
       IN  /\ account' = a
           /\ lastPoint' = a.cash + a.qty * b.close
           /\ pending' = IF a.qty = 0 THEN s ELSE Nothing
           /\ since' = IF pending' = Nothing THEN since ELSE bar
    /\ bar' = bar + 1

\* One bar.  The strategy is asked, and may answer Nothing or raise, only while
\* the account is flat and after the pending order is gone.
ProcessBar(b, s) ==
    /\ bar < LastBar
    /\ LET a == Manage(Execute(account, pending, b), b)
       IN  /\ account' = a
           /\ lastPoint' = a.cash + a.qty * b.close
           /\ pending' = IF a.qty = 0 THEN s ELSE Nothing
           /\ since' = IF pending' = Nothing THEN since ELSE bar
    /\ bar' = bar + 1

BTNext == \E b \in Bars, s \in Signals \cup {Nothing} : ProcessBar(b, s)

BTSpec == BTInit /\ [][BTNext]_btvars
-----------------------------------------------------------------------------
(* The walk-forward analysis of n rows: windows of equal length, each cut into *)
(* rows the strategy is fitted on and rows it is tried on.                     *)

\* int(len * (1 - oos_fraction)): when the product is whole, rounding errors
\* may take it to just below.
Cuts(len) ==
    LET product == len * (100 - OosPercent)
    IN  {product \div 100}
        \cup (IF product > 0 /\ product % 100 = 0 THEN {product \div 100 - 1} ELSE {})

FaultyFold(n, w, cut) ==
    LET size == n \div Windows
    IN  [start |-> w * size, split |-> w * size + cut, end |-> (w + 1) * size + 1]

Fold(n, w, cut) ==
    LET size == n \div Windows
    IN  [start |-> w * size, split |-> w * size + cut, end |-> (w + 1) * size]

\* The windows that are not skipped as too short, for w-th windows of n rows.
Folds(n, w) ==
    {f \in {Fold(n, w, cut) : cut \in Cuts(n \div Windows)} :
        /\ f.end - f.start >= 60
        /\ f.split - f.start >= 55
        /\ f.end - f.split >= 10}
-----------------------------------------------------------------------------
(* Properties *)

Trades == [qty : Int \ {0}, signalled : Nat, entered : Nat, exited : Nat \cup {Nothing}]

\* Type correctness of the loop and the account.
BTTypeOK ==
    /\ bar \in Nat
    /\ pending \in Signals \cup {Nothing} /\ since \in Nat
    /\ lastPoint \in Int
    /\ account \in [cash : Int, qty : Int, entry : Int, plan : Signals \cup {Nothing},
                    trades : Seq(Trades), realised : Int, entryFees : Nat]

\* No money appears or is lost: the cash and the position at its entry price
\* are the initial capital, the profits of the closed trades and the
\* commissions of all entries, which no trade's profit counts.
CashExplained ==
    account.cash + account.qty * account.entry
        = InitialCapital + account.realised - account.entryFees

\* Never two positions at once and no look-ahead: every trade was entered on
\* the bar after its signal, the signal came no earlier than the exit of the
\* trade before, and exactly the last trade is open while there is a position.
NoLookAhead ==
    LET ts == account.trades IN
    /\ \A k \in 1 .. Len(ts) :
          /\ ts[k].entered = ts[k].signalled + 1
          /\ ts[k].exited = Nothing => k = Len(ts) /\ account.qty = ts[k].qty
          /\ ts[k].exited # Nothing => ts[k].entered <= ts[k].exited
          /\ k > 1 => ts[k - 1].exited # Nothing /\ ts[k - 1].exited <= ts[k].signalled
    /\ account.qty # 0 => ts # <<>> /\ ts[Len(ts)].exited = Nothing

\* Whatever the number of rows, a window is fitted only on rows before those
\* it is tried on, windows come one after the other, and none leaves the data.
FoldsSound(n) ==
    \A v \in 0 .. Windows - 1 : \A f \in Folds(n, v) :
        /\ 0 <= f.start /\ f.start < f.split /\ f.split < f.end /\ f.end <= n
        /\ \A w \in v + 1 .. Windows - 1 : \A g \in Folds(n, w) : f.end <= g.start

\* The windows of the walk-forward analysis are sound for every number of rows
\* from 120 to 719 of an instance with six bars, 120 of them in the states after
\* each bar; the shortest data with windows that are kept have 395 rows.
WalkForwardSound ==
    bar > Warmup => \A n \in 120 * (bar - 1) .. 120 * bar - 1 : FoldsSound(n)
=============================================================================
