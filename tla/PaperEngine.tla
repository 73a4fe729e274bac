---------------------------- MODULE PaperEngine ----------------------------
(***************************************************************************)
(* The simulated account (execution/paper_engine.py): cash, one position   *)
(* per symbol at its average price, realised profit and the peak of the    *)
(* equity.  Prices are integers; an average price is a quotient, exact     *)
(* when the prices of an instance are multiples of what they are divided   *)
(* by.  Slippage is one of the models of _apply_slippage; the volume based *)
(* one multiplies the fixed one by up to three.                            *)
(***************************************************************************)
EXTENDS Integers, Sequences, FiniteSetsExt, Functions

CONSTANTS
    Names,           \* the symbols of the account
    StartingCash,
    SlipBps,         \* slippage_bps, 0 for the model "none"
    FeePerShare      \* commission_per_share

ASSUME AccountAssumption ==
    /\ IsFiniteSet(Names)
    /\ StartingCash \in Nat
    /\ SlipBps \in Nat
    /\ FeePerShare \in Nat

VARIABLES
    cash,        \* cash
    book,        \* positions: quantity, average price and realised profit
    fills,       \* fills, in order
    peak         \* peak_equity

pevars == <<cash, book, fills, peak>>

Flat == [qty |-> 0, avg |-> 0, realized |-> 0]

Signed(side, qty) == IF side = "BUY" THEN qty ELSE -qty

Magnitude(n) == IF n < 0 THEN -n ELSE n

Quotient(n, d) == IF d < 0 THEN (-n) \div (-d) ELSE n \div d

\* _apply_slippage: against the order, more of it in a thin market.
Slipped(price, side, thin) ==
    price + Signed(side, (price * SlipBps * thin) \div 10000)
-----------------------------------------------------------------------------
(* Definitions named Faulty... are not the code: each is a plausible bug in    *)
(* the definition after it.                                                    *)

FaultyPosition(pos, signed, price) ==
    LET qty == pos.qty + signed
    IN  IF pos.qty = 0 \/ (pos.qty > 0) = (signed > 0)
        THEN [pos EXCEPT !.qty = qty,
                         !.avg = Quotient(pos.avg * pos.qty + price * signed, qty)]
        ELSE [qty |-> qty, avg |-> IF qty = 0 THEN 0 ELSE pos.avg,
              realized |-> pos.realized + (price - pos.avg) * signed]

\* What a fill makes of a position: it opens or adds at the weighted average,
\* or it reduces at a profit.  One that turns the position over keeps the
\* average price of the side that was closed.
Position(pos, signed, price) ==
    LET qty == pos.qty + signed
        closing == Min({Magnitude(signed), Magnitude(pos.qty)})
        direction == IF pos.qty > 0 THEN 1 ELSE -1
    IN  IF pos.qty = 0 \/ (pos.qty > 0) = (signed > 0)
        THEN [pos EXCEPT !.qty = qty,
                         !.avg = Quotient(pos.avg * pos.qty + price * signed, qty)]
        ELSE [qty |-> qty, avg |-> IF qty = 0 THEN 0 ELSE pos.avg,
              realized |-> pos.realized + (price - pos.avg) * closing * direction]

PEInit ==
    /\ cash = StartingCash
    /\ book = [s \in Names |-> Flat]
    /\ fills = <<>>
    /\ peak = StartingCash

FillOrder(symbol, side, qty, openPrice, thin) ==
    LET price == Slipped(openPrice, side, thin)
        signed == Signed(side, qty)
    IN  /\ book' = [book EXCEPT ![symbol] = Position(@, signed, price)]
        /\ cash' = cash - (signed * price + FeePerShare * qty)
        /\ fills' = Append(fills, [symbol |-> symbol, side |-> side,
                                   qty |-> qty, price |-> price])
        /\ UNCHANGED peak

\* portfolio_value, with the average price where there is no mark; drawdown and
\* snapshot call it and so move the peak too.
Equity(marks) ==
    cash + SumFunction([s \in Names |->
              book[s].qty * (IF s \in DOMAIN marks THEN marks[s] ELSE book[s].avg)])

PortfolioValue(marks) ==
    /\ peak' = Max({peak, Equity(marks)})
    /\ UNCHANGED <<cash, book, fills>>
-----------------------------------------------------------------------------
(* Properties *)

\* The quantity held of a symbol after the first k fills.
Held(symbol, k) ==
    SumFunction([i \in 1 .. k |-> IF fills[i].symbol = symbol
                                 THEN Signed(fills[i].side, fills[i].qty) ELSE 0])

TurnedOver ==
    \E k \in 1 .. Len(fills), s \in Names : Held(s, k - 1) * Held(s, k) < 0

Fees == SumFunction([i \in 1 .. Len(fills) |-> FeePerShare * fills[i].qty])

\* The account explains its money: as long as no fill turned a position over,
\* cash and the cost of what is held are the starting cash, the realised profit
\* and the fees, however positions were opened, added to, reduced and closed.
BookExplained ==
    TurnedOver \/
    cash + SumFunction([s \in Names |-> book[s].qty * book[s].avg])
       = StartingCash + SumFunction([s \in Names |-> book[s].realized]) - Fees
=============================================================================
