----------------------------- MODULE MCBacktest -----------------------------
(* Model-checking instance of Backtest: bars that touch nothing, the stop, the *)
(* target or both and one that opens beyond both stops, cheap and dear; a long *)
(* and a short signal of which the capital affords two units and one.          *)
EXTENDS Backtest

Bar(open, low, high, close, cost) ==
    [open |-> open, low |-> low, high |-> high, close |-> close, cost |-> cost]

MCBars ==
    {Bar(1000, 1000, 1000, 1000, 0), Bar(1000, 800, 1000, 900, 100),
     Bar(1000, 1000, 1200, 1100, 0), Bar(1000, 800, 1200, 1000, 100),
     Bar(800, 700, 900, 900, 0)}

Signal(direction, entry, stop, target) ==
    [direction |-> direction, entry |-> entry, stop |-> stop, target |-> target]

MCSignals ==
    {Signal("LONG", 1000, 950, 1200), Signal("SHORT", 1000, 1100, 800)}
=============================================================================
