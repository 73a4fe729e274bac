---------------------------- MODULE MCTradePath ----------------------------
(* Model-checking instance of TradePath: one instrument, every boot mode;      *)
(* one unit and two, which turn a position over, cheap, dear and in a thin     *)
(* market.  Every price after slippage is a multiple of 60.                    *)
EXTENDS TradePath

MCBootModes == Modes

Lot(qty, price, thin) == [qty |-> qty, price |-> price, thin |-> thin]

MCLots == {Lot(1, 1200, 1), Lot(2, 1200, 3), Lot(2, 2400, 1)}
=============================================================================
