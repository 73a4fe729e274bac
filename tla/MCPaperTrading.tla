--------------------------- MODULE MCPaperTrading ---------------------------
(* Model-checking instance of PaperTrading: two days, the second a Friday; the *)
(* clock shows one instant of the session, one of the review window and one    *)
(* after both; one Alpaca and two RSS items, of which a poll keeps one.        *)
EXTENDS PaperTrading
=============================================================================
