----------------------------- MODULE TradePath -----------------------------
(***************************************************************************)
(* Order routing with the account behind it: a ticket filled on paper is a *)
(* fill of the PaperEngine that the OrderManager owns (order_manager.py,   *)
(* lines 42 and 101), and the account is valued at any moment by whoever   *)
(* asks for a snapshot.                                                    *)
(***************************************************************************)
EXTENDS OrderRouting, PaperEngine

CONSTANTS
    Lots,           \* what is ordered, at which next open or entry price and in
                    \* how thin a market: records with qty, price and thin
    Marks           \* the prices the account may be valued at

\* An order is for something, and a thin market multiplies the slippage by at
\* most three.
ASSUME LotsAssumption ==
    /\ Symbols \subseteq Names
    /\ \A lot \in Lots : /\ lot.qty \in Nat \ {0} /\ lot.price \in Nat
                         /\ lot.thin \in 0 .. 3

tpvars == <<orvars, pevars>>

TPInit == ORInit /\ PEInit

FaultyFillTicket ==
    \/ /\ PaperFill
       /\ \E lot \in Lots :
             FillOrder(call.symbol, call.side, lot.qty, lot.price, lot.thin)
    \/ /\ PaperFillRaises
       /\ \E lot \in Lots :
             FillOrder(call.symbol, call.side, lot.qty, lot.price, lot.thin)

FillTicket ==
    /\ PaperFill
    /\ \E lot \in Lots :
          FillOrder(call.symbol, call.side, lot.qty, lot.price, lot.thin)

TPNext ==
    \/ FillTicket
    \/ RouteNext /\ UNCHANGED pevars
    \/ /\ \E marks \in [Names -> Marks] : PortfolioValue(marks)
       /\ UNCHANGED orvars

TPSpec == TPInit /\ [][TPNext]_tpvars
-----------------------------------------------------------------------------
(* Properties *)

\* The paper account and the order log tell the same story: its fills are the
\* FILLED tickets, one each and in their order, whatever became of the tickets
\* between them.
FillsAreTickets ==
    LET filled == {i \in 1 .. Len(tickets) : tickets[i].status = "FILLED"}
    IN  /\ Len(fills) = Cardinality(filled)
        /\ \A i \in filled :
              LET f == fills[Cardinality({j \in filled : j <= i})]
              IN  f.symbol = tickets[i].symbol /\ f.side = tickets[i].side
=============================================================================
