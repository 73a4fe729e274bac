----------------------------- MODULE MarketData -----------------------------
(***************************************************************************)
(* The bar store and the dashboard on one market.  Neither reads what the  *)
(* other writes, so a behaviour has only one of them at work.              *)
(***************************************************************************)
EXTENDS BarStore, Dashboard

VARIABLE part    \* which of the two is at work

MDInit ==
    /\ FeedInit
    /\ StoreInit
    /\ PageInit
    /\ part \in {"store", "page"}

StoreSteps ==
    /\ part = "store"
    /\ \/ FeedNext /\ UNCHANGED storevars
       \/ StoreNext /\ UNCHANGED feedvars
    /\ UNCHANGED pagevars

PageSteps ==
    /\ part = "page"
    /\ \/ FeedNext /\ Watch /\ UNCHANGED <<cache, request>>
       \/ PageNext /\ UNCHANGED feedvars
    /\ UNCHANGED storevars

MDNext == (StoreSteps \/ PageSteps) /\ UNCHANGED part

MDSpec == MDInit /\ [][MDNext]_<<feedvars, storevars, pagevars, part>>
=============================================================================
