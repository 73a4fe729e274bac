------------------------------ MODULE MCMarket ------------------------------
(* Model-checking instance of MarketData and of DecisionPath, which have no    *)
(* variable in common: of the two prices the higher one is a jump away from    *)
(* the lower one, and the scan begins on every row.  A behaviour has one of    *)
(* the bar store, the dashboard and the scan at work; the others do not move   *)
(* from one of their initial states.                                           *)
EXTENDS MCMarketScan, MarketData

Idle == CHOOSE r \in Ordinary : TRUE

MCInit ==
    /\ FeedInit /\ StoreInit /\ PageInit /\ PathInit
    /\ part \in {"store", "page", "scan"}
    /\ part = "scan" => bars[1].close = Min(Prices)
    /\ part # "scan" => row = Idle /\ raising = {}

\* A scan ends: with no signal, or with one judged.
ScanOver == part = "scan" /\ ~Scanning /\ (signals = <<>> \/ Judged)

MCNext ==
    \/ part # "scan" /\ MDNext /\ UNCHANGED pathvars
    \/ /\ part = "scan" /\ PathNext
       /\ UNCHANGED <<feedvars, storevars, pagevars, part>>
    \/ ScanOver /\ UNCHANGED <<feedvars, storevars, pagevars, part, pathvars>>

MCSpec ==
    MCInit /\ [][MCNext]_<<feedvars, storevars, pagevars, part, pathvars>>
=============================================================================
