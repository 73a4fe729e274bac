---------------------------- MODULE MCRiskEngine ----------------------------
(* Model-checking instance of RiskEngine: two engines, the limits of           *)
(* config/settings.py, a calendar with the Monday of the second week on day 2. *)
EXTENDS RiskEngine

\* A loss beyond every limit, debts, the weekly and the daily limit exactly,
\* the start and a gain.
MCEquities == {-50, 8400, 9400, 9700, 10000, 10600}
MCExposures == {[open |-> 0, gross |-> 0, correlated |-> 0],
                [open |-> 4, gross |-> 8000, correlated |-> 1200],
                [open |-> 5, gross |-> 0, correlated |-> 0]}
\* Shares the exposures above bring to the leverage and the cluster limit, and
\* contracts of MES that lose five times as much at their stop as their points say.
MCCandidates ==
    {[distance |-> 10, quantity |-> 4, notional |-> 1500, multiplier |-> Dollar],
     [distance |-> 5, quantity |-> 5, notional |-> 2000,
      multiplier |-> FuturesSpecs.MES.multiplier]}
MCMondays == {2}
=============================================================================
