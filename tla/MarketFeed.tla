----------------------------- MODULE MarketFeed -----------------------------
(***************************************************************************)
(* The data service behind market_data/alpaca_client.py, as far as its     *)
(* callers see it: one series of bars of which the newest is still         *)
(* forming, and a connection that comes and goes.                          *)
(***************************************************************************)
EXTENDS Integers, FiniteSetsExt

CONSTANTS
    None,
    Prices,    \* what a trade may cost
    MaxBar     \* bound: the bars in the series

ASSUME FeedAssumption == Prices \subseteq Nat \ {0} /\ MaxBar \in Nat \ {0}

VARIABLES
    bars,    \* the series: the opening and the last price of each bar
    up       \* whether the service answers

feedvars == <<bars, up>>

Now == CHOOSE t \in DOMAIN bars : \A other \in DOMAIN bars : other <= t

Bar(open, close) == [open |-> open, close |-> close]

\* The last price, the close of the forming bar.
Last == bars[Now].close

FeedInit ==
    /\ \E p \in Prices : bars = [t \in {1} |-> Bar(p, p)]
    /\ up = TRUE

Trade ==
    /\ \E p \in Prices : bars' = [bars EXCEPT ![Now].close = p]
    /\ UNCHANGED up

NewBar ==
    /\ Now < MaxBar
    /\ \E p \in Prices :
          bars' = [t \in DOMAIN bars \cup {Now + 1} |->
                      IF t = Now + 1 THEN Bar(p, p) ELSE bars[t]]
    /\ UNCHANGED up

Connection == up' = ~up /\ UNCHANGED bars

FeedNext == Trade \/ NewBar \/ Connection
=============================================================================
