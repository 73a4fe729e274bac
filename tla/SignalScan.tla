----------------------------- MODULE SignalScan -----------------------------
(***************************************************************************)
(* One pass of SignalGenerator.generate (signals/signal_generator.py) over *)
(* the registered strategies, for one row of features and its regime.      *)
(***************************************************************************)
EXTENDS Strategies, Sequences

CONSTANTS
    Rows,            \* the rows a scan may find
    Registered,      \* the strategies in the order they were registered
    Failures,        \* the sets of strategies that may raise on the same data
    MinQualified     \* SIGNAL_SCORE_MIN_QUALIFIED

\* What the classifier and the pair strategy measure on the same bars.
Measured == {"bars", "close", "vol_pct", "range_ratio", "spread_z"}

\* What holds of the columns of a validated frame: support and resistance are
\* the extremes of the last bars, the bands lie around their mean, and the range
\* is not negative.  Prices are in units so small that a percent of a price and
\* one half of a range are whole.
SoundRow(r) ==
    /\ {"bars", "close", "vol_pct"} \subseteq DOMAIN r
    /\ \A column \in DOMAIN r : r[column] \in Int
    /\ r.close > 0 /\ r.close % 200 = 0
    /\ Value(r, "atr_14", 0) >= 0 /\ Value(r, "atr_14", 0) % 2 = 0
    /\ Has(r, {"support"}) => r.support <= r.close
    /\ Has(r, {"prev_low", "prev_high"}) => r.prev_low <= r.prev_high
    /\ Has(r, {"bb_lower", "bb_mid"}) => r.bb_lower <= r.bb_mid
    /\ Has(r, {"bb_mid", "bb_upper"}) => r.bb_mid <= r.bb_upper

ASSUME ScanAssumption ==
    /\ \A r \in Rows : SoundRow(r)
    /\ \A r \in Rows : DOMAIN r \subseteq FeatureColumns \cup Measured
    /\ \A r \in Rows : Classify(r) \in Regimes
    /\ Registered \in Seq(Names)
    /\ Failures \subseteq SUBSET Names
    /\ MinQualified \in Nat

VARIABLES
    row,        \* the last row of the features
    raising,    \* the strategies that raise on these data
    position,   \* the strategy the loop runs next
    signals     \* the list that generate() builds

scanvars == <<row, raising, position, signals>>

regime == Classify(row)
-----------------------------------------------------------------------------
ScanInit ==
    /\ row \in Rows
    /\ raising \in Failures
    /\ position = 1
    /\ signals = <<>>

Scanning == position <= Len(Registered)

\* The scorer does not call the signal REJECTED.
Qualified(s) == s.score >= MinQualified

\* The signals of one strategy that reach the list: none or one.
Contribution(name) ==
    {s \in GenerateSignal(name, row, regime) : Qualified(s)}

\* One round of the loop; a strategy that raises is passed over.
RunStrategy ==
    /\ Scanning
    /\ position' = position + 1
    /\ LET name == Registered[position]
       IN  IF name \in raising \/ Contribution(name) = {}
           THEN UNCHANGED signals
           ELSE \E s \in Contribution(name) :
                   signals' = Append(signals, [strategy |-> name, signal |-> s])
    /\ UNCHANGED <<row, raising>>
-----------------------------------------------------------------------------
(* Properties *)

\* Validation discards a signal in silence.  On the rows the feature engine
\* builds it only ever discards a degenerate one, whose stop or target is the
\* entry itself, and never a stop or target on the wrong side.
OnlyDegenerateDiscarded ==
    Scanning =>
        \A s \in Sketch(Registered[position], row) :
            Accepted(s) \/ s.entry \in {s.stop, s.target}

\* The trend follower and the classifier read the same indicator with two
\* different comparisons: they contradict one another on a tie alone.
TrendAgreesWithRegime ==
    \A i \in 1 .. Len(signals) :
        signals[i].strategy = "adx_trend" /\ row.plus_di # row.minus_di =>
            (signals[i].signal.direction = "LONG") = (regime = "STRONG_UPTREND")
=============================================================================
