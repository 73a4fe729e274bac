----------------------------- MODULE Strategies -----------------------------
(***************************************************************************)
(* The seventeen strategies (strategies/), the regime that admits them     *)
(* (regime/classifier.py) and the columns they read                        *)
(* (features/feature_engine.py).                                           *)
(*                                                                         *)
(* A row holds the last values of the columns the feature engine built and *)
(* what the classifier measures on the same bars; a column without a value *)
(* is not in its domain.  Prices are integers, ratios are in the units     *)
(* noted below, and quotients in a score are rounded down, which no        *)
(* comparison with a whole threshold can tell.  A strategy yields the set  *)
(* of its signals: none or one.                                            *)
(***************************************************************************)
EXTENDS Integers, FiniteSetsExt

Regimes ==
    {"STRONG_UPTREND", "WEAK_UPTREND", "STRONG_DOWNTREND", "WEAK_DOWNTREND",
     "RANGE_BOUND", "HIGH_VOLATILITY", "LOW_VOLATILITY", "BREAKOUT",
     "REVERSAL", "CHOPPY"}

\* The columns of build() that a strategy reads.  Volumes are in tenths of the
\* average, bandwidth in thousandths.  The opening range is not among them.
FeatureColumns ==
    {"sma_20", "sma_50", "ema_9", "ema_21", "vwap", "adx", "plus_di", "minus_di",
     "rsi_14", "roc_12", "atr_14", "bb_upper", "bb_lower", "bb_mid",
     "bb_bandwidth", "rel_volume", "support", "resistance", "prev_high",
     "prev_low"}

Has(f, columns) == columns \subseteq DOMAIN f

Value(f, column, default) == IF Has(f, {column}) THEN f[column] ELSE default
-----------------------------------------------------------------------------
(* Definitions named Faulty... are not the code: each is a plausible bug in    *)
(* the definition after it.                                                    *)

FaultyClassify(f) ==
    LET adx == Value(f, "adx", 0)
        trend == IF Value(f, "minus_di", 0) > Value(f, "plus_di", 0)
                 THEN "UPTREND" ELSE "DOWNTREND"
    IN  CASE f.bars >= 50 /\ adx >= 35 ->
               IF trend = "UPTREND" THEN "STRONG_UPTREND" ELSE "STRONG_DOWNTREND"
          [] f.bars >= 50 /\ adx \in 25 .. 34 ->
               IF trend = "UPTREND" THEN "WEAK_UPTREND" ELSE "WEAK_DOWNTREND"
          [] OTHER -> "CHOPPY"

\* classify(): too few bars, then the extremes of volatility without a trend,
\* then the strength of the trend, then the range.  vol_pct and range_ratio are
\* percentages.  BREAKOUT and REVERSAL are never its answer.
Classify(f) ==
    LET adx == Value(f, "adx", 0)
        up == Value(f, "plus_di", 0) >= Value(f, "minus_di", 0)
    IN  CASE f.bars < 50 -> "CHOPPY"
          [] f.bars >= 50 /\ adx < 25 /\ f.vol_pct >= 75 -> "HIGH_VOLATILITY"
          [] f.bars >= 50 /\ adx < 25 /\ f.vol_pct <= 25 -> "LOW_VOLATILITY"
          [] f.bars >= 50 /\ adx >= 35 ->
               IF up THEN "STRONG_UPTREND" ELSE "STRONG_DOWNTREND"
          [] f.bars >= 50 /\ adx >= 25 /\ adx < 35 ->
               IF up THEN "WEAK_UPTREND" ELSE "WEAK_DOWNTREND"
          [] f.bars >= 50 /\ adx < 25 /\ f.vol_pct > 25 /\ f.vol_pct < 75 ->
               IF Value(f, "range_ratio", 5) < 5 THEN "RANGE_BOUND" ELSE "CHOPPY"
-----------------------------------------------------------------------------
(* Signals. *)

Signal(direction, f, stop, target, score) ==
    [direction |-> direction, entry |-> f.close, stop |-> stop,
     target |-> target, score |-> score]

Long(f, stop, target, score) == Signal("LONG", f, stop, target, score)
Short(f, stop, target, score) == Signal("SHORT", f, stop, target, score)

\* __post_init__ accepts the signal.
Accepted(s) ==
    IF s.direction = "LONG" THEN s.stop < s.entry /\ s.entry < s.target
    ELSE s.stop > s.entry /\ s.entry > s.target

\* The first condition that holds decides.
Sided(up, long, down, short) ==
    IF up THEN {long} ELSE IF down THEN {short} ELSE {}

AtMost(bound, n) == IF n < bound THEN n ELSE bound

Distance(a, b) == IF a < b THEN b - a ELSE a - b

\* The average true range, or one percent of the price where it is absent or 0.
Atr(f) == IF Value(f, "atr_14", 0) = 0 THEN f.close \div 100 ELSE f.atr_14

OneAndAHalf(n) == (3 * n) \div 2

\* Stop and target at multiples of the range around the close.
Around(f, stop, target, score) ==
    [long |-> Long(f, f.close - stop, f.close + target, score),
     short |-> Short(f, f.close + stop, f.close - target, score)]
-----------------------------------------------------------------------------
(* Breakouts. *)

ConsolidationBreakout(f) ==
    IF Has(f, {"bb_bandwidth", "resistance", "support"}) /\ f.bb_bandwidth <= 50
    THEN Sided(f.close >= f.resistance,
               Long(f, f.support, f.close + 3 * Atr(f), 76),
               f.close <= f.support,
               Short(f, f.resistance, f.close - 3 * Atr(f), 76))
    ELSE {}

HighLowBreakout(f) ==
    IF Has(f, {"prev_high", "prev_low"})
    THEN Sided(f.close > f.prev_high,
               Long(f, f.prev_low, f.close + 2 * Atr(f), 74),
               f.close < f.prev_low,
               Short(f, f.prev_high, f.close - 2 * Atr(f), 74))
    ELSE {}

OpeningRange(f) ==
    IF Has(f, {"orb_high", "orb_low"})
    THEN Sided(f.close > f.orb_high,
               Long(f, f.orb_low, f.close + 2 * (f.close - f.orb_low), 75),
               f.close < f.orb_low,
               Short(f, f.orb_high, f.close - 2 * (f.orb_high - f.close), 75))
    ELSE {}

\* The same rule in momentum/ under another name.
MomentumOpeningRange(f) == OpeningRange(f)

VolumeBreakout(f) ==
    LET s == Around(f, 2 * Atr(f), 4 * Atr(f), 78)
    IN  IF Has(f, {"rel_volume", "resistance", "support"}) /\ f.rel_volume >= 20
        THEN Sided(f.close >= f.resistance, s.long, f.close <= f.support, s.short)
        ELSE {}

(* Mean reversion. *)

BBReversion(f) ==
    IF Has(f, {"bb_upper", "bb_lower", "bb_mid"})
    THEN Sided(f.close <= f.bb_lower,
               Long(f, f.close - OneAndAHalf(Atr(f)), f.bb_mid, 74),
               f.close >= f.bb_upper,
               Short(f, f.close + OneAndAHalf(Atr(f)), f.bb_mid, 74))
    ELSE {}

FaultyRSIReversion(f) ==
    LET s == Around(f, Atr(f), 2 * Atr(f),
                    72 + AtMost(18, Distance(50, f.rsi_14) - 20))
    IN  IF Has(f, {"rsi_14"})
        THEN Sided(f.rsi_14 <= 30, s.long, f.rsi_14 >= 70, s.short)
        ELSE {}

RSIReversion(f) ==
    LET s == Around(f, OneAndAHalf(Atr(f)), 2 * Atr(f),
                    72 + AtMost(18, Distance(50, f.rsi_14) - 20))
    IN  IF Has(f, {"rsi_14"})
        THEN Sided(f.rsi_14 <= 30, s.long, f.rsi_14 >= 70, s.short)
        ELSE {}

VolatilityReversion(f) ==
    IF Has(f, {"bb_bandwidth", "bb_mid"}) /\ f.bb_bandwidth >= 50
    THEN Sided(f.close <= f.bb_mid,
               Long(f, f.close - 2 * Atr(f), f.bb_mid, 71),
               TRUE,
               Short(f, f.close + 2 * Atr(f), f.bb_mid, 71))
    ELSE {}

VWAPReversion(f) ==
    IF Has(f, {"vwap"})
    THEN Sided(f.close - f.vwap <= -2 * Atr(f),
               Long(f, f.close - OneAndAHalf(Atr(f)), f.vwap, 73),
               f.close - f.vwap >= 2 * Atr(f),
               Short(f, f.close + OneAndAHalf(Atr(f)), f.vwap, 73))
    ELSE {}

(* Momentum. *)

MomentumBreakout(f) ==
    LET s == Around(f, 2 * Atr(f), 4 * Atr(f), 76)
    IN  IF Has(f, {"resistance", "support"})
        THEN Sided(f.close >= f.resistance, s.long, f.close <= f.support, s.short)
        ELSE {}

MultiTFMomentum(f) ==
    LET s == Around(f, 2 * Atr(f), 3 * Atr(f), 72)
    IN  IF Has(f, {"rsi_14", "roc_12"})
        THEN Sided(f.rsi_14 > 55 /\ f.roc_12 > 0, s.long,
                   f.rsi_14 < 45 /\ f.roc_12 < 0, s.short)
        ELSE {}

RelVolMomentum(f) ==
    LET s == Around(f, OneAndAHalf(Atr(f)), 3 * Atr(f),
                    70 + AtMost(25, f.rel_volume - 15))
    IN  IF Has(f, {"rel_volume", "roc_12"}) /\ f.rel_volume >= 15
        THEN Sided(f.roc_12 > 0, s.long, TRUE, s.short)
        ELSE {}

(* Trend. *)

ADXTrend(f) ==
    LET s == Around(f, 2 * Atr(f), 4 * Atr(f), 70 + AtMost(25, f.adx - 25))
    IN  IF Has(f, {"adx", "plus_di", "minus_di"}) /\ f.adx >= 25
        THEN Sided(f.plus_di > f.minus_di, s.long, TRUE, s.short)
        ELSE {}

EMACrossover(f) ==
    LET s == Around(f, 2 * Atr(f), 3 * Atr(f),
                    70 + AtMost(20, (Distance(f.ema_9, f.ema_21) * 10) \div Atr(f)))
    IN  IF Has(f, {"ema_9", "ema_21"})
        THEN Sided(f.ema_9 > f.ema_21, s.long, f.ema_9 < f.ema_21, s.short)
        ELSE {}

TrendPullback(f) ==
    IF /\ Has(f, {"sma_20", "sma_50", "rsi_14"})
       /\ f.sma_20 > f.sma_50 /\ f.close <= f.sma_20 /\ f.rsi_14 < 45
    THEN {Around(f, OneAndAHalf(Atr(f)), 3 * Atr(f),
                 75 + AtMost(15, 45 - f.rsi_14)).long}
    ELSE {}

FaultyVWAPContinuation(f) ==
    LET score == 72 + AtMost(18, (Distance(f.close, f.vwap) * 8) \div Atr(f))
    IN  IF Has(f, {"vwap"})
        THEN Sided(f.close > f.vwap,
                   Long(f, f.vwap + Atr(f) \div 2,
                        f.close + (5 * Atr(f)) \div 2, score),
                   TRUE,
                   Short(f, f.vwap - Atr(f) \div 2,
                         f.close - (5 * Atr(f)) \div 2, score))
        ELSE {}

VWAPContinuation(f) ==
    LET score == 72 + AtMost(18, (Distance(f.close, f.vwap) * 8) \div Atr(f))
    IN  IF Has(f, {"vwap"})
        THEN Sided(f.close > f.vwap,
                   Long(f, f.vwap - Atr(f) \div 2,
                        f.close + (5 * Atr(f)) \div 2, score),
                   TRUE,
                   Short(f, f.vwap + Atr(f) \div 2,
                         f.close - (5 * Atr(f)) \div 2, score))
        ELSE {}

(* Cross market.  The spread to the peer, in tenths of its deviation, is there *)
(* when the strategy was given a peer with twenty returns in common.           *)

SPYQQQRelationship(f) ==
    LET s == Around(f, 2 * Atr(f), 2 * Atr(f),
                    72 + AtMost(18, (6 * (Distance(f.spread_z, 0) - 20)) \div 10))
    IN  IF Has(f, {"spread_z"}) /\ Distance(f.spread_z, 0) >= 20
        THEN Sided(f.spread_z < 0, s.long, TRUE, s.short)
        ELSE {}
-----------------------------------------------------------------------------
(* The registry. *)

Trends == {"STRONG_UPTREND", "WEAK_UPTREND", "STRONG_DOWNTREND", "WEAK_DOWNTREND"}
StrongTrends == {"STRONG_UPTREND", "STRONG_DOWNTREND"}

AllowedRegimes ==
    [consolidation_breakout |-> {"BREAKOUT", "LOW_VOLATILITY"},
     high_low_breakout      |-> StrongTrends \cup {"BREAKOUT"},
     orb                    |-> {"BREAKOUT", "HIGH_VOLATILITY"},
     volume_breakout        |-> {"BREAKOUT", "HIGH_VOLATILITY"},
     bb_reversion           |-> {"RANGE_BOUND", "LOW_VOLATILITY", "REVERSAL"},
     rsi_reversion          |-> {"RANGE_BOUND", "LOW_VOLATILITY", "REVERSAL"},
     volatility_reversion   |-> {"HIGH_VOLATILITY", "REVERSAL"},
     vwap_reversion         |-> {"RANGE_BOUND", "REVERSAL"},
     momentum_breakout      |-> StrongTrends \cup {"BREAKOUT"},
     multi_tf_momentum      |-> Trends,
     relvol_momentum        |-> {"BREAKOUT", "STRONG_UPTREND", "HIGH_VOLATILITY"},
     momentum_orb           |-> {"BREAKOUT", "HIGH_VOLATILITY"},
     adx_trend              |-> StrongTrends,
     ema_crossover          |-> Trends,
     trend_pullback         |-> {"STRONG_UPTREND", "WEAK_UPTREND"},
     vwap_continuation      |-> Trends,
     spy_qqq_relationship   |-> {"RANGE_BOUND", "REVERSAL", "CHOPPY"}]

Names == DOMAIN AllowedRegimes

\* What a strategy would signal, before the signal is validated.
Sketch(name, f) ==
    CASE name = "consolidation_breakout" -> ConsolidationBreakout(f)
      [] name = "high_low_breakout"      -> HighLowBreakout(f)
      [] name = "orb"                    -> OpeningRange(f)
      [] name = "volume_breakout"        -> VolumeBreakout(f)
      [] name = "bb_reversion"           -> BBReversion(f)
      [] name = "rsi_reversion"          -> RSIReversion(f)
      [] name = "volatility_reversion"   -> VolatilityReversion(f)
      [] name = "vwap_reversion"         -> VWAPReversion(f)
      [] name = "momentum_breakout"      -> MomentumBreakout(f)
      [] name = "multi_tf_momentum"      -> MultiTFMomentum(f)
      [] name = "relvol_momentum"        -> RelVolMomentum(f)
      [] name = "momentum_orb"           -> MomentumOpeningRange(f)
      [] name = "adx_trend"              -> ADXTrend(f)
      [] name = "ema_crossover"          -> EMACrossover(f)
      [] name = "trend_pullback"         -> TrendPullback(f)
      [] name = "vwap_continuation"      -> VWAPContinuation(f)
      [] name = "spy_qqq_relationship"   -> SPYQQQRelationship(f)

\* generate_signal: a strategy outside its regimes and a signal that does not
\* validate both yield nothing.
GenerateSignal(name, f, regime) ==
    IF regime \in AllowedRegimes[name] THEN {s \in Sketch(name, f) : Accepted(s)}
    ELSE {}
=============================================================================
