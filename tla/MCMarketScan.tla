---------------------------- MODULE MCMarketScan ----------------------------
(* Model-checking instance of DecisionPath: rows around one price, each with   *)
(* at most one indicator out of the ordinary, and contexts that differ from    *)
(* the best one in one or two keys, which may be missing.                      *)
EXTENDS DecisionPath

MCRegistered ==
    <<"consolidation_breakout", "high_low_breakout", "orb", "volume_breakout",
      "bb_reversion", "rsi_reversion", "volatility_reversion", "vwap_reversion",
      "momentum_breakout", "multi_tf_momentum", "relvol_momentum",
      "momentum_orb", "adx_trend", "ema_crossover", "trend_pullback",
      "vwap_continuation", "spy_qqq_relationship">>

With(f, g) == [k \in DOMAIN f \cup DOMAIN g |-> IF k \in DOMAIN g THEN g[k] ELSE f[k]]
Without(f, key) == [k \in DOMAIN f \ {key} |-> f[k]]

Plain ==
    [bars |-> 60, range_ratio |-> 3, vwap |-> 20000, rsi_14 |-> 50,
     atr_14 |-> 400, bb_upper |-> 21000, bb_lower |-> 19000, bb_mid |-> 20000,
     bb_bandwidth |-> 60, rel_volume |-> 10, support |-> 18000,
     resistance |-> 22000, prev_high |-> 20600, prev_low |-> 19400]

Directions ==
    {[plus_di |-> 30, minus_di |-> 10, roc_12 |-> 1, ema_9 |-> 20100,
      ema_21 |-> 20000, sma_20 |-> 20400, sma_50 |-> 20000],
     [plus_di |-> 10, minus_di |-> 30, roc_12 |-> -1, ema_9 |-> 19500,
      ema_21 |-> 20000, sma_20 |-> 19600, sma_50 |-> 20000],
     [plus_di |-> 20, minus_di |-> 20, roc_12 |-> 0, ema_9 |-> 20000,
      ema_21 |-> 20000, sma_20 |-> 20000, sma_50 |-> 20000]}

\* The volatility counts where there is no trend.
Markets ==
    {[adx |-> 20, vol_pct |-> v] : v \in {10, 50, 80}}
        \cup {[adx |-> a, vol_pct |-> 50] : a \in {30, 40}}

Ordinary ==
    {With(With(With(Plain, d), m), [close |-> p]) :
        d \in Directions, m \in Markets, p \in {18000, 20000, 22000}}

Oddities ==
    {[bars |-> 40], [range_ratio |-> 8], [rsi_14 |-> 20], [rsi_14 |-> 30],
     [rsi_14 |-> 44], [rsi_14 |-> 80], [atr_14 |-> 0], [bb_bandwidth |-> 30],
     [rel_volume |-> 15], [rel_volume |-> 20], [rel_volume |-> 24],
     [spread_z |-> -26], [spread_z |-> 20], [support |-> 19600]}

MCRows ==
    LET odd == {With(r, o) : r \in Ordinary, o \in Oddities}
               \cup {Without(r, "rel_volume") : r \in Ordinary}
               \cup {Without(r, "vwap") : r \in Ordinary}
    IN  {r \in Ordinary \cup odd : r.support <= r.close}

MCFailures == {{}, {"adx_trend", "rsi_reversion"}}

At(minutes) == [at |-> minutes, importance |-> "high"]

\* What the filter or a veto holds against a signal, and what the others do.
Bars ==
    {[data_quality |-> "SUSPICIOUS"], [avg_volume |-> MinVolume - 1],
     [spread_pct |-> MaxSpread + 1], [strategy_status |-> "DEGRADED"],
     [strategy_validated |-> FALSE], [is_trading_allowed |-> FALSE],
     [risk_approved |-> FALSE], [risk_decision |-> FALSE]}

Doubts ==
    {[spread_pct |-> MaxSpread], [strategy_status |-> "WATCH"],
     [candidates |-> 0], [restricted |-> FALSE],
     [events |-> {At(10)}], [events |-> {At(-10), At(70)}],
     [events |-> {At(-50), At(10)}], [events |-> {At(15), At(60)}],
     [impact |-> TRUE], [sentiment |-> "bearish"], [sentiment |-> "bullish"],
     [edge |-> FALSE], [trading_allowed |-> FALSE], [quantity |-> 0]}

Doubtful(c) ==
    {With(c, d) : d \in Doubts}
        \cup {Without(c, key) : key \in {"edge", "quantity", "candidates"}}

MCContexts ==
    {Best} \cup {With(Best, b) : b \in Bars}
           \cup {Without(Best, key) : key \in Required}
           \cup UNION {Doubtful(c) : c \in {Best} \cup Doubtful(Best)}
=============================================================================
