---------------------------- MODULE DecisionPath ----------------------------
(***************************************************************************)
(* What becomes of a signal: the quality filter                            *)
(* (validation/trade_quality_filter.py), then the vote of the agents       *)
(* (agents/, orchestration/decision_loop.py), with the event risk of the   *)
(* calendar (news/economic_calendar.py).                                   *)
(*                                                                         *)
(* The filter and the agents read a context whose keys the caller may      *)
(* leave out; a record here has the keys the caller set.  Confidences are  *)
(* in hundredths, spreads in hundredths of a percent, times in minutes     *)
(* from now.                                                               *)
(***************************************************************************)
EXTENDS SignalScan

CONSTANTS
    Contexts,    \* what a caller may know about a signal
    NoVerdict    \* no signal has been judged yet

\* The keys that every caller sets, and what the others hold.
ASSUME ContextAssumption ==
    \A c \in Contexts :
        /\ {"is_trading_allowed", "restricted", "events", "impact", "sentiment"}
              \subseteq DOMAIN c
        /\ \A key \in {"avg_volume", "spread_pct", "candidates", "quantity"} :
              key \in DOMAIN c => c[key] \in Int
        /\ \A e \in c.events : e.at \in Int

VARIABLE verdict   \* the last signal judged, its context and the outcome

pathvars == <<scanvars, verdict>>

MinVolume == 100000
MaxSpread == 50
NoSpread == 10000   \* the spread of a context that does not say
-----------------------------------------------------------------------------
(* News and calendar. *)

\* The high events within the hour, the only ones risk_state() stops at.
Near(events) ==
    {e \in events : e.importance = "high" /\ Distance(e.at, 0) <= 60}

\* A plausible bug: only the events to come are looked at.
FaultyRiskState(events) ==
    LET ahead == {e \in Near(events) : e.at >= 0}
        first == CHOOSE e \in ahead : \A other \in ahead : e.at <= other.at
    IN  IF ahead = {} THEN "normal"
        ELSE IF Distance(first.at, 0) <= 15 THEN "blackout" ELSE "elevated"

\* risk_state(): the events are in the order of time and the first one within
\* the hour decides.
RiskState(events) ==
    LET first == CHOOSE e \in Near(events) :
                    \A other \in Near(events) : e.at <= other.at
    IN  IF Near(events) = {} THEN "normal"
        ELSE IF Distance(first.at, 0) <= 15 THEN "blackout" ELSE "elevated"

\* assess_trade_risk(): news of high impact raises a normal state.
TradeRisk(c) ==
    IF RiskState(c.events) = "normal" /\ c.impact THEN "elevated"
    ELSE RiskState(c.events)

Contrary(direction, sentiment) ==
    \/ direction = "LONG" /\ sentiment = "bearish"
    \/ direction = "SHORT" /\ sentiment = "bullish"
-----------------------------------------------------------------------------
(* The quality filter.  A voice is a signal and the strategy it comes from.  *)

\* Reward against risk: at the threshold itself the rounding of the quotient
\* decides.
RewardVerdicts(s) ==
    LET reward == 2 * Distance(s.target, s.entry)
        risk == 3 * Distance(s.entry, s.stop)
    IN  IF reward = risk THEN BOOLEAN ELSE {reward > risk}

FaultyFilterChecks(voice, c) ==
    /\ Value(c, "data_quality", "UNKNOWN") = "CLEAN"
    /\ Value(c, "avg_volume", 0) >= MinVolume
    /\ Value(c, "spread_pct", NoSpread) >= MaxSpread
    /\ Value(c, "strategy_status", "UNDER_RESEARCH") \in {"ACTIVE", "WATCH"}
    /\ Value(c, "strategy_validated", FALSE)
    /\ regime \in AllowedRegimes[voice.strategy]
    /\ voice.signal.score >= MinQualified
    /\ c.is_trading_allowed
    /\ Value(c, "risk_approved", FALSE)

\* evaluate(), but for the reward: every check has to pass, and a key that is
\* missing does not pass.  A context may carry thresholds of its own, but nothing
\* sets them: they are the defaults here.
FilterChecks(voice, c) ==
    /\ Value(c, "data_quality", "UNKNOWN") = "CLEAN"
    /\ Value(c, "avg_volume", 0) >= MinVolume
    /\ Value(c, "spread_pct", NoSpread) <= MaxSpread
    /\ Value(c, "strategy_status", "UNDER_RESEARCH") \in {"ACTIVE", "WATCH"}
    /\ Value(c, "strategy_validated", FALSE)
    /\ regime \in AllowedRegimes[voice.strategy]
    /\ voice.signal.score >= MinQualified
    /\ c.is_trading_allowed
    /\ Value(c, "risk_approved", FALSE)

FilterVerdicts(voice, c) ==
    {FilterChecks(voice, c) /\ rewarded : rewarded \in RewardVerdicts(voice.signal)}
-----------------------------------------------------------------------------
(* The agents: the confidence of one that approves, and its opposite else. *)

MarketScanner(c) == IF Value(c, "candidates", 0) > 0 THEN 60 ELSE 0

\* Without regimes to compare with there is no restriction.
RegimeAnalyst(voice, c) ==
    IF ~c.restricted THEN 50
    ELSE IF regime \in AllowedRegimes[voice.strategy] THEN 70 ELSE -20

NewsAnalyst(voice, c) ==
    IF TradeRisk(c) = "blackout" THEN -90
    ELSE IF Contrary(voice.signal.direction, c.sentiment) THEN -60
    ELSE 55

QuantResearcher(voice) ==
    LET confidence == AtMost(100, voice.signal.score)
    IN  IF voice.signal.score >= 75 THEN confidence ELSE -confidence

BacktestingAgent(c) == IF Value(c, "edge", FALSE) THEN 60 ELSE -30

ExecutionAgent(c) ==
    IF ~Value(c, "trading_allowed", FALSE) THEN -100
    ELSE IF Value(c, "quantity", 0) > 0 THEN 70 ELSE 0

\* The two agents that may veto; what they say counts otherwise as well.
RiskVeto(c) == ~Value(c, "risk_decision", FALSE)
GovernorVeto(c) ==
    Value(c, "strategy_status", "UNDER_RESEARCH") \notin {"ACTIVE", "WATCH"}

\* What the confidences add up to.
Tally(voice, c) ==
    MarketScanner(c) + RegimeAnalyst(voice, c) + NewsAnalyst(voice, c)
        + QuantResearcher(voice) + BacktestingAgent(c) + 90
        + ExecutionAgent(c) + 90

\* decide(): no veto, and a mean of the eight of at least one half.  At one
\* half itself the rounding of the sum decides.
VoteVerdicts(voice, c) ==
    IF RiskVeto(c) \/ GovernorVeto(c) THEN {FALSE}
    ELSE IF Tally(voice, c) = 400 THEN BOOLEAN
    ELSE {Tally(voice, c) > 400}
-----------------------------------------------------------------------------
PathInit == ScanInit /\ verdict = NoVerdict

\* A round of the loop over the signals: the rounds have nothing in common, so
\* one of them stands for each.
Judge ==
    /\ ~Scanning
    /\ verdict = NoVerdict
    /\ \E i \in 1 .. Len(signals), c \in Contexts :
          \E passed \in FilterVerdicts(signals[i], c),
             voted \in VoteVerdicts(signals[i], c) :
             verdict' = [voice |-> signals[i], context |-> c, passed |-> passed,
                         approved |-> passed /\ voted]
    /\ UNCHANGED scanvars

PathNext == (RunStrategy /\ UNCHANGED verdict) \/ Judge

PathSpec == PathInit /\ [][PathNext]_pathvars
-----------------------------------------------------------------------------
(* Properties *)

Judged == verdict # NoVerdict

\* The keys without which nothing is traded.
Required ==
    {"data_quality", "avg_volume", "spread_pct", "strategy_status",
     "strategy_validated", "risk_approved", "risk_decision"}

\* The best a context can say.
Best ==
    [data_quality |-> "CLEAN", avg_volume |-> MinVolume, spread_pct |-> 10,
     strategy_status |-> "ACTIVE", strategy_validated |-> TRUE,
     is_trading_allowed |-> TRUE, risk_approved |-> TRUE, candidates |-> 1,
     restricted |-> TRUE, events |-> {}, impact |-> FALSE,
     sentiment |-> "neutral", edge |-> TRUE, trading_allowed |-> TRUE,
     quantity |-> 1, risk_decision |-> TRUE]

Improved(c, key) ==
    [k \in DOMAIN c \cup {key} |-> IF k = key THEN Best[key] ELSE c[k]]

\* Better news never cost a trade: had any one fact about an approved signal
\* been better, the filter and the vote would have approved it too.  (The vote
\* alone is not like that: it holds a score of 74 against a signal more than a
\* score of 10.)
Monotone ==
    Judged /\ verdict.approved =>
        \A key \in DOMAIN Best :
            LET better == Improved(verdict.context, key)
            IN  /\ TRUE \in FilterVerdicts(verdict.voice, better)
                /\ TRUE \in VoteVerdicts(verdict.voice, better)

\* Nothing is traded in the quarter of an hour around an event of high impact.
\* The code does not keep this: the news analyst has no veto, and its vote alone
\* is outvoted by the others.
NewsBlocks ==
    Judged /\ TradeRisk(verdict.context) = "blackout" => ~verdict.approved

\* An event within a quarter of an hour goes unnoticed only behind an earlier
\* one that is still within the hour.
BlackoutOnlyMasked ==
    Judged =>
        \A e \in Near(verdict.context.events) :
            Distance(e.at, 0) <= 15 =>
                \/ RiskState(verdict.context.events) = "blackout"
                \/ \E other \in Near(verdict.context.events) :
                      other.at < e.at /\ Distance(other.at, 0) > 15

\* Nothing trades without a trend, a quiet or a wild market: the strategies for
\* a range and for chop either score too little or aim too near.
NothingTradesInARange ==
    Judged /\ regime \in {"RANGE_BOUND", "CHOPPY"} => ~verdict.approved
=============================================================================
