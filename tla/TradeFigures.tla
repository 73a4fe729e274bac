---------------------------- MODULE TradeFigures ----------------------------
(***************************************************************************)
(* The figures that three parts of the program compute from the profits of *)
(* a strategy's trades, each with a loop of its own: the degradation       *)
(* monitor, the learner and the pattern detector.  Quotients are compared  *)
(* by cross multiplication, so nothing is rounded.                         *)
(***************************************************************************)
EXTENDS Integers, Sequences, SequencesExt

Total(s) == SumFunction(s)

\* Squares and spread: mean over deviation is Total(s) over the root of Spread(s).
Spread(s) == Len(s) * Total([i \in DOMAIN s |-> s[i] * s[i]]) - Total(s) * Total(s)

Wins(s) == Len(SelectSeq(s, LAMBDA p : p > 0))

FaultyDrawdownExceeds(s, percent) ==
    LET earned == [i \in DOMAIN s |-> Total(SubSeq(s, 1, i))]
        peak == Max({earned[j] : j \in DOMAIN s})
    IN  s # <<>> /\ peak > 0 /\ 100 * (peak - Total(s)) > percent * peak

\* The largest fall of the profit from its peak, in percent of the peak, is
\* above the limit.  Before the first profit there is no drawdown.
DrawdownExceeds(s, percent) ==
    LET earned == [i \in DOMAIN s |-> Total(SubSeq(s, 1, i))]
    IN  \E i \in DOMAIN s :
            LET peak == Max({earned[j] : j \in 1 .. i})
            IN  peak > 0 /\ 100 * (peak - earned[i]) > percent * peak

TailAfter(run, p) == IF p < 0 THEN run + 1 ELSE 0

\* The losses at the end: evaluate() walks back from the last trade to the first
\* that is no loss.
LosingTail(s) ==
    LET tail[n \in 0 .. Len(s)] ==
            IF n = 0 THEN 0 ELSE TailAfter(tail[n - 1], s[n])
    IN  tail[Len(s)]

FaultyLossesAfter(run, p) ==
    IF p < 0 THEN [now |-> run.now + 1, most |-> Max({run.most, run.now})]
    ELSE [run EXCEPT !.now = 0]

\* _max_consecutive() of the learner: what is no loss ends a run.
LossesAfter(run, p) ==
    IF p < 0 THEN [now |-> run.now + 1, most |-> Max({run.most, run.now + 1})]
    ELSE [run EXCEPT !.now = 0]

MaxConsecutiveLosses(s) ==
    LET run[n \in 0 .. Len(s)] ==
            IF n = 0 THEN [now |-> 0, most |-> 0] ELSE LossesAfter(run[n - 1], s[n])
    IN  run[Len(s)].most

\* _streak_analysis() of the detector: only a win ends a run of losses.
StreaksAfter(run, p) ==
    IF p < 0 THEN [run EXCEPT !.now = run.now + 1]
    ELSE IF p > 0 THEN [now |-> 0, ended |-> run.ended \cup {run.now}]
    ELSE run

MaxLossStreak(s) ==
    LET run[n \in 0 .. Len(s)] ==
            IF n = 0 THEN [now |-> 0, ended |-> {}] ELSE StreaksAfter(run[n - 1], s[n])
    IN  Max(run[Len(s)].ended \cup {run[Len(s)].now})
=============================================================================
