-------------------------- MODULE LifecycleProofs ---------------------------
(***************************************************************************)
(* Proofs about the life of a strategy, for any outcomes, windows, limits, *)
(* backtests and strategies: the figures that the monitor, the learner and *)
(* the detector compute from its trades, the weekly review with its        *)
(* allocator, the research register, and the promotion pipeline.           *)
(***************************************************************************)
EXTENDS ValidationPipeline, StrategyLearner, Hypotheses, SumLemmas, SequenceTheorems
-----------------------------------------------------------------------------
(* The figures of the trades, each computed by a loop. *)

LossRuns == [now : Nat, most : Nat]
StreakRuns == [now : Nat, ended : SUBSET Nat]

LEMMA GreaterOfTwo ==
    ASSUME NEW a \in Int, NEW b \in Int
    PROVE  Max({a, b}) = IF a >= b THEN a ELSE b
<1>1. CASE a >= b
  <2>1. \E x \in {a, b} : \A y \in {a, b} : x >= y
    BY <1>1
  <2> QED BY <1>1, <2>1 DEF Max
<1>2. CASE ~ (a >= b)
  <2>1. \E x \in {a, b} : \A y \in {a, b} : x >= y
    BY <1>2
  <2> QED BY <1>2, <2>1 DEF Max
<1> QED BY <1>1, <1>2

LEMMA LesserOfTwo ==
    ASSUME NEW a \in Int, NEW b \in Int
    PROVE  Min({a, b}) = IF a <= b THEN a ELSE b
<1>1. CASE a <= b
  <2>1. \E x \in {a, b} : \A y \in {a, b} : x <= y
    BY <1>1
  <2> QED BY <1>1, <2>1 DEF Min
<1>2. CASE ~ (a <= b)
  <2>1. \E x \in {a, b} : \A y \in {a, b} : x <= y
    BY <1>2
  <2> QED BY <1>2, <2>1 DEF Min
<1> QED BY <1>1, <1>2

LEMMA LossesAfterType ==
    ASSUME NEW run \in LossRuns, NEW p \in Int
    PROVE  /\ LossesAfter(run, p) \in LossRuns
           /\ LossesAfter(run, p).now = IF p < 0 THEN run.now + 1 ELSE 0
           /\ LossesAfter(run, p).most =
                 IF p < 0 /\ run.now + 1 > run.most THEN run.now + 1 ELSE run.most
<1>1. run.now \in Nat /\ run.most \in Nat
  BY DEF LossRuns
<1>2. Max({run.most, run.now + 1}) =
          IF run.most >= run.now + 1 THEN run.most ELSE run.now + 1
  BY <1>1, GreaterOfTwo
<1> QED BY <1>1, <1>2 DEF LossRuns, LossesAfter

\* The loop of the learner.
LEMMA LossRunIs ==
    ASSUME NEW s \in Seq(Int)
    PROVE  \E g \in [0 .. Len(s) -> LossRuns] :
              /\ g[0] = [now |-> 0, most |-> 0]
              /\ \A i \in 1 .. Len(s) : g[i] = LossesAfter(g[i - 1], s[i])
              /\ MaxConsecutiveLosses(s) = g[Len(s)].most
<1> DEFINE n == Len(s)
           base == [now |-> 0, most |-> 0]
           Loop(g) == g = [i \in 0 .. n |-> IF i = 0 THEN base ELSE LossesAfter(g[i - 1], s[i])]
           h == [i \in 1 .. n |-> [r \in LossRuns |-> LossesAfter(r, s[i])]]
           run == CHOOSE g : Loop(g)
<1>1. n \in Nat /\ base \in LossRuns /\ \A i \in 1 .. n : s[i] \in Int
  BY DEF LossRuns
<1>2. \E g : Loop(g)
  <2>1. \A i \in 1 .. n : h[i] \in [LossRuns -> LossRuns]
    BY <1>1, LossesAfterType
  <2>2. PICK g : IsRun(g, LossRuns, base, h, n)
    <3> HIDE DEF h, base, n
    <3> QED BY <1>1, <2>1, RunExists
  <2>3. ASSUME NEW i \in 1 .. n PROVE g[i] = LossesAfter(g[i - 1], s[i])
    <3>1. i - 1 \in 0 .. n
      BY <1>1
    <3>2. g[i - 1] \in LossRuns /\ g[i] = h[i][g[i - 1]]
      BY <2>2, <3>1 DEF IsRun
    <3> QED BY <3>2
  <2>4. g = [i \in 0 .. n |-> g[i]] /\ g[0] = base
    BY <2>2 DEF IsRun
  <2>5. Loop(g)
    <3>1. \A i \in 0 .. n : g[i] = IF i = 0 THEN base ELSE LossesAfter(g[i - 1], s[i])
      <4> HIDE DEF base
      <4>1. \A i \in 0 .. n : i = 0 \/ i \in 1 .. n
        BY <1>1
      <4> QED BY <2>3, <2>4, <4>1
    <3>2. [i \in 0 .. n |-> g[i]] =
              [i \in 0 .. n |-> IF i = 0 THEN base ELSE LossesAfter(g[i - 1], s[i])]
      <4> HIDE DEF base, n
      <4> QED BY <3>1
    <3> QED BY <2>4, <3>2, Zenon
  <2> QED BY <2>5
<1>3. Loop(run)
  <2> HIDE DEF Loop
  <2> QED BY <1>2
<1>4. /\ \A i \in 0 .. n :
            run[i] = IF i = 0 THEN base ELSE LossesAfter(run[i - 1], s[i])
      /\ run = [i \in 0 .. n |-> run[i]]
  <2> HIDE DEF run, base
  <2> QED BY <1>3
<1> HIDE DEF run
<1>5. run[0] = base /\ \A i \in 1 .. n : run[i] = LossesAfter(run[i - 1], s[i])
  <2>1. 0 \in 0 .. n /\ \A i \in 1 .. n : i \in 0 .. n /\ i # 0
    BY <1>1
  <2> HIDE DEF base, n
  <2> QED BY <1>4, <2>1, Zenon
<1>6. \A i \in 0 .. n : run[i] \in LossRuns
  <2>1. \A i \in 1 .. n : run[i - 1] \in LossRuns => run[i] \in LossRuns
    BY <1>1, <1>5, LossesAfterType
  <2>2. run[0] \in LossRuns
    BY <1>1, <1>5
  <2> HIDE DEF n
  <2> QED BY <1>1, <2>1, <2>2, StaysIn
<1>7. MaxConsecutiveLosses(s) = run[n].most
  BY DEF MaxConsecutiveLosses, run
<1>8. run \in [0 .. n -> LossRuns]
  <2> HIDE DEF n
  <2> QED BY <1>4, <1>6
<1> QED BY <1>5, <1>7, <1>8

LEMMA StreaksAfterType ==
    ASSUME NEW run \in StreakRuns, NEW p \in Int
    PROVE  /\ StreaksAfter(run, p) \in StreakRuns
           /\ p < 0 => /\ StreaksAfter(run, p).now = run.now + 1
                       /\ StreaksAfter(run, p).ended = run.ended
           /\ p > 0 => /\ StreaksAfter(run, p).now = 0
                       /\ StreaksAfter(run, p).ended = run.ended \cup {run.now}
           /\ p = 0 => StreaksAfter(run, p) = run
BY DEF StreakRuns, StreaksAfter

\* The loop of the detector.
LEMMA StreakRunIs ==
    ASSUME NEW s \in Seq(Int)
    PROVE  \E g \in [0 .. Len(s) -> StreakRuns] :
              /\ g[0] = [now |-> 0, ended |-> {}]
              /\ \A i \in 1 .. Len(s) : g[i] = StreaksAfter(g[i - 1], s[i])
              /\ MaxLossStreak(s) = Max(g[Len(s)].ended \cup {g[Len(s)].now})
<1> DEFINE n == Len(s)
           base == [now |-> 0, ended |-> {}]
           Loop(g) == g = [i \in 0 .. n |-> IF i = 0 THEN base ELSE StreaksAfter(g[i - 1], s[i])]
           h == [i \in 1 .. n |-> [r \in StreakRuns |-> StreaksAfter(r, s[i])]]
           run == CHOOSE g : Loop(g)
<1>1. n \in Nat /\ base \in StreakRuns /\ \A i \in 1 .. n : s[i] \in Int
  BY DEF StreakRuns
<1>2. \E g : Loop(g)
  <2>1. \A i \in 1 .. n : h[i] \in [StreakRuns -> StreakRuns]
    BY <1>1, StreaksAfterType
  <2>2. PICK g : IsRun(g, StreakRuns, base, h, n)
    <3> HIDE DEF h, base, n
    <3> QED BY <1>1, <2>1, RunExists
  <2>3. ASSUME NEW i \in 1 .. n PROVE g[i] = StreaksAfter(g[i - 1], s[i])
    <3>1. i - 1 \in 0 .. n
      BY <1>1
    <3>2. g[i - 1] \in StreakRuns /\ g[i] = h[i][g[i - 1]]
      BY <2>2, <3>1 DEF IsRun
    <3> QED BY <3>2
  <2>4. g = [i \in 0 .. n |-> g[i]] /\ g[0] = base
    BY <2>2 DEF IsRun
  <2>5. Loop(g)
    <3>1. \A i \in 0 .. n : g[i] = IF i = 0 THEN base ELSE StreaksAfter(g[i - 1], s[i])
      <4> HIDE DEF base
      <4>1. \A i \in 0 .. n : i = 0 \/ i \in 1 .. n
        BY <1>1
      <4> QED BY <2>3, <2>4, <4>1
    <3>2. [i \in 0 .. n |-> g[i]] =
              [i \in 0 .. n |-> IF i = 0 THEN base ELSE StreaksAfter(g[i - 1], s[i])]
      <4> HIDE DEF base, n
      <4> QED BY <3>1
    <3> QED BY <2>4, <3>2, Zenon
  <2> QED BY <2>5
<1>3. Loop(run)
  <2> HIDE DEF Loop
  <2> QED BY <1>2
<1>4. /\ \A i \in 0 .. n :
            run[i] = IF i = 0 THEN base ELSE StreaksAfter(run[i - 1], s[i])
      /\ run = [i \in 0 .. n |-> run[i]]
  <2> HIDE DEF run, base
  <2> QED BY <1>3
<1> HIDE DEF run
<1>5. run[0] = base /\ \A i \in 1 .. n : run[i] = StreaksAfter(run[i - 1], s[i])
  <2>1. 0 \in 0 .. n /\ \A i \in 1 .. n : i \in 0 .. n /\ i # 0
    BY <1>1
  <2> HIDE DEF base, n
  <2> QED BY <1>4, <2>1, Zenon
<1>6. \A i \in 0 .. n : run[i] \in StreakRuns
  <2>1. \A i \in 1 .. n : run[i - 1] \in StreakRuns => run[i] \in StreakRuns
    <3> TAKE i \in 1 .. n
    <3>1. s[i] \in Int /\ run[i] = StreaksAfter(run[i - 1], s[i])
      BY <1>1, <1>5
    <3> HIDE DEF n
    <3> QED BY <3>1, StreaksAfterType
  <2>2. run[0] \in StreakRuns
    BY <1>1, <1>5
  <2> HIDE DEF n
  <2> QED BY <1>1, <2>1, <2>2, StaysIn
<1>7. MaxLossStreak(s) = Max(run[n].ended \cup {run[n].now})
  BY DEF MaxLossStreak, run
<1>8. run \in [0 .. n -> StreakRuns]
  <2> HIDE DEF n
  <2> QED BY <1>4, <1>6
<1> QED BY <1>5, <1>7, <1>8

LEMMA TailAfterType ==
    ASSUME NEW run \in Nat, NEW p \in Int
    PROVE  TailAfter(run, p) \in Nat
BY DEF TailAfter

\* The walk of the monitor.
LEMMA TailIs ==
    ASSUME NEW s \in Seq(Int)
    PROVE  \E g \in [0 .. Len(s) -> Nat] :
              /\ g[0] = 0
              /\ \A i \in 1 .. Len(s) : g[i] = TailAfter(g[i - 1], s[i])
              /\ LosingTail(s) = g[Len(s)]
<1> DEFINE n == Len(s)
           base == 0
           Loop(g) == g = [i \in 0 .. n |-> IF i = 0 THEN base ELSE TailAfter(g[i - 1], s[i])]
           h == [i \in 1 .. n |-> [r \in Nat |-> TailAfter(r, s[i])]]
           run == CHOOSE g : Loop(g)
<1>1. n \in Nat /\ base \in Nat /\ \A i \in 1 .. n : s[i] \in Int
  OBVIOUS
<1>2. \E g : Loop(g)
  <2>1. \A i \in 1 .. n : h[i] \in [Nat -> Nat]
    BY <1>1, TailAfterType
  <2>2. PICK g : IsRun(g, Nat, base, h, n)
    <3> HIDE DEF h, base, n
    <3> QED BY <1>1, <2>1, RunExists
  <2>3. ASSUME NEW i \in 1 .. n PROVE g[i] = TailAfter(g[i - 1], s[i])
    <3>1. i - 1 \in 0 .. n
      BY <1>1
    <3>2. g[i - 1] \in Nat /\ g[i] = h[i][g[i - 1]]
      BY <2>2, <3>1 DEF IsRun
    <3> QED BY <3>2
  <2>4. g = [i \in 0 .. n |-> g[i]] /\ g[0] = base
    BY <2>2 DEF IsRun
  <2>5. Loop(g)
    <3>1. \A i \in 0 .. n : g[i] = IF i = 0 THEN base ELSE TailAfter(g[i - 1], s[i])
      <4> HIDE DEF base
      <4>1. \A i \in 0 .. n : i = 0 \/ i \in 1 .. n
        BY <1>1
      <4> QED BY <2>3, <2>4, <4>1
    <3>2. [i \in 0 .. n |-> g[i]] =
              [i \in 0 .. n |-> IF i = 0 THEN base ELSE TailAfter(g[i - 1], s[i])]
      <4> HIDE DEF base, n
      <4> QED BY <3>1
    <3> QED BY <2>4, <3>2, Zenon
  <2> QED BY <2>5
<1>3. Loop(run)
  <2> HIDE DEF Loop
  <2> QED BY <1>2
<1>4. /\ \A i \in 0 .. n :
            run[i] = IF i = 0 THEN base ELSE TailAfter(run[i - 1], s[i])
      /\ run = [i \in 0 .. n |-> run[i]]
  <2> HIDE DEF run, base
  <2> QED BY <1>3
<1> HIDE DEF run
<1>5. run[0] = base /\ \A i \in 1 .. n : run[i] = TailAfter(run[i - 1], s[i])
  <2>1. 0 \in 0 .. n /\ \A i \in 1 .. n : i \in 0 .. n /\ i # 0
    BY <1>1
  <2> HIDE DEF base, n
  <2> QED BY <1>4, <2>1, Zenon
<1>6. \A i \in 0 .. n : run[i] \in Nat
  <2>1. \A i \in 1 .. n : run[i - 1] \in Nat => run[i] \in Nat
    BY <1>1, <1>5, TailAfterType
  <2>2. run[0] \in Nat
    BY <1>1, <1>5
  <2> HIDE DEF n
  <2> QED BY <1>1, <2>1, <2>2, StaysIn
<1>7. LosingTail(s) = run[n]
  BY DEF LosingTail, run
<1>8. run \in [0 .. n -> Nat]
  <2> HIDE DEF n
  <2> QED BY <1>4, <1>6
<1> QED BY <1>5, <1>7, <1>8

\* The three loops side by side.
InStep(tail, r, w) ==
    /\ tail = r.now
    /\ tail <= r.most
    /\ tail <= w.now
    /\ \E x \in w.ended \cup {w.now} : r.most <= x

SameRuns(r, w) ==
    /\ r.now = w.now
    /\ r.most \in w.ended \cup {w.now}
    /\ \A x \in w.ended \cup {w.now} : x <= r.most

LEMMA InStepKept ==
    ASSUME NEW tail \in Nat, NEW r \in LossRuns, NEW w \in StreakRuns, NEW p \in Int,
           InStep(tail, r, w)
    PROVE  InStep(TailAfter(tail, p), LossesAfter(r, p), StreaksAfter(w, p))
<1> DEFINE t2 == TailAfter(tail, p)
           r2 == LossesAfter(r, p)
           w2 == StreaksAfter(w, p)
<1>1. /\ r.now \in Nat /\ r.most \in Nat /\ w.now \in Nat
      /\ w.ended \subseteq Nat
  BY DEF LossRuns, StreakRuns
<1>2. /\ r2.now = IF p < 0 THEN r.now + 1 ELSE 0
      /\ r2.most = IF p < 0 /\ r.now + 1 > r.most THEN r.now + 1 ELSE r.most
  BY LossesAfterType
<1>3. /\ p < 0 => w2.now = w.now + 1 /\ w2.ended = w.ended
      /\ p > 0 => w2.now = 0 /\ w2.ended = w.ended \cup {w.now}
      /\ p = 0 => w2 = w
  BY StreaksAfterType
<1>4. t2 = IF p < 0 THEN tail + 1 ELSE 0
  BY DEF TailAfter
<1>5. PICK x \in w.ended \cup {w.now} : r.most <= x
  BY DEF InStep
<1>6. x \in Nat
  BY <1>1
<1>7. tail = r.now /\ tail <= r.most /\ tail <= w.now
  BY DEF InStep
<1> HIDE DEF t2, r2, w2
<1>8. t2 = r2.now /\ t2 <= r2.most
  BY <1>1, <1>2, <1>4, <1>7
<1>9. t2 <= w2.now
  BY <1>1, <1>3, <1>4, <1>7
<1>10. \E y \in w2.ended \cup {w2.now} : r2.most <= y
  <2>1. CASE p < 0
    <3>1. CASE x = w.now \/ r.now + 1 > r.most
      <4>1. r2.most <= w2.now
        BY <1>1, <1>2, <1>3, <1>5, <1>7, <2>1, <3>1
      <4> QED BY <4>1
    <3>2. CASE ~ (x = w.now \/ r.now + 1 > r.most)
      <4>1. x \in w2.ended /\ r2.most = r.most
        BY <1>2, <1>3, <1>5, <2>1, <3>2
      <4> QED BY <1>5, <4>1
    <3> QED BY <3>1, <3>2
  <2>2. CASE p > 0
    <3>1. x \in w2.ended /\ r2.most = r.most
      BY <1>2, <1>3, <1>5, <2>2
    <3> QED BY <1>5, <3>1
  <2>3. CASE p = 0
    BY <1>2, <1>3, <1>5, <2>3
  <2> QED BY <2>1, <2>2, <2>3
<1> QED BY <1>8, <1>9, <1>10 DEF InStep, t2, r2, w2

LEMMA NoLongerThan ==
    ASSUME NEW w \in StreakRuns, NEW p \in Int, NEW j \in Nat,
           \A x \in w.ended \cup {w.now} : x <= j
    PROVE  \A x \in StreaksAfter(w, p).ended \cup {StreaksAfter(w, p).now} : x <= j + 1
<1>1. w.now \in Nat /\ w.ended \subseteq Nat
  BY DEF StreakRuns
<1> DEFINE v == StreaksAfter(w, p)
<1>2. /\ p < 0 => v.now = w.now + 1 /\ v.ended = w.ended
      /\ p > 0 => v.now = 0 /\ v.ended = w.ended \cup {w.now}
      /\ p = 0 => v = w
  BY StreaksAfterType
<1>3. p < 0 \/ p > 0 \/ p = 0
  OBVIOUS
<1> HIDE DEF v
<1>4. \A x \in v.ended \cup {v.now} : x <= j + 1
  BY <1>1, <1>2, <1>3
<1> QED BY <1>4 DEF v

LEMMA SameRunsKept ==
    ASSUME NEW r \in LossRuns, NEW w \in StreakRuns, NEW p \in Int, p # 0,
           SameRuns(r, w)
    PROVE  SameRuns(LossesAfter(r, p), StreaksAfter(w, p))
<1> DEFINE r2 == LossesAfter(r, p)
           w2 == StreaksAfter(w, p)
<1>1. /\ r.now \in Nat /\ r.most \in Nat /\ w.now \in Nat
      /\ w.ended \subseteq Nat
  BY DEF LossRuns, StreakRuns
<1>2. /\ r2.now = IF p < 0 THEN r.now + 1 ELSE 0
      /\ r2.most = IF p < 0 /\ r.now + 1 > r.most THEN r.now + 1 ELSE r.most
  BY LossesAfterType
<1>3. /\ p < 0 => w2.now = w.now + 1 /\ w2.ended = w.ended
      /\ p > 0 => w2.now = 0 /\ w2.ended = w.ended \cup {w.now}
  BY StreaksAfterType
<1>4. r.now = w.now /\ r.most \in w.ended \cup {w.now}
      /\ \A x \in w.ended \cup {w.now} : x <= r.most
  BY DEF SameRuns
<1> HIDE DEF r2, w2
<1>5. CASE p < 0
  <2>1. r2.now = w2.now
    BY <1>2, <1>3, <1>4, <1>5
  <2>2. r2.most \in w2.ended \cup {w2.now}
    <3>1. CASE r.now + 1 > r.most
      BY <1>2, <1>3, <1>4, <1>5, <3>1
    <3>2. CASE ~ (r.now + 1 > r.most)
      <4>1. r.most # w.now
        BY <1>1, <1>4, <3>2
      <4> QED BY <1>2, <1>3, <1>4, <1>5, <3>2, <4>1
    <3> QED BY <3>1, <3>2
  <2>3. ASSUME NEW x \in w2.ended \cup {w2.now} PROVE x <= r2.most
    <3>1. CASE x \in w.ended
      <4>1. x \in Nat /\ x <= r.most
        BY <1>1, <1>4, <3>1
      <4> QED BY <1>1, <1>2, <4>1
    <3>2. CASE x = w.now + 1
      BY <1>1, <1>2, <1>4, <1>5, <3>2
    <3> QED BY <1>3, <1>5, <2>3, <3>1, <3>2
  <2> QED BY <2>1, <2>2, <2>3 DEF SameRuns, r2, w2
<1>6. CASE p > 0
  <2>1. r2.now = 0 /\ w2.now = 0 /\ r2.most = r.most /\ w2.ended = w.ended \cup {w.now}
    BY <1>2, <1>3, <1>6
  <2>2. \A x \in w2.ended \cup {w2.now} : x <= r2.most
    BY <1>1, <1>4, <2>1
  <2> QED BY <1>4, <2>1, <2>2 DEF SameRuns, r2, w2
<1> QED BY <1>5, <1>6

LEMMA StreaksAlwaysAgree ==
    ASSUME NEW s \in Seq(Int)
    PROVE  StreaksAgree(s)
<1> DEFINE n == Len(s)
<1>1. n \in Nat /\ \A i \in 1 .. n : s[i] \in Int
  OBVIOUS
<1>2. PICK t \in [0 .. n -> Nat] :
          /\ t[0] = 0
          /\ \A i \in 1 .. n : t[i] = TailAfter(t[i - 1], s[i])
          /\ LosingTail(s) = t[n]
  BY TailIs
<1>3. PICK r \in [0 .. n -> LossRuns] :
          /\ r[0] = [now |-> 0, most |-> 0]
          /\ \A i \in 1 .. n : r[i] = LossesAfter(r[i - 1], s[i])
          /\ MaxConsecutiveLosses(s) = r[n].most
  BY LossRunIs
<1>4. PICK w \in [0 .. n -> StreakRuns] :
          /\ w[0] = [now |-> 0, ended |-> {}]
          /\ \A i \in 1 .. n : w[i] = StreaksAfter(w[i - 1], s[i])
          /\ MaxLossStreak(s) = Max(w[n].ended \cup {w[n].now})
  BY StreakRunIs
<1>5. \A i \in 1 .. n : i - 1 \in 0 .. n /\ i \in 0 .. n
  BY <1>1
<1> HIDE DEF n
<1>6. \A i \in 0 .. n : InStep(t[i], r[i], w[i])
  <2> DEFINE S == {i \in 0 .. n : InStep(t[i], r[i], w[i])}
  <2>1. 0 \in S
    BY <1>1, <1>2, <1>3, <1>4 DEF InStep
  <2>2. ASSUME NEW i \in 1 .. n, i - 1 \in S PROVE i \in S
    <3>1. /\ t[i - 1] \in Nat /\ r[i - 1] \in LossRuns /\ w[i - 1] \in StreakRuns
          /\ s[i] \in Int
      BY <1>1, <1>5
    <3>2. InStep(t[i - 1], r[i - 1], w[i - 1])
      BY <2>2
    <3>3. InStep(TailAfter(t[i - 1], s[i]), LossesAfter(r[i - 1], s[i]),
                 StreaksAfter(w[i - 1], s[i]))
      BY <3>1, <3>2, InStepKept
    <3>4. InStep(t[i], r[i], w[i])
      BY <1>2, <1>3, <1>4, <3>3
    <3> QED BY <1>5, <3>4
  <2> HIDE DEF S
  <2>3. \A i \in 0 .. n : i \in S
    BY <1>1, <2>1, <2>2, Climb
  <2> QED BY <2>3 DEF S
<1>7. \A i \in 0 .. n : \A x \in w[i].ended \cup {w[i].now} : x <= i
  <2> DEFINE S == {i \in 0 .. n : \A x \in w[i].ended \cup {w[i].now} : x <= i}
  <2>1. 0 \in S
    BY <1>1, <1>4
  <2>2. ASSUME NEW i \in 1 .. n, i - 1 \in S PROVE i \in S
    <3>1. w[i - 1] \in StreakRuns /\ s[i] \in Int /\ w[i] = StreaksAfter(w[i - 1], s[i])
      BY <1>1, <1>4, <1>5
    <3>2. \A x \in w[i - 1].ended \cup {w[i - 1].now} : x <= i - 1
      BY <2>2
    <3>3. i - 1 \in Nat
      BY <1>1
    <3>4. \A x \in StreaksAfter(w[i - 1], s[i]).ended
                    \cup {StreaksAfter(w[i - 1], s[i]).now} : x <= i - 1 + 1
      BY <3>1, <3>2, <3>3, NoLongerThan
    <3>5. \A x \in w[i].ended \cup {w[i].now} : x <= i
      BY <3>1, <3>4
    <3> QED BY <1>5, <3>5
  <2> HIDE DEF S
  <2>3. \A i \in 0 .. n : i \in S
    BY <1>1, <2>1, <2>2, Climb
  <2> QED BY <2>3 DEF S
<1>8. (\A i \in DOMAIN s : s[i] # 0) => \A i \in 0 .. n : SameRuns(r[i], w[i])
  <2> SUFFICES ASSUME \A i \in 1 .. n : s[i] # 0
               PROVE  \A i \in 0 .. n : SameRuns(r[i], w[i])
    BY DEF n
  <2> DEFINE S == {i \in 0 .. n : SameRuns(r[i], w[i])}
  <2>1. 0 \in S
    BY <1>1, <1>3, <1>4 DEF SameRuns
  <2>2. ASSUME NEW i \in 1 .. n, i - 1 \in S PROVE i \in S
    <3>1. r[i - 1] \in LossRuns /\ w[i - 1] \in StreakRuns /\ s[i] \in Int /\ s[i] # 0
      BY <1>1, <1>5
    <3>2. SameRuns(r[i - 1], w[i - 1])
      BY <2>2
    <3>3. SameRuns(LossesAfter(r[i - 1], s[i]), StreaksAfter(w[i - 1], s[i]))
      BY <3>1, <3>2, SameRunsKept
    <3>4. SameRuns(r[i], w[i])
      BY <1>3, <1>4, <3>3
    <3> QED BY <1>5, <3>4
  <2> HIDE DEF S
  <2>3. \A i \in 0 .. n : i \in S
    BY <1>1, <2>1, <2>2, Climb
  <2> QED BY <2>3 DEF S
<1> DEFINE runs == w[n].ended \cup {w[n].now}
<1>9. n \in 0 .. n /\ runs \in SUBSET Nat /\ runs # {} /\ \A x \in runs : x <= n
  <2>1. n \in 0 .. n /\ w[n] \in StreakRuns
    BY <1>1
  <2> QED BY <1>7, <2>1 DEF StreakRuns
<1>10. Max(runs) \in runs /\ \A x \in runs : Max(runs) >= x
  <2> HIDE DEF runs
  <2>1. PICK m \in runs : \A x \in runs : x <= m
    BY <1>1, <1>9, GreatestElement
  <2>2. m \in Nat /\ \A x \in runs : x \in Nat /\ m >= x
    BY <1>9, <2>1
  <2> QED BY <2>2, <2>1 DEF Max
<1>11. r[n].most \in Nat /\ r[n].now \in Nat
  BY <1>9 DEF LossRuns
<1>12. InStep(t[n], r[n], w[n])
  BY <1>6, <1>9
<1>13. LosingTail(s) <= MaxConsecutiveLosses(s)
  BY <1>2, <1>3, <1>12 DEF InStep
<1>14. MaxConsecutiveLosses(s) <= MaxLossStreak(s)
  <2>1. PICK x \in runs : r[n].most <= x
    BY <1>12 DEF InStep
  <2>2. MaxLossStreak(s) = Max(runs) /\ MaxConsecutiveLosses(s) = r[n].most
    BY <1>3, <1>4
  <2> HIDE DEF runs
  <2>3. Max(runs) \in Nat /\ Max(runs) >= x /\ x \in Nat
    BY <1>9, <1>10, <2>1
  <2> QED BY <1>11, <2>1, <2>2, <2>3
<1>15. ASSUME \A i \in DOMAIN s : s[i] # 0
       PROVE  MaxConsecutiveLosses(s) = MaxLossStreak(s)
  <2>1. r[n].most \in runs /\ \A x \in runs : x <= r[n].most
    BY <1>8, <1>9, <1>15 DEF SameRuns
  <2>2. MaxLossStreak(s) = Max(runs) /\ MaxConsecutiveLosses(s) = r[n].most
    BY <1>3, <1>4
  <2> HIDE DEF runs
  <2>3. Max(runs) \in Nat /\ Max(runs) >= r[n].most /\ Max(runs) <= r[n].most
    BY <1>9, <1>10, <2>1
  <2> QED BY <1>11, <2>2, <2>3
<1> QED BY <1>13, <1>14, <1>15 DEF StreaksAgree

-----------------------------------------------------------------------------
(* The monitor and the learner read the same trades. *)

LEMMA TotalType ==
    ASSUME NEW s \in Seq(Int)
    PROVE  Total(s) \in Int /\ Spread(s) \in Int
<1>1. ASSUME NEW t \in Seq(Int) PROVE Total(t) \in Int
  <2>1. IsFiniteSet(DOMAIN t) /\ \A i \in DOMAIN t : t[i] \in Int
    BY FS_Interval
  <2>2. Sum(t, DOMAIN t) \in Int
    BY <2>1, SumTakes
  <2> QED BY <2>2 DEF Total, SumFunction, Sum
<1>2. [i \in DOMAIN s |-> s[i] * s[i]] \in Seq(Int)
  OBVIOUS
<1> DEFINE squares == Total([i \in DOMAIN s |-> s[i] * s[i]])
<1>3. squares \in Int /\ Total(s) \in Int
  BY <1>1, <1>2
<1>4. Spread(s) = Len(s) * squares - Total(s) * Total(s)
  BY DEF Spread
<1> HIDE DEF squares
<1> QED BY <1>3, <1>4

LEMMA YearlyIsStricter ==
    ASSUME NEW y \in Nat, y >= 2, NEW t \in Int, NEW q \in Int,
           100 * y * t * t < 49 * q
    PROVE  4 * t * t < q
<1> DEFINE tt == t * t
<1>1. tt \in Int /\ tt >= 0
  OBVIOUS
<1>2. 100 * y * t * t = 100 * (y * tt) /\ 4 * t * t = 4 * tt
  OBVIOUS
<1>3. y * tt >= 2 * tt /\ y * tt \in Int
  <2>1. \A a \in Nat, b \in Int : a >= 2 /\ b >= 0 => a * b >= 2 * b
    OBVIOUS
  <2> HIDE DEF tt
  <2> QED BY <1>1, <2>1
<1> HIDE DEF tt
<1> QED BY <1>1, <1>2, <1>3

LEMMA RollingAll ==
    ASSUME NEW s \in Seq(Int), Len(s) <= Window
    PROVE  Rolling(s) = s
<1>1. Window \in Nat
  BY ReviewAssumption
<1>2. Max({1, Len(s) - Window + 1}) = 1
  BY <1>1, GreaterOfTwo
<1>3. SubSeq(s, 1, Len(s)) = s
  OBVIOUS
<1> QED BY <1>2, <1>3 DEF Rolling

LEMMA DriftDiverges ==
    ASSUME NEW s \in Seq(Int), NEW b, b.sharpe \in Int, Len(s) <= Window,
           SharpeDrifts(s, b)
    PROVE  Diverges(s, b)
<1> DEFINE sh == b.sharpe
<1>1. Rolling(s) = s
  BY RollingAll
<1>2. Total(s) \in Int /\ Spread(s) \in Int
  BY TotalType
<1>3. Yearly \in Nat /\ Yearly >= 2
  BY LearnerAssumption
<1>4. sh > 0 /\ (Total(s) <= 0 \/ Spread(s) = 0
                 \/ 100 * Yearly * Total(s) * Total(s) < 49 * sh * sh * Spread(s))
  BY DEF SharpeDrifts
<1>5. ASSUME 100 * Yearly * Total(s) * Total(s) < 49 * sh * sh * Spread(s)
      PROVE  4 * Total(s) * Total(s) < sh * sh * Spread(s)
  <2> DEFINE q == sh * sh * Spread(s)
  <2>1. q \in Int /\ 49 * sh * sh * Spread(s) = 49 * q
    BY <1>2
  <2>2. 100 * Yearly * Total(s) * Total(s) < 49 * q
    BY <1>5, <2>1
  <2> HIDE DEF q
  <2>3. 4 * Total(s) * Total(s) < q
    BY <1>2, <1>3, <2>1, <2>2, YearlyIsStricter
  <2> QED BY <2>3 DEF q
<1> QED BY <1>1, <1>4, <1>5 DEF Diverges

\* The trades are numbers and the backtest is one of those it may be.
LearnerInv == trades \in Seq(Int) /\ backtest \in Backtests

\* The trades only grow, by trades that close.
LEMMA LearnerInvariant == LearnerSpec => []LearnerInv
<1>1. ReviewInit => LearnerInv
  BY DEF ReviewInit, LearnerInv
<1>2. LearnerInv /\ [LearnerSteps]_<<reviewvars, learnvars>> => LearnerInv'
  <2> SUFFICES ASSUME LearnerInv, [LearnerSteps]_<<reviewvars, learnvars>>
               PROVE  LearnerInv'
    OBVIOUS
  <2>1. CASE CloseTrade
    BY <2>1, ReviewAssumption DEF CloseTrade, LearnerInv
  <2>2. CASE UNCHANGED reviewvars
    BY <2>2 DEF reviewvars, LearnerInv
  <2> QED BY <2>1, <2>2 DEF LearnerSteps
<1> QED BY <1>1, <1>2, PTL DEF LearnerSpec

\* The losing tail of the monitor is within the longest run of the learner, that
\* run is the detector's unless a trade broke even, and a Sharpe ratio that the
\* learner calls a drift makes the monitor see a divergence while all trades are
\* in its window: for any trades, windows and backtests.
THEOREM ReadersNeverContradict == LearnerSpec => []ReadersAgree
<1>1. LearnerInv => ReadersAgree
  <2> SUFFICES ASSUME LearnerInv PROVE ReadersAgree
    OBVIOUS
  <2>1. trades \in Seq(Int) /\ backtest.sharpe \in Int
    BY ReviewAssumption DEF LearnerInv
  <2>2. StreaksAgree(trades)
    BY <2>1, StreaksAlwaysAgree
  <2> QED BY <2>1, <2>2, DriftDiverges DEF ReadersAgree
<1> QED BY <1>1, LearnerInvariant, PTL

-----------------------------------------------------------------------------
(* Proposals: what the learner suggests is more careful, within its bounds. *)

Careful ==
    {p \in [score : Int, risk : Int, stop : Int] :
        p.score <= 95 /\ p.risk >= 5000 /\ p.stop >= 1000000}

\* The entries of the learning memory.
Entries ==
    [kind : {"drift", "regime"}, before : {None}, after : {None}, approved : BOOLEAN]
        \cup {e \in [kind : {"params"}, before : Careful, after : Careful,
                     approved : BOOLEAN] : Tightens(e.after, e.before)}

LEMMA SuggestTightens ==
    ASSUME NEW s, NEW p \in Careful
    PROVE  Suggest(s, p) \in Careful /\ Tightens(Suggest(s, p), p)
<1>1. /\ p.score \in Int /\ p.risk \in Int /\ p.stop \in Int
      /\ p.score <= 95 /\ p.risk >= 5000 /\ p.stop >= 1000000
  BY DEF Careful
<1> DEFINE score == IF FewWins(s) THEN Min({95, p.score + 5}) ELSE p.score
           risk == IF LongLosses(s) THEN Max({5000, (p.risk * 4) \div 5}) ELSE p.risk
           stop == IF WeakProfit(s) THEN Max({1000000, (p.stop * 9) \div 10}) ELSE p.stop
<1>2. score \in Int /\ p.score <= score /\ score <= 95
  <2>1. Min({95, p.score + 5}) = IF 95 <= p.score + 5 THEN 95 ELSE p.score + 5
    BY <1>1, LesserOfTwo
  <2> QED BY <1>1, <2>1
<1>3. risk \in Int /\ 5000 <= risk /\ risk <= p.risk
  <2>1. (p.risk * 4) \div 5 \in Int /\ (p.risk * 4) \div 5 <= p.risk
    BY <1>1
  <2>2. Max({5000, (p.risk * 4) \div 5})
            = IF 5000 >= (p.risk * 4) \div 5 THEN 5000 ELSE (p.risk * 4) \div 5
    BY <2>1, GreaterOfTwo
  <2> QED BY <1>1, <2>1, <2>2
<1>4. stop \in Int /\ 1000000 <= stop /\ stop <= p.stop
  <2>1. (p.stop * 9) \div 10 \in Int /\ (p.stop * 9) \div 10 <= p.stop
    BY <1>1
  <2>2. Max({1000000, (p.stop * 9) \div 10})
            = IF 1000000 >= (p.stop * 9) \div 10 THEN 1000000 ELSE (p.stop * 9) \div 10
    BY <2>1, GreaterOfTwo
  <2> QED BY <1>1, <2>1, <2>2
<1>5. Suggest(s, p) = [score |-> score, risk |-> risk, stop |-> stop]
  BY DEF Suggest
<1> HIDE DEF score, risk, stop
<1> QED BY <1>1, <1>2, <1>3, <1>4, <1>5 DEF Careful, Tightens

LEMMA ProposedEntries ==
    ASSUME params \in Careful, NEW concentrated
    PROVE  Proposed(concentrated) \in Seq(Entries)
<1>1. /\ Event("drift", None, None) \in Entries
      /\ Event("regime", None, None) \in Entries
  BY DEF Event, Entries
<1>2. Event("params", params, Suggest(trades, params)) \in Entries
  BY SuggestTightens DEF Event, Entries
<1> DEFINE drift == IF Drifts(trades, backtest) THEN <<Event("drift", None, None)>> ELSE <<>>
           regimes == IF concentrated THEN <<Event("regime", None, None)>> ELSE <<>>
           change == IF FewWins(trades) \/ LongLosses(trades) \/ WeakProfit(trades)
                     THEN <<Event("params", params, Suggest(trades, params))>> ELSE <<>>
<1>3. drift \in Seq(Entries) /\ regimes \in Seq(Entries) /\ change \in Seq(Entries)
  BY <1>1, <1>2
<1>4. Proposed(concentrated) = drift \o regimes \o change
  BY DEF Proposed
<1> HIDE DEF drift, regimes, change
<1> QED BY <1>3, <1>4, ConcatProperties

\* Only careful parameters are in force, and only careful changes proposed.
ProposalInv == params \in Careful /\ proposals \in Seq(Entries)

LEMMA ProposalInvariant == LearnerSpec => []ProposalInv
<1>1. LearnerInit => ProposalInv
  BY DEF LearnerInit, DefaultParams, Careful, ProposalInv
<1>2. ProposalInv /\ [LearnerSteps]_<<reviewvars, learnvars>> => ProposalInv'
  <2> SUFFICES ASSUME ProposalInv, [LearnerSteps]_<<reviewvars, learnvars>>
               PROVE  ProposalInv'
    OBVIOUS
  <2>1. ASSUME Analyze PROVE ProposalInv'
    <3>1. PICK concentrated \in BOOLEAN :
             LET wanted == Proposed(concentrated)
             IN  \/ proposals' = proposals \o wanted
                 \/ \E stored \in 0 .. Len(wanted) - 1 :
                       proposals' = proposals \o SubSeq(wanted, 1, stored)
      BY <2>1 DEF Analyze
    <3> DEFINE wanted == Proposed(concentrated)
    <3>2. wanted \in Seq(Entries)
      BY ProposedEntries DEF ProposalInv
    <3> HIDE DEF wanted
    <3>3. \A stored \in 0 .. Len(wanted) - 1 : SubSeq(wanted, 1, stored) \in Seq(Entries)
      <4> SUFFICES ASSUME NEW stored \in 0 .. Len(wanted) - 1
                   PROVE  SubSeq(wanted, 1, stored) \in Seq(Entries)
        OBVIOUS
      <4>1. \A i \in 1 .. stored : wanted[i] \in Entries
        BY <3>2
      <4> QED BY <4>1, SubSeqProperties
    <3>4. \A more \in Seq(Entries) : proposals \o more \in Seq(Entries)
      BY ConcatProperties DEF ProposalInv
    <3>5. proposals' \in Seq(Entries)
      BY <3>1, <3>2, <3>3, <3>4 DEF wanted
    <3> QED BY <2>1, <3>5 DEF Analyze, ProposalInv
  <2>2. ASSUME NEW i \in DOMAIN proposals, ApproveChange(i) PROVE ProposalInv'
    <3>1. proposals[i] \in Entries
      BY DEF ProposalInv
    <3>2. [proposals[i] EXCEPT !.approved = TRUE] \in Entries
      BY <3>1 DEF Entries
    <3>3. proposals' = [proposals EXCEPT ![i] = [proposals[i] EXCEPT !.approved = TRUE]]
      BY <2>2 DEF ApproveChange
    <3>4. proposals' \in Seq(Entries)
      BY <3>2, <3>3 DEF ProposalInv
    <3> QED BY <2>2, <3>4 DEF ApproveChange, ProposalInv
  <2>3. ASSUME NEW i \in DOMAIN proposals, ApplyChange(i) PROVE ProposalInv'
    <3>1. proposals[i] \in Entries /\ proposals[i].kind = "params"
      BY <2>3 DEF ProposalInv, ApplyChange
    <3>2. proposals[i].after \in Careful
      BY <3>1 DEF Entries
    <3> QED BY <2>3, <3>2 DEF ApplyChange, ProposalInv
  <2>4. ASSUME UNCHANGED learnvars PROVE ProposalInv'
    BY <2>4 DEF learnvars, ProposalInv
  <2> QED BY <2>1, <2>2, <2>3, <2>4 DEF LearnerSteps, LearnerNext
<1> QED BY <1>1, <1>2, PTL DEF LearnerSpec

\* No proposal of the learner loosens the parameters it was made for or leaves
\* the bounds of _suggest_parameters, after any number of analyses, approvals
\* and changes taken over in any order.
THEOREM LearnerTightens == LearnerSpec => []ProposalsTighten
<1>1. ProposalInv => ProposalsTighten
  <2> SUFFICES ASSUME ProposalInv, NEW i \in DOMAIN proposals, proposals[i].kind = "params"
               PROVE  Tightens(proposals[i].after, proposals[i].before)
    BY DEF ProposalsTighten
  <2>1. proposals[i] \in Entries
    BY DEF ProposalInv
  <2> QED BY <2>1 DEF Entries
<1> QED BY <1>1, ProposalInvariant, PTL

-----------------------------------------------------------------------------
(* Reviews: a drawdown that retires a strategy stays in its trades. *)

LEMMA DrawdownStays ==
    ASSUME NEW s \in Seq(Int), NEW x \in Int, NEW percent,
           DrawdownExceeds(s, percent)
    PROVE  DrawdownExceeds(Append(s, x), percent)
<1> DEFINE t == Append(s, x)
           before == [i \in DOMAIN s |-> Total(SubSeq(s, 1, i))]
           after == [i \in DOMAIN t |-> Total(SubSeq(t, 1, i))]
           Fallen(earned, i) ==
               LET peak == Max({earned[j] : j \in 1 .. i})
               IN  peak > 0 /\ 100 * (peak - earned[i]) > percent * peak
<1>1. PICK i \in DOMAIN s : Fallen(before, i)
  BY DEF DrawdownExceeds
<1>2. DOMAIN s \subseteq DOMAIN t /\ 1 .. i \subseteq DOMAIN s /\ i \in 1 .. i
  OBVIOUS
<1>3. \A j \in DOMAIN s : after[j] = before[j]
  <2> TAKE j \in DOMAIN s
  <2>1. SubSeq(t, 1, j) = SubSeq(s, 1, j)
    OBVIOUS
  <2> QED BY <1>2, <2>1
<1> HIDE DEF before, after
<1>4. {after[j] : j \in 1 .. i} = {before[j] : j \in 1 .. i}
  BY <1>2, <1>3
<1>5. Fallen(after, i)
  BY <1>1, <1>2, <1>3, <1>4
<1>6. \E k \in DOMAIN t : Fallen(after, k)
  BY <1>2, <1>5
<1> QED BY <1>6 DEF DrawdownExceeds, after

-----------------------------------------------------------------------------
(* The allocator keeps its caps. *)

Weights == Seq(Nat)

\* The scores of a list of strategies, what a category holds, and a weight given.
Scores(e) == [i \in DOMAIN e |-> Score(e[i])]

Held(e, w, c) == [i \in DOMAIN w |-> IF e[i].category = c THEN w[i] ELSE 0]

Given(e, w, i) ==
    Min({90 * Score(e[i]), 30 * ScoreSum(e),
         Max({0, 40 * ScoreSum(e) - Used(e, w, e[i].category)})})

LEMMA LeastOfThree ==
    ASSUME NEW a \in Int, NEW b \in Int, NEW c \in Int
    PROVE  /\ Min({a, b, c}) \in {a, b, c}
           /\ Min({a, b, c}) <= a /\ Min({a, b, c}) <= b /\ Min({a, b, c}) <= c
<1> DEFINE S == {a, b, c}
<1>1. \E x \in S : \A y \in S : x <= y
  <2>1. CASE a <= b /\ a <= c
    BY <2>1
  <2>2. CASE b <= a /\ b <= c
    BY <2>2
  <2>3. CASE c <= a /\ c <= b
    BY <2>3
  <2> QED BY <2>1, <2>2, <2>3
<1>2. Min(S) \in S /\ \A y \in S : Min(S) <= y
  <2> HIDE DEF S
  <2> QED BY <1>1 DEF Min
<1> QED BY <1>2

LEMMA ScoreType ==
    ASSUME NEW m \in Figures
    PROVE  Score(m) \in Nat
<1>1. /\ m.sharpe \in Int /\ m.max_drawdown \in Int /\ m.profit_factor \in Int
      /\ m.win_rate \in Int /\ m.correlation \in Int
  BY DEF Figures
<1> DEFINE rise == Max({0, m.sharpe})
           factor == Min({500, m.profit_factor})
           score == 35 * rise + 25 * (100 - m.max_drawdown)
                      + 4 * factor + 20 * m.win_rate - 200 * m.correlation
<1>2. rise \in Int
  <2>1. rise = IF 0 >= m.sharpe THEN 0 ELSE m.sharpe
    BY <1>1, GreaterOfTwo
  <2> QED BY <1>1, <2>1
<1>3. factor \in Int
  <2>1. factor = IF 500 <= m.profit_factor THEN 500 ELSE m.profit_factor
    BY <1>1, LesserOfTwo
  <2> QED BY <1>1, <2>1
<1> HIDE DEF rise, factor
<1>4. score \in Int
  BY <1>1, <1>2, <1>3
<1>5. Score(m) = Max({10, score})
  BY DEF Score, rise, factor
<1> HIDE DEF score
<1>6. Score(m) = IF 10 >= score THEN 10 ELSE score
  BY <1>4, <1>5, GreaterOfTwo
<1> QED BY <1>4, <1>6

LEMMA TotalIsSum ==
    ASSUME NEW n \in Nat, NEW f, DOMAIN f = 1 .. n
    PROVE  Total(f) = Sum(f, 1 .. n)
BY DEF Total, SumFunction, Sum

\* A sum of natural numbers is one.
LEMMA SumOfNats ==
    ASSUME NEW n \in Nat, NEW f, \A i \in 1 .. n : f[i] \in Nat
    PROVE  Sum(f, 1 .. n) \in Nat
<1> DEFINE S == {m \in 0 .. n : Sum(f, 1 .. m) \in Nat}
<1>1. 0 \in S
  <2>1. 1 .. 0 = {}
    OBVIOUS
  <2>2. Sum(f, 1 .. 0) = 0
    BY <2>1, SumStep, FS_EmptySet
  <2> QED BY <2>2
<1>2. ASSUME NEW m \in 1 .. n, m - 1 \in S PROVE m \in S
  <2> DEFINE k == m - 1
  <2>1. k \in Nat /\ m = k + 1 /\ Sum(f, 1 .. k) \in Nat /\ \A i \in 1 .. k + 1 : f[i] \in Nat
    BY <1>2
  <2> HIDE DEF k
  <2>2. Sum(f, 1 .. k + 1) = Sum(f, 1 .. k) + f[k + 1]
    BY <2>1, SumExtends
  <2>3. f[k + 1] \in Nat
    BY <2>1
  <2>4. Sum(f, 1 .. m) \in Nat
    BY <2>1, <2>2, <2>3
  <2> QED BY <2>4
<1> HIDE DEF S
<1>3. \A i \in 0 .. n : i \in S
  BY <1>1, <1>2, Climb
<1>4. n \in S
  BY <1>3
<1> QED BY <1>4 DEF S

LEMMA ScoreSumIs ==
    ASSUME NEW e \in Seq(Figures)
    PROVE  /\ \A i \in 1 .. Len(e) : Scores(e)[i] \in Nat /\ Scores(e)[i] = Score(e[i])
           /\ ScoreSum(e) = Sum(Scores(e), 1 .. Len(e))
           /\ ScoreSum(e) \in Nat
<1>1. \A i \in 1 .. Len(e) : e[i] \in Figures /\ Scores(e)[i] = Score(e[i])
  BY DEF Scores
<1>2. \A i \in 1 .. Len(e) : Scores(e)[i] \in Nat
  BY <1>1, ScoreType
<1>3. Len(e) \in Nat /\ DOMAIN Scores(e) = 1 .. Len(e)
  BY DEF Scores
<1>4. ScoreSum(e) = Total(Scores(e))
  BY DEF ScoreSum, Scores
<1>5. ScoreSum(e) = Sum(Scores(e), 1 .. Len(e))
  <2> HIDE DEF ScoreSum
  <2> QED BY <1>3, <1>4, TotalIsSum
<1> QED BY <1>1, <1>2, <1>3, <1>5, SumOfNats

LEMMA UsedIs ==
    ASSUME NEW e, NEW w \in Weights, NEW c
    PROVE  /\ Used(e, w, c) = Sum(Held(e, w, c), 1 .. Len(w))
           /\ Used(e, w, c) \in Nat
           /\ \A i \in 1 .. Len(w) : Held(e, w, c)[i] \in Nat
           /\ DOMAIN Held(e, w, c) = 1 .. Len(w)
<1>1. Len(w) \in Nat /\ DOMAIN w = 1 .. Len(w) /\ \A i \in 1 .. Len(w) : w[i] \in Nat
  BY DEF Weights
<1>2. DOMAIN Held(e, w, c) = 1 .. Len(w)
  BY <1>1 DEF Held
<1>3. \A i \in 1 .. Len(w) : Held(e, w, c)[i] \in Nat
  BY <1>1 DEF Held
<1>4. Used(e, w, c) = Total(Held(e, w, c))
  BY DEF Used, Held
<1> HIDE DEF Used, Held
<1>5. Used(e, w, c) = Sum(Held(e, w, c), 1 .. Len(w))
  BY <1>1, <1>2, <1>4, TotalIsSum
<1> QED BY <1>1, <1>2, <1>3, <1>5, SumOfNats

\* What one more weight adds to its category.
LEMMA UsedGrows ==
    ASSUME NEW e, NEW w \in Weights, NEW c, NEW x \in Nat
    PROVE  Used(e, Append(w, x), c) =
               Used(e, w, c) + (IF e[Len(w) + 1].category = c THEN x ELSE 0)
<1> DEFINE v == Append(w, x)
           n == Len(w)
           f == Held(e, w, c)
           g == Held(e, v, c)
           more == IF e[n + 1].category = c THEN x ELSE 0
<1>1. v \in Weights /\ Len(v) = n + 1 /\ n \in Nat
      /\ v[n + 1] = x /\ \A i \in 1 .. n : v[i] = w[i]
  BY DEF Weights
<1>2. g[n + 1] = more /\ \A i \in 1 .. n : g[i] = f[i]
  <2>1. DOMAIN v = 1 .. n + 1 /\ DOMAIN w = 1 .. n
    BY <1>1 DEF Weights
  <2> HIDE DEF v, n
  <2>2. g[n + 1] = more
    BY <1>1, <2>1 DEF Held
  <2>3. ASSUME NEW i \in 1 .. n PROVE g[i] = f[i]
    <3>1. i \in DOMAIN v /\ i \in DOMAIN w
      BY <1>1, <2>1
    <3> QED BY <1>1, <3>1 DEF Held
  <2> QED BY <2>2, <2>3
<1>3. /\ Used(e, w, c) = Sum(f, 1 .. n)
      /\ Used(e, v, c) = Sum(g, 1 .. n + 1)
      /\ \A i \in 1 .. n + 1 : g[i] \in Int
  <2>1. Used(e, w, c) = Sum(f, 1 .. n)
    BY UsedIs
  <2>2. Used(e, v, c) = Sum(g, 1 .. Len(v)) /\ \A i \in 1 .. Len(v) : g[i] \in Nat
    <3> HIDE DEF v
    <3> QED BY <1>1, UsedIs
  <2> HIDE DEF v, f, g, n
  <2> QED BY <1>1, <2>1, <2>2
<1> HIDE DEF v, f, g, n, more
<1>4. Sum(g, 1 .. n + 1) = Sum(g, 1 .. n) + g[n + 1]
  BY <1>1, <1>3, SumExtends
<1>5. Sum(g, 1 .. n) = Sum(f, 1 .. n)
  <2> DEFINE S == 1 .. n
  <2>1. IsFiniteSet(S)
    BY <1>1, FS_Interval
  <2>2. \A i \in S : g[i] = f[i]
    BY <1>2
  <2> HIDE DEF S
  <2>3. Sum(g, S) = Sum(f, S)
    BY <2>1, <2>2, SumAgrees
  <2> QED BY <2>3 DEF S
<1>6. Used(e, v, c) = Used(e, w, c) + more
  BY <1>2, <1>3, <1>4, <1>5
<1> QED BY <1>6 DEF v, n, more

LEMMA TotalGrows ==
    ASSUME NEW w \in Weights, NEW x \in Nat
    PROVE  /\ Total(w) \in Nat
           /\ Total(Append(w, x)) = Total(w) + x
<1> DEFINE v == Append(w, x)
           n == Len(w)
<1>1. /\ v \in Weights /\ Len(v) = n + 1 /\ n \in Nat
      /\ v[n + 1] = x /\ (\A i \in 1 .. n : v[i] = w[i])
      /\ DOMAIN v = 1 .. n + 1 /\ DOMAIN w = 1 .. n
      /\ (\A i \in 1 .. n : w[i] \in Nat) /\ (\A i \in 1 .. n + 1 : v[i] \in Nat)
  BY DEF Weights
<1> HIDE DEF v, n
<1>2. Total(w) = Sum(w, 1 .. n) /\ Total(v) = Sum(v, 1 .. n + 1)
  BY <1>1, TotalIsSum
<1>3. Sum(v, 1 .. n + 1) = Sum(v, 1 .. n) + v[n + 1]
  BY <1>1, SumExtends
<1>4. Sum(v, 1 .. n) = Sum(w, 1 .. n)
  <2> DEFINE S == 1 .. n
  <2>1. IsFiniteSet(S)
    BY <1>1, FS_Interval
  <2>2. \A i \in S : v[i] = w[i]
    BY <1>1
  <2> HIDE DEF S
  <2>3. Sum(v, S) = Sum(w, S)
    BY <2>1, <2>2, SumAgrees
  <2> QED BY <2>3 DEF S
<1>5. Sum(w, 1 .. n) \in Nat
  BY <1>1, SumOfNats
<1>6. Total(v) = Total(w) + x
  BY <1>1, <1>2, <1>3, <1>4
<1> QED BY <1>2, <1>5, <1>6 DEF v

LEMMA GiveType ==
    ASSUME NEW e \in Seq(Figures), NEW w \in Weights, NEW i \in 1 .. Len(e)
    PROVE  /\ Give(e, w, i) \in Weights
           /\ Give(e, w, i) = Append(w, Given(e, w, i))
           /\ Given(e, w, i) \in Nat
           /\ Given(e, w, i) <= 90 * Score(e[i])
           /\ Given(e, w, i) <= 30 * ScoreSum(e)
           /\ \/ Given(e, w, i) = 0
              \/ Given(e, w, i) + Used(e, w, e[i].category) <= 40 * ScoreSum(e)
<1> DEFINE all == ScoreSum(e)
           score == Score(e[i])
           used == Used(e, w, e[i].category)
           room == Max({0, 40 * all - used})
           x == Min({90 * score, 30 * all, room})
<1>1. all \in Nat /\ score \in Nat /\ used \in Nat
  <2>1. e[i] \in Figures
    OBVIOUS
  <2> QED BY <2>1, ScoreSumIs, ScoreType, UsedIs
<1>2. Give(e, w, i) = Append(w, x) /\ Given(e, w, i) = x
  BY DEF Give, Given
<1> HIDE DEF all, score, used
<1>3. room = IF 0 >= 40 * all - used THEN 0 ELSE 40 * all - used
  BY <1>1, GreaterOfTwo
<1>4. room \in Nat
  BY <1>1, <1>3
<1> HIDE DEF room
<1>5. x \in {90 * score, 30 * all, room} /\ x <= 90 * score /\ x <= 30 * all /\ x <= room
  <2> DEFINE a == 90 * score
             b == 30 * all
  <2>1. a \in Int /\ b \in Int /\ room \in Int
    BY <1>1, <1>4
  <2> HIDE DEF a, b
  <2>2. /\ Min({a, b, room}) \in {a, b, room}
        /\ Min({a, b, room}) <= a /\ Min({a, b, room}) <= b /\ Min({a, b, room}) <= room
    BY <2>1, LeastOfThree
  <2> QED BY <2>2 DEF a, b
<1> HIDE DEF x
<1>6. x \in Nat /\ (x = 0 \/ x + used <= 40 * all)
  BY <1>1, <1>3, <1>4, <1>5
<1>7. Append(w, x) \in Weights
  BY <1>6 DEF Weights
<1> QED BY <1>2, <1>5, <1>6, <1>7 DEF all, score, used

\* The loop of the allocator.
LEMMA AllocationIs ==
    ASSUME NEW e \in Seq(Figures)
    PROVE  \E g \in [0 .. Len(e) -> Weights] :
              /\ g[0] = <<>>
              /\ \A i \in 1 .. Len(e) : g[i] = Give(e, g[i - 1], i)
              /\ Allocation(e) = g[Len(e)]
<1> DEFINE n == Len(e)
           base == <<>>
           Loop(g) == g = [i \in 0 .. n |-> IF i = 0 THEN base ELSE Give(e, g[i - 1], i)]
           h == [i \in 1 .. n |-> [r \in Weights |-> Give(e, r, i)]]
           run == CHOOSE g : Loop(g)
<1>1. n \in Nat /\ base \in Weights
  BY DEF Weights
<1>2. \E g : Loop(g)
  <2>1. \A i \in 1 .. n : h[i] \in [Weights -> Weights]
    BY <1>1, GiveType
  <2>2. PICK g : IsRun(g, Weights, base, h, n)
    <3> HIDE DEF h, base, n
    <3> QED BY <1>1, <2>1, RunExists
  <2>3. ASSUME NEW i \in 1 .. n PROVE g[i] = Give(e, g[i - 1], i)
    <3>1. i - 1 \in 0 .. n
      BY <1>1
    <3>2. g[i - 1] \in Weights /\ g[i] = h[i][g[i - 1]]
      BY <2>2, <3>1 DEF IsRun
    <3> QED BY <3>2
  <2>4. g = [i \in 0 .. n |-> g[i]] /\ g[0] = base
    BY <2>2 DEF IsRun
  <2>5. Loop(g)
    <3>1. \A i \in 0 .. n : g[i] = IF i = 0 THEN base ELSE Give(e, g[i - 1], i)
      <4> HIDE DEF base
      <4>1. \A i \in 0 .. n : i = 0 \/ i \in 1 .. n
        BY <1>1
      <4> QED BY <2>3, <2>4, <4>1
    <3>2. [i \in 0 .. n |-> g[i]] =
              [i \in 0 .. n |-> IF i = 0 THEN base ELSE Give(e, g[i - 1], i)]
      <4> HIDE DEF base, n
      <4> QED BY <3>1
    <3> QED BY <2>4, <3>2, Zenon
  <2> QED BY <2>5
<1>3. Loop(run)
  <2> HIDE DEF Loop
  <2> QED BY <1>2
<1>4. /\ \A i \in 0 .. n :
            run[i] = IF i = 0 THEN base ELSE Give(e, run[i - 1], i)
      /\ run = [i \in 0 .. n |-> run[i]]
  <2> HIDE DEF run, base
  <2> QED BY <1>3
<1> HIDE DEF run
<1>5. run[0] = base /\ \A i \in 1 .. n : run[i] = Give(e, run[i - 1], i)
  <2>1. 0 \in 0 .. n /\ \A i \in 1 .. n : i \in 0 .. n /\ i # 0
    BY <1>1
  <2> HIDE DEF base, n
  <2> QED BY <1>4, <2>1, Zenon
<1>6. \A i \in 0 .. n : run[i] \in Weights
  <2>1. \A i \in 1 .. n : run[i - 1] \in Weights => run[i] \in Weights
    BY <1>1, <1>5, GiveType
  <2>2. run[0] \in Weights
    BY <1>1, <1>5
  <2> HIDE DEF n
  <2> QED BY <1>1, <2>1, <2>2, StaysIn
<1>7. Allocation(e) = run[n]
  BY DEF Allocation, run
<1>8. run \in [0 .. n -> Weights]
  <2> HIDE DEF n
  <2> QED BY <1>4, <1>6
<1> QED BY <1>5, <1>7, <1>8

\* After a strategy has been given its weight, the caps hold for those so far.
SoFar(e, w) ==
    /\ Total(w) <= 90 * Sum(Scores(e), 1 .. Len(w))
    /\ \A i \in 1 .. Len(w) : w[i] <= 30 * ScoreSum(e)
    /\ \A c \in STRING : Used(e, w, c) <= 40 * ScoreSum(e)

LEMMA GiveKeeps ==
    ASSUME NEW e \in Seq(Figures), NEW i \in 1 .. Len(e), NEW w \in Weights,
           Len(w) = i - 1, SoFar(e, w)
    PROVE  SoFar(e, Give(e, w, i)) /\ Len(Give(e, w, i)) = i
<1> DEFINE x == Given(e, w, i)
           all == ScoreSum(e)
           before == Sum(Scores(e), 1 .. i - 1)
<1>1. /\ Give(e, w, i) = Append(w, x)
      /\ x \in Nat
      /\ x <= 90 * Score(e[i])
      /\ x <= 30 * all
      /\ x = 0 \/ x + Used(e, w, e[i].category) <= 40 * all
  BY GiveType
<1>2. all \in Nat /\ Scores(e)[i] = Score(e[i]) /\ Score(e[i]) \in Nat
  BY ScoreSumIs
<1>3. before \in Nat /\ Sum(Scores(e), 1 .. i) = before + Score(e[i])
  <2> DEFINE k == i - 1
  <2>1. k \in Nat /\ k + 1 = i
    OBVIOUS
  <2>2. \A j \in 1 .. k + 1 : Scores(e)[j] \in Nat
    <3>1. \A j \in 1 .. Len(e) : Scores(e)[j] \in Nat
      BY ScoreSumIs
    <3> QED BY <2>1, <3>1
  <2> HIDE DEF k
  <2>3. Sum(Scores(e), 1 .. k + 1) = Sum(Scores(e), 1 .. k) + Scores(e)[k + 1]
    BY <2>1, <2>2, SumExtends
  <2>4. Sum(Scores(e), 1 .. k) \in Nat
    BY <2>1, <2>2, SumOfNats
  <2>5. before = Sum(Scores(e), 1 .. k)
    BY DEF k
  <2> QED BY <1>2, <2>1, <2>3, <2>4, <2>5
<1> HIDE DEF x, all, before
<1>4. Total(w) \in Nat /\ Total(Append(w, x)) = Total(w) + x
  BY <1>1, TotalGrows
<1>5. Total(w) <= 90 * before
  BY DEF SoFar, before
<1>6. Total(Append(w, x)) <= 90 * Sum(Scores(e), 1 .. i)
  BY <1>1, <1>2, <1>3, <1>4, <1>5
<1>7. Len(Append(w, x)) = i /\ \A j \in 1 .. i : Append(w, x)[j] <= 30 * all
  <2>1. Len(Append(w, x)) = i /\ Append(w, x)[i] = x
        /\ \A j \in 1 .. i - 1 : Append(w, x)[j] = w[j]
    BY <1>1 DEF Weights
  <2>2. \A j \in 1 .. i - 1 : w[j] <= 30 * all
    BY DEF SoFar, all
  <2>3. \A j \in 1 .. i : j = i \/ j \in 1 .. i - 1
    OBVIOUS
  <2> QED BY <1>1, <2>1, <2>2, <2>3
<1>8. ASSUME NEW c \in STRING PROVE Used(e, Append(w, x), c) <= 40 * all
  <2>1. Used(e, Append(w, x), c) =
            Used(e, w, c) + (IF e[Len(w) + 1].category = c THEN x ELSE 0)
    BY <1>1, UsedGrows
  <2>2. Len(w) + 1 = i
    OBVIOUS
  <2>3. Used(e, w, c) \in Nat
    BY UsedIs
  <2>4. Used(e, w, c) <= 40 * all
    BY DEF SoFar, all
  <2> DEFINE used == Used(e, w, c)
             then == Used(e, Append(w, x), c)
             more == IF e[i].category = c THEN x ELSE 0
  <2>5. then = used + more
    BY <2>1, <2>2
  <2>6. more = 0 \/ (more = x /\ e[i].category = c)
    OBVIOUS
  <2>7. more = 0 \/ (more = x /\ (x = 0 \/ x + used <= 40 * all))
    BY <1>1, <2>6
  <2> HIDE DEF used, then, more
  <2>8. then <= 40 * all
    BY <1>1, <1>2, <2>3, <2>4, <2>5, <2>7 DEF used
  <2> QED BY <2>8 DEF then
<1> QED BY <1>1, <1>6, <1>7, <1>8 DEF SoFar, all

\* What allocate() returns for a list of strategies keeps all the caps.
LEMMA AllocationKeepsCaps ==
    ASSUME NEW e \in Seq(Figures)
    PROVE  LET w == Allocation(e)
           IN  /\ w \in Weights
               /\ Len(w) = Len(e)
               /\ SoFar(e, w)
<1> DEFINE n == Len(e)
<1>1. n \in Nat
  OBVIOUS
<1>2. PICK g \in [0 .. n -> Weights] :
          /\ g[0] = <<>>
          /\ \A i \in 1 .. n : g[i] = Give(e, g[i - 1], i)
          /\ Allocation(e) = g[n]
  BY AllocationIs
<1> DEFINE S == {i \in 0 .. n : Len(g[i]) = i /\ SoFar(e, g[i])}
<1>3. 0 \in S
  <2>1. <<>> \in Weights /\ Len(<<>>) = 0 /\ 1 .. 0 = {} /\ DOMAIN <<>> = 1 .. 0
    BY DEF Weights
  <2>2. Total(<<>>) = 0 /\ \A c \in STRING : Used(e, <<>>, c) = 0
    <3>1. \A f : Sum(f, {}) = 0
      BY SumStep, FS_EmptySet
    <3>2. Total(<<>>) = Sum(<<>>, 1 .. 0)
      BY <2>1, TotalIsSum
    <3>3. \A c \in STRING : Used(e, <<>>, c) = Sum(Held(e, <<>>, c), 1 .. 0)
      BY <2>1, UsedIs
    <3> QED BY <2>1, <3>1, <3>2, <3>3
  <2>3. ScoreSum(e) \in Nat /\ Sum(Scores(e), 1 .. 0) = 0
    BY <2>1, ScoreSumIs, SumStep, FS_EmptySet
  <2>4. SoFar(e, <<>>)
    BY <2>1, <2>2, <2>3 DEF SoFar
  <2> QED BY <1>1, <1>2, <2>1, <2>4
<1>4. ASSUME NEW i \in 1 .. n, i - 1 \in S PROVE i \in S
  <2>1. g[i - 1] \in Weights /\ Len(g[i - 1]) = i - 1 /\ SoFar(e, g[i - 1])
    BY <1>1, <1>4
  <2>2. g[i] = Give(e, g[i - 1], i)
    BY <1>2
  <2>3. SoFar(e, Give(e, g[i - 1], i)) /\ Len(Give(e, g[i - 1], i)) = i
    BY <2>1, GiveKeeps
  <2> QED BY <1>1, <2>2, <2>3
<1>5. n \in S
  <2> HIDE DEF S, n
  <2>1. \A i \in 0 .. n : i \in S
    BY <1>1, <1>3, <1>4, Climb
  <2> QED BY <1>1, <2>1
<1> QED BY <1>1, <1>2, <1>5
-----------------------------------------------------------------------------
(* Those the allocator is asked about may trade. *)

\* The rows that a recommendation lets trade.
Listed(recommended) ==
    Seq({p \in Figures : p.name = Reviewed => recommended \in Trading})

LEMMA AdmitType ==
    ASSUME NEW recommended, NEW Rows, Rows = Listed(recommended), NEW chosen \in Rows,
           NEW p \in Figures
    PROVE  Admit(chosen, p, recommended) \in Rows
<1>1. CASE p.name = Reviewed
  BY <1>1 DEF Admit, Listed
<1>2. CASE p.name # Reviewed
  BY <1>2 DEF Admit, Listed
<1> QED BY <1>1, <1>2

\* The loop that lists them.
LEMMA EligibleIs ==
    ASSUME NEW recommended, NEW Rows, Rows = Listed(recommended)
    PROVE  \E g \in [0 .. Len(Profiles) -> Rows] :
              /\ g[0] = <<>>
              /\ \A i \in 1 .. Len(Profiles) : g[i] = Admit(g[i - 1], Profiles[i], recommended)
              /\ Eligible(recommended) = g[Len(Profiles)]
<1> DEFINE n == Len(Profiles)
           base == <<>>
           Loop(g) == g = [i \in 0 .. n |->
               IF i = 0 THEN base ELSE Admit(g[i - 1], Profiles[i], recommended)]
           h == [i \in 1 .. n |-> [r \in Rows |-> Admit(r, Profiles[i], recommended)]]
           run == CHOOSE g : Loop(g)
<1>1. n \in Nat /\ base \in Rows /\ \A i \in 1 .. n : Profiles[i] \in Figures
  BY ReviewAssumption DEF Listed
<1>2. \E g : Loop(g)
  <2>1. \A i \in 1 .. n : h[i] \in [Rows -> Rows]
    BY <1>1, AdmitType
  <2>2. PICK g : IsRun(g, Rows, base, h, n)
    <3> HIDE DEF h, base, n
    <3> QED BY <1>1, <2>1, RunExists
  <2>3. ASSUME NEW i \in 1 .. n PROVE g[i] = Admit(g[i - 1], Profiles[i], recommended)
    <3>1. i - 1 \in 0 .. n
      BY <1>1
    <3>2. g[i - 1] \in Rows /\ g[i] = h[i][g[i - 1]]
      BY <2>2, <3>1 DEF IsRun
    <3> QED BY <3>2
  <2>4. g = [i \in 0 .. n |-> g[i]] /\ g[0] = base
    BY <2>2 DEF IsRun
  <2>5. Loop(g)
    <3>1. \A i \in 0 .. n : g[i] = IF i = 0 THEN base ELSE Admit(g[i - 1], Profiles[i], recommended)
      <4> HIDE DEF base
      <4>1. \A i \in 0 .. n : i = 0 \/ i \in 1 .. n
        BY <1>1
      <4> QED BY <2>3, <2>4, <4>1
    <3>2. [i \in 0 .. n |-> g[i]] =
              [i \in 0 .. n |-> IF i = 0 THEN base ELSE Admit(g[i - 1], Profiles[i], recommended)]
      <4> HIDE DEF base, n
      <4> QED BY <3>1
    <3> QED BY <2>4, <3>2, Zenon
  <2> QED BY <2>5
<1>3. Loop(run)
  <2> HIDE DEF Loop
  <2> QED BY <1>2
<1>4. /\ \A i \in 0 .. n :
            run[i] = IF i = 0 THEN base ELSE Admit(run[i - 1], Profiles[i], recommended)
      /\ run = [i \in 0 .. n |-> run[i]]
  <2> HIDE DEF run, base
  <2> QED BY <1>3
<1> HIDE DEF run
<1>5. run[0] = base /\ \A i \in 1 .. n : run[i] = Admit(run[i - 1], Profiles[i], recommended)
  <2>1. 0 \in 0 .. n /\ \A i \in 1 .. n : i \in 0 .. n /\ i # 0
    BY <1>1
  <2> HIDE DEF base, n
  <2> QED BY <1>4, <2>1, Zenon
<1>6. \A i \in 0 .. n : run[i] \in Rows
  <2>1. \A i \in 1 .. n : run[i - 1] \in Rows => run[i] \in Rows
    BY <1>1, <1>5, AdmitType
  <2>2. run[0] \in Rows
    BY <1>1, <1>5
  <2> HIDE DEF n
  <2> QED BY <1>1, <2>1, <2>2, StaysIn
<1>7. Eligible(recommended) = run[n]
  BY DEF Eligible, run
<1>8. run \in [0 .. n -> Rows]
  <2> HIDE DEF n
  <2> QED BY <1>4, <1>6
<1> QED BY <1>5, <1>7, <1>8

-----------------------------------------------------------------------------
(* What a review said follows from what it saw. *)

LEMMA EligibleListed ==
    ASSUME NEW recommended
    PROVE  Eligible(recommended) \in Listed(recommended)
<1> DEFINE Rows == Listed(recommended)
           n == Len(Profiles)
<1>1. n \in Nat
  BY ReviewAssumption
<1>2. \E g \in [0 .. n -> Rows] : Eligible(recommended) = g[n]
  <2> HIDE DEF Rows
  <2>1. Rows = Listed(recommended)
    BY DEF Rows
  <2> QED BY <2>1, EligibleIs
<1> QED BY <1>1, <1>2

\* A list may have the reviewed strategy only when it may trade.
LEMMA ListedMayTrade ==
    ASSUME NEW recommended, NEW e \in Listed(recommended)
    PROVE  /\ e \in Seq(Figures)
           /\ (\E i \in DOMAIN e : e[i].name = Reviewed) => recommended \in Trading
BY DEF Listed

\* The money of a strategy that may trade after a review is earned.
LEMMA TradingIsEarned ==
    ASSUME NEW from, NEW s \in Seq(Int), s # <<>>, NEW b, b = backtest,
           Recommendation(from, s, b) \in Trading
    PROVE  /\ Total(Rolling(s)) > 0
           /\ ~DrawdownExceeds(s, 15)
           /\ LosingTail(s) < LossRun
           /\ Diverges(s, b) => from = "SUSPENDED"
<1>1. LosingTail(s) \in Nat
  BY TailIs
<1>2. Total(Rolling(s)) \in Int
  <2>1. Window \in Nat /\ Len(s) \in Nat
    BY ReviewAssumption
  <2>2. Max({1, Len(s) - Window + 1}) = IF 1 >= Len(s) - Window + 1 THEN 1 ELSE Len(s) - Window + 1
    BY <2>1, GreaterOfTwo
  <2> DEFINE first == Max({1, Len(s) - Window + 1})
  <2>3. first \in Nat /\ first >= 1
    BY <2>1, <2>2
  <2> HIDE DEF first
  <2>4. SubSeq(s, first, Len(s)) \in Seq(Int)
    BY <2>3
  <2>5. Rolling(s) = SubSeq(s, first, Len(s))
    BY DEF Rolling, first
  <2> QED BY <2>4, <2>5, TotalType
<1>3. LossRun \in Nat
  BY ReviewAssumption
<1>4. ~Retire(s)
  BY DEF Recommendation, Trading
<1>5. ~Suspend(s)
  BY <1>4 DEF Recommendation, Trading
<1>6. ~Degrade(s)
  BY <1>4, <1>5 DEF Recommendation, Trading
<1>7. Diverges(s, b) => from = "SUSPENDED"
  BY <1>4, <1>5, <1>6 DEF Recommendation, Trading
<1>8. LosingTail(s) < LossRun
  <2>1. ~ (LosingTail(s) >= LossRun)
    BY <1>5 DEF Suspend
  <2> QED BY <1>1, <1>3, <2>1
<1>9. Total(Rolling(s)) > 0 /\ ~DrawdownExceeds(s, 15)
  <2>1. ~ (Total(Rolling(s)) <= 0) /\ ~DrawdownExceeds(s, 15)
    BY <1>6 DEF Degrade
  <2> QED BY <1>2, <2>1
<1> QED BY <1>7, <1>8, <1>9

\* The review in hand is that of the first trades, and a strategy that is buried
\* has a drawdown above 40 percent among its trades.
SaysWhatItSaw ==
    review # None =>
        /\ review.seen \in 0 .. Len(trades)
        /\ review.recommended =
               Recommendation(review.from, SubSeq(trades, 1, review.seen), backtest)
        /\ review.eligible = Eligible(review.recommended)
        /\ review.weights = Allocation(review.eligible)

ReviewInv ==
    /\ trades \in Seq(Int)
    /\ backtest \in Backtests
    /\ buried \in BOOLEAN
    /\ buried => DrawdownExceeds(trades, 40)
    /\ SaysWhatItSaw

LEMMA ReviewInvariant == ReviewSpec => []ReviewInv
<1>1. ReviewInit => ReviewInv
  <2> SUFFICES ASSUME ReviewInit PROVE ReviewInv
    OBVIOUS
  <2>1. trades = <<>> /\ backtest \in Backtests /\ review = None /\ buried = FALSE
    BY DEF ReviewInit
  <2>2. SaysWhatItSaw
    BY <2>1, Zenon DEF SaysWhatItSaw
  <2>3. trades \in Seq(Int) /\ backtest \in Backtests
    BY <2>1
  <2>4. buried \in BOOLEAN /\ (buried => DrawdownExceeds(trades, 40))
    BY <2>1, Zenon
  <2> QED BY <2>2, <2>3, <2>4 DEF ReviewInv
<1>2. ReviewInv /\ [ReviewNext]_reviewvars => ReviewInv'
  <2> SUFFICES ASSUME ReviewInv, [ReviewNext]_reviewvars PROVE ReviewInv'
    OBVIOUS
  <2>1. CASE CloseTrade
    <3>1. PICK p \in Int : trades' = Append(trades, p)
      BY <2>1, ReviewAssumption DEF CloseTrade
    <3>2. trades \in Seq(Int) /\ trades' \in Seq(Int) /\ Len(trades') = Len(trades) + 1
      BY <3>1 DEF ReviewInv
    <3>3. buried' => DrawdownExceeds(trades', 40)
      <4>1. buried => DrawdownExceeds(Append(trades, p), 40)
        BY <3>2, DrawdownStays DEF ReviewInv
      <4> QED BY <2>1, <3>1, <4>1 DEF CloseTrade
    <3>4. SaysWhatItSaw'
      <4> SUFFICES ASSUME review # None
                   PROVE  /\ review.seen \in 0 .. Len(trades')
                          /\ SubSeq(trades', 1, review.seen) = SubSeq(trades, 1, review.seen)
        BY <2>1 DEF CloseTrade, SaysWhatItSaw, ReviewInv
      <4>1. review.seen \in 0 .. Len(trades)
        BY DEF ReviewInv, SaysWhatItSaw
      <4> DEFINE seen == review.seen
      <4> HIDE DEF seen
      <4>2. \A m \in 0 .. Len(trades) : SubSeq(Append(trades, p), 1, m) = SubSeq(trades, 1, m)
        BY <3>2
      <4> QED BY <3>1, <3>2, <4>1, <4>2
    <3> QED BY <2>1, <3>2, <3>3, <3>4 DEF CloseTrade, ReviewInv
  <2>2. CASE WeeklyReview
    <3>1. UNCHANGED <<trades, backtest>> /\ trades \in Seq(Int)
      BY <2>2 DEF WeeklyReview, ReviewInv
    <3>2. SubSeq(trades, 1, Len(trades)) = trades /\ Len(trades) \in 0 .. Len(trades)
      BY <3>1
    <3>3. SaysWhatItSaw'
      BY <2>2, <3>1, <3>2, Zenon DEF WeeklyReview, SaysWhatItSaw
    <3>4. buried' \in BOOLEAN /\ (buried' => DrawdownExceeds(trades', 40))
      <4>1. buried' = (buried \/ DrawdownExceeds(trades, 40))
        BY <2>2 DEF WeeklyReview
      <4>2. DrawdownExceeds(trades, 40) \in BOOLEAN
        BY DEF DrawdownExceeds
      <4> QED BY <3>1, <4>1, <4>2 DEF ReviewInv
    <3> QED BY <3>1, <3>3, <3>4 DEF ReviewInv
  <2>3. CASE Adopt
    BY <2>3 DEF Adopt, ReviewInv, SaysWhatItSaw
  <2>4. CASE UNCHANGED reviewvars
    BY <2>4 DEF reviewvars, ReviewInv, SaysWhatItSaw
  <2> QED BY <2>1, <2>2, <2>3, <2>4 DEF ReviewNext
<1> QED BY <1>1, <1>2, PTL DEF ReviewSpec

\* A strategy that a review retired for its drawdown is retired by every later
\* review (evaluate() looks at the deepest fall of all trades): for any trades,
\* windows, limits and backtests.
THEOREM RetiredForGood == ReviewSpec => []DrawdownRetiresForGood
<1>1. ReviewInv => DrawdownRetiresForGood
  <2> SUFFICES ASSUME ReviewInv, buried
               PROVE  Recommendation(status, trades, backtest) = "RETIRED"
    BY DEF DrawdownRetiresForGood
  <2>1. DrawdownExceeds(trades, 40) /\ trades \in Seq(Int)
    BY DEF ReviewInv
  <2>2. trades # <<>>
    BY <2>1 DEF DrawdownExceeds
  <2>3. Retire(trades)
    BY <2>1 DEF Retire
  <2> QED BY <2>2, <2>3 DEF Recommendation
<1> QED BY <1>1, ReviewInvariant, PTL

\* The allocation keeps its caps whatever the scores and the number of
\* strategies, and money goes to a strategy that has traded only if its trades
\* earned it (allocate() after evaluate()).
THEOREM AllocationsSound == ReviewSpec => []AllocationSound
<1>1. ReviewInv => AllocationSound
  <2> SUFFICES ASSUME ReviewInv, review # None PROVE AllocationSound
    BY DEF AllocationSound
  <2> DEFINE e == review.eligible
             w == review.weights
             all == ScoreSum(e)
             s == SubSeq(trades, 1, review.seen)
  <2>1. /\ review.seen \in 0 .. Len(trades)
        /\ review.recommended = Recommendation(review.from, s, backtest)
        /\ e = Eligible(review.recommended)
        /\ w = Allocation(e)
    BY DEF ReviewInv, SaysWhatItSaw
  <2>2. e \in Listed(review.recommended)
    BY <2>1, EligibleListed
  <2>3. e \in Seq(Figures) /\ ((\E i \in DOMAIN e : e[i].name = Reviewed)
                                   => review.recommended \in Trading)
    BY <2>2, ListedMayTrade
  <2>4. WithinCaps
    <3>1. w \in Weights /\ Len(w) = Len(e) /\ SoFar(e, w)
      <4> HIDE DEF e, w
      <4> QED BY <2>1, <2>3, AllocationKeepsCaps
    <3>2. Total(w) <= 90 * all
      <4>1. all = Sum(Scores(e), 1 .. Len(e))
        BY <2>3, ScoreSumIs
      <4> QED BY <3>1, <4>1 DEF SoFar
    <3>3. DOMAIN w = 1 .. Len(w) /\ \A i \in 1 .. Len(w) : w[i] \in Nat
      BY <3>1 DEF Weights
    <3>4. all \in Nat
      BY <2>3, ScoreSumIs
    <3>5. ASSUME NEW i \in DOMAIN w
          PROVE  /\ w[i] \in 0 .. 30 * all
                 /\ Used(e, w, e[i].category) <= 40 * all
      <4> HIDE DEF e, w, all
      <4>1. i \in 1 .. Len(e) /\ i \in 1 .. Len(w)
        BY <3>1, <3>3
      <4>2. e[i].category \in STRING
        <5>1. e[i] \in Figures
          BY <2>3, <4>1
        <5> QED BY <5>1 DEF Figures
      <4>3. w[i] <= 30 * all /\ w[i] \in Nat
        BY <3>1, <3>3, <4>1 DEF SoFar, all
      <4>4. Used(e, w, e[i].category) <= 40 * all
        BY <3>1, <4>2 DEF SoFar, all
      <4>5. w[i] \in 0 .. 30 * all
        BY <3>4, <4>3
      <4> QED BY <4>4, <4>5
    <3> HIDE DEF all
    <3> QED BY <3>2, <3>5 DEF WithinCaps, Used, all
  <2>5. ASSUME review.seen > 0, \E i \in DOMAIN e : e[i].name = Reviewed
        PROVE  Earned(s)
    <3>1. trades \in Seq(Int)
      BY DEF ReviewInv
    <3>2. s \in Seq(Int) /\ Len(s) = review.seen
      <4> DEFINE seen == review.seen
      <4>1. seen \in 0 .. Len(trades)
        BY <2>1
      <4> HIDE DEF seen
      <4>2. SubSeq(trades, 1, seen) \in Seq(Int) /\ Len(SubSeq(trades, 1, seen)) = seen
        BY <3>1, <4>1
      <4> QED BY <4>2 DEF seen
    <3>3. s # <<>>
      <4> HIDE DEF s
      <4>1. Len(s) # 0
        BY <2>5, <3>2
      <4> QED BY <4>1
    <3>4. Recommendation(review.from, s, backtest) \in Trading
      BY <2>1, <2>3, <2>5
    <3> HIDE DEF s
    <3> QED BY <3>2, <3>3, <3>4, TradingIsEarned DEF Earned
  <2> QED BY <2>4, <2>5 DEF AllocationSound
<1> QED BY <1>1, ReviewInvariant, PTL

-----------------------------------------------------------------------------
(* The register of hypotheses. *)

HypothesisRows ==
    [year : Years, number : Nat \ {0}, status : HypothesisStatuses]

\* The rows of a year among the first i, and how many the year has.
OfYear(t, i, y) == {j \in 1 .. i : t[j].year = y}
Count(t, y) == Cardinality(OfYear(t, Len(t), y))

Dense(t) == \A i \in 1 .. Len(t) : t[i].number = Cardinality(OfYear(t, i, t[i].year))

\* Every number of a year up to its count is in the table.
Filled(t) ==
    \A y \in Years : \A k \in 1 .. Count(t, y) :
        \E i \in 1 .. Len(t) : t[i].year = y /\ t[i].number = k

\* A draft holds the number after those its year had when it was begun.  The
\* year may have more by now, so that the number is free only if it is the next.
Drafted(t, rows) ==
    \A r \in Requests :
        \/ rows[r] = <<>>
        \/ \E row \in HypothesisRows :
              rows[r] = <<row>> /\ row.number <= Count(t, row.year) + 1

HypInv ==
    /\ table \in Seq(HypothesisRows)
    /\ year \in Years
    /\ drafts \in [Requests -> Seq(HypothesisRows)]
    /\ Dense(table)
    /\ Filled(table)
    /\ Drafted(table, drafts)

LEMMA OfYearFinite ==
    ASSUME NEW t, NEW i \in Nat, NEW y
    PROVE  /\ IsFiniteSet(OfYear(t, i, y))
           /\ Cardinality(OfYear(t, i, y)) \in Nat
           /\ Cardinality(OfYear(t, i, y)) <= i
<1>1. OfYear(t, i, y) \in SUBSET (1 .. i)
  BY DEF OfYear
<1>2. IsFiniteSet(1 .. i) /\ Cardinality(1 .. i) = i
  BY FS_Interval
<1> HIDE DEF OfYear
<1> QED BY <1>1, <1>2, FS_Subset, FS_CardinalityType

\* The rows of a year among fewer rows are no more.
LEMMA FewerOfYear ==
    ASSUME NEW t, NEW n \in Nat, NEW i \in 1 .. n, NEW y
    PROVE  Cardinality(OfYear(t, i, y)) <= Cardinality(OfYear(t, n, y))
<1>1. OfYear(t, i, y) \in SUBSET OfYear(t, n, y)
  BY DEF OfYear
<1> QED BY <1>1, OfYearFinite, FS_Subset

\* The last number of a year is that of its last row, or 0.
LEMMA LastNumberIs ==
    ASSUME HypInv, NEW y \in Years
    PROVE  LastNumber(y) \in 0 .. Count(table, y)
<1> DEFINE S == {0} \cup {table[i].number : i \in {j \in DOMAIN table : table[j].year = y}}
<1>1. Len(table) \in Nat /\ DOMAIN table = 1 .. Len(table)
  BY DEF HypInv
<1>2. Count(table, y) \in Nat
  BY <1>1, OfYearFinite DEF Count
<1>3. ASSUME NEW i \in DOMAIN table, table[i].year = y
      PROVE  table[i].number \in 0 .. Count(table, y)
  <2>1. i \in 1 .. Len(table)
    BY <1>1
  <2>2. table[i].number = Cardinality(OfYear(table, i, y))
    BY <1>3, <2>1 DEF HypInv, Dense
  <2>3. Cardinality(OfYear(table, i, y)) \in Nat
    BY <2>1, OfYearFinite
  <2>4. Cardinality(OfYear(table, i, y)) <= Count(table, y)
    BY <1>1, <2>1, FewerOfYear DEF Count
  <2> QED BY <1>2, <2>2, <2>3, <2>4
<1>4. S \in SUBSET (0 .. Count(table, y)) /\ 0 \in S
  BY <1>2, <1>3
<1> HIDE DEF S
<1>5. \E m \in S : \A t \in S : t <= m
  <2>1. S \in SUBSET Nat /\ S # {} /\ \A t \in S : t <= Count(table, y)
    BY <1>2, <1>4
  <2> QED BY <1>2, <2>1, GreatestElement
<1>6. Max(S) \in S
  BY <1>5 DEF Max
<1> QED BY <1>4, <1>6 DEF LastNumber, S

\* What one more row changes for a year.
Grows(t, row, u, y) ==
    /\ Len(u) = Len(t) + 1 /\ u \in Seq(HypothesisRows)
    /\ u[Len(u)] = row
    /\ \A i \in 1 .. Len(t) : u[i] = t[i] /\ OfYear(u, i, y) = OfYear(t, i, y)
    /\ Count(u, y) = IF row.year = y THEN Count(t, y) + 1 ELSE Count(t, y)

LEMMA RowAdded ==
    ASSUME NEW t \in Seq(HypothesisRows), NEW row \in HypothesisRows,
           NEW u, u = Append(t, row), NEW y
    PROVE  Grows(t, row, u, y)
<1>1. /\ Len(t) \in Nat
      /\ Len(u) = Len(t) + 1 /\ u \in Seq(HypothesisRows)
      /\ u[Len(t) + 1] = row
      /\ \A i \in 1 .. Len(t) : u[i] = t[i]
  OBVIOUS
<1>2. ASSUME NEW i \in 1 .. Len(t) PROVE OfYear(u, i, y) = OfYear(t, i, y)
  <2>1. \A j \in 1 .. i : u[j] = t[j]
    BY <1>1
  <2> QED BY <2>1 DEF OfYear
<1>3. OfYear(u, Len(t) + 1, y) =
          IF row.year = y THEN OfYear(t, Len(t), y) \cup {Len(t) + 1}
          ELSE OfYear(t, Len(t), y)
  <2>1. \A j \in 1 .. Len(t) + 1 : j \in 1 .. Len(t) \/ j = Len(t) + 1
    BY <1>1
  <2>2. \A j : j \in OfYear(u, Len(t) + 1, y) <=>
                  j \in OfYear(t, Len(t), y) \/ (j = Len(t) + 1 /\ row.year = y)
    BY <1>1, <2>1 DEF OfYear
  <2> QED BY <2>2
<1>4. Len(t) + 1 \notin OfYear(t, Len(t), y)
  BY <1>1 DEF OfYear
<1>5. /\ IsFiniteSet(OfYear(t, Len(t), y))
      /\ Cardinality(OfYear(t, Len(t), y)) \in Nat
  BY <1>1, OfYearFinite
<1>6. Cardinality(OfYear(t, Len(t), y) \cup {Len(t) + 1})
          = Cardinality(OfYear(t, Len(t), y)) + 1
  BY <1>4, <1>5, FS_AddElement
<1>7. Count(u, y) = IF row.year = y THEN Count(t, y) + 1 ELSE Count(t, y)
  BY <1>1, <1>3, <1>6, Zenon DEF Count
<1> QED BY <1>1, <1>2, <1>7 DEF Grows

\* A new row that takes the next number of its year.
LEMMA NextKeeps ==
    ASSUME NEW t \in Seq(HypothesisRows), Dense(t), Filled(t),
           NEW row \in HypothesisRows, row.number = Count(t, row.year) + 1,
           NEW u, u = Append(t, row)
    PROVE  /\ Dense(u) /\ Filled(u) /\ u \in Seq(HypothesisRows)
           /\ \A y \in Years : Count(t, y) \in Nat /\ Count(t, y) <= Count(u, y)
<1>1. Len(t) \in Nat
  OBVIOUS
<1>2. \A y : Grows(t, row, u, y)
  BY RowAdded, Zenon
<1>3. \A y : Count(t, y) \in Nat
  BY <1>1, OfYearFinite DEF Count
<1>4. Dense(u)
  <2> SUFFICES ASSUME NEW i \in 1 .. Len(u)
               PROVE  u[i].number = Cardinality(OfYear(u, i, u[i].year))
    BY DEF Dense
  <2>1. CASE i = Len(u)
    <3>1. u[i] = row /\ Cardinality(OfYear(u, i, row.year)) = Count(u, row.year)
      BY <1>2, <2>1 DEF Grows, Count
    <3> QED BY <1>2, <3>1 DEF Grows
  <2>2. CASE i # Len(u)
    <3>1. i \in 1 .. Len(t)
      BY <1>1, <1>2, <2>2 DEF Grows
    <3>2. u[i] = t[i] /\ OfYear(u, i, t[i].year) = OfYear(t, i, t[i].year)
      BY <1>2, <3>1 DEF Grows
    <3> QED BY <3>1, <3>2 DEF Dense
  <2> QED BY <2>1, <2>2
<1>5. Filled(u)
  <2> SUFFICES ASSUME NEW y \in Years, NEW k \in 1 .. Count(u, y)
               PROVE  \E i \in 1 .. Len(u) : u[i].year = y /\ u[i].number = k
    BY DEF Filled
  <2>1. CASE k \in 1 .. Count(t, y)
    <3>1. PICK i \in 1 .. Len(t) : t[i].year = y /\ t[i].number = k
      BY <2>1 DEF Filled
    <3>2. u[i] = t[i] /\ i \in 1 .. Len(u)
      BY <1>1, <1>2, <3>1 DEF Grows
    <3> QED BY <3>1, <3>2
  <2>2. CASE k \notin 1 .. Count(t, y)
    <3>1. row.year = y /\ k = Count(t, y) + 1
      BY <1>2, <1>3, <2>2 DEF Grows
    <3>2. Len(u) \in 1 .. Len(u) /\ u[Len(u)] = row
      BY <1>1, <1>2 DEF Grows
    <3> QED BY <3>1, <3>2
  <2> QED BY <2>1, <2>2
<1>6. \A y \in Years : Count(t, y) <= Count(u, y)
  BY <1>2, <1>3 DEF Grows
<1>7. u \in Seq(HypothesisRows)
  BY <1>2 DEF Grows
<1> QED BY <1>3, <1>4, <1>5, <1>6, <1>7

\* Only years and numbers matter.
LEMMA StatusIsNothing ==
    ASSUME NEW t, NEW u, Len(u) = Len(t), Len(t) \in Nat,
           \A i \in 1 .. Len(t) : u[i].year = t[i].year /\ u[i].number = t[i].number
    PROVE  /\ Dense(t) => Dense(u)
           /\ Filled(t) => Filled(u)
           /\ \A y : Count(u, y) = Count(t, y)
<1>1. ASSUME NEW i \in 0 .. Len(t), NEW y PROVE OfYear(u, i, y) = OfYear(t, i, y)
  <2>1. \A j \in 1 .. i : u[j].year = t[j].year
    OBVIOUS
  <2> QED BY <2>1 DEF OfYear
<1>2. ASSUME NEW y PROVE Count(u, y) = Count(t, y)
  BY <1>1 DEF Count
<1>3. Dense(t) => Dense(u)
  BY <1>1 DEF Dense
<1>4. Filled(t) => Filled(u)
  BY <1>2 DEF Filled
<1> QED BY <1>2, <1>3, <1>4

LEMMA HypInit == HypothesisInit => HypInv
<1> SUFFICES ASSUME HypothesisInit PROVE HypInv
  OBVIOUS
<1>1. Min(Years) \in Years
  <2>1. \E x \in Years : \A y \in Years : x <= y
    BY HypothesisAssumption, LeastElement
  <2> QED BY <2>1 DEF Min
<1>2. table = <<>> /\ Len(table) = 0
  BY DEF HypothesisInit
<1>3. Dense(table)
  BY <1>2 DEF Dense
<1>4. Filled(table)
  <2>1. \A y : Count(table, y) = 0
    <3>1. \A y : OfYear(table, 0, y) = {}
      BY DEF OfYear
    <3> QED BY <1>2, <3>1, FS_EmptySet DEF Count
  <2> QED BY <2>1 DEF Filled
<1>5. drafts \in [Requests -> Seq(HypothesisRows)] /\ Drafted(table, drafts)
  BY DEF HypothesisInit, Drafted
<1> QED BY <1>1, <1>2, <1>3, <1>4, <1>5 DEF HypInv, HypothesisInit

LEMMA BeginKeeps ==
    ASSUME HypInv, NEW r \in Requests, BeginHypothesis(r)
    PROVE  HypInv'
<1> DEFINE row == [year |-> year, number |-> LastNumber(year) + 1, status |-> "PROPOSED"]
<1>1. LastNumber(year) \in Nat /\ LastNumber(year) <= Count(table, year)
  <2>1. Len(table) \in Nat /\ year \in Years
    BY DEF HypInv
  <2>2. Count(table, year) \in Nat
    BY <2>1, OfYearFinite DEF Count
  <2> QED BY <2>1, <2>2, LastNumberIs
<1>2. row \in HypothesisRows /\ row.number <= Count(table, row.year) + 1
  <2>1. Count(table, year) \in Nat
    <3>1. Len(table) \in Nat
      BY DEF HypInv
    <3> QED BY <3>1, OfYearFinite DEF Count
  <2> QED BY <1>1, <2>1 DEF HypInv, HypothesisRows, HypothesisStatuses
<1>3. drafts' = [drafts EXCEPT ![r] = <<row>>] /\ UNCHANGED <<table, year>>
  BY DEF BeginHypothesis
<1> HIDE DEF row
<1>4. drafts' \in [Requests -> Seq(HypothesisRows)]
  BY <1>2, <1>3 DEF HypInv
<1>5. Drafted(table, drafts')
  BY <1>2, <1>3 DEF HypInv, Drafted
<1> QED BY <1>3, <1>4, <1>5 DEF HypInv

LEMMA InsertKeeps ==
    ASSUME HypInv, NEW r \in Requests, InsertHypothesis(r)
    PROVE  HypInv'
<1>1. /\ drafts[r] # <<>>
      /\ table' = IF Taken(drafts[r][1]) THEN table ELSE table \o drafts[r]
      /\ drafts' = [drafts EXCEPT ![r] = <<>>]
      /\ year' = year
  BY DEF InsertHypothesis
<1>2. drafts' \in [Requests -> Seq(HypothesisRows)]
  BY <1>1 DEF HypInv
<1>3. CASE Taken(drafts[r][1])
  <2>1. Drafted(table, drafts')
    BY <1>1 DEF HypInv, Drafted
  <2> QED BY <1>1, <1>2, <1>3, <2>1 DEF HypInv
<1>4. CASE ~ Taken(drafts[r][1])
  <2>1. PICK row \in HypothesisRows :
            drafts[r] = <<row>> /\ row.number <= Count(table, row.year) + 1
    BY <1>1 DEF HypInv, Drafted
  <2>2. table' = Append(table, row) /\ table \in Seq(HypothesisRows)
    <3>1. table \o <<row>> = Append(table, row) /\ table \in Seq(HypothesisRows)
      BY DEF HypInv
    <3>2. drafts[r][1] = row
      BY <2>1
    <3> QED BY <1>1, <1>4, <2>1, <3>1, <3>2
  <2>3. Count(table, row.year) \in Nat /\ Len(table) \in Nat
    <3>1. Len(table) \in Nat
      BY <2>2
    <3> QED BY <3>1, OfYearFinite DEF Count
  <2>4. row.number = Count(table, row.year) + 1
    <3>1. ~ (row.number \in 1 .. Count(table, row.year))
      <4> SUFFICES ASSUME row.number \in 1 .. Count(table, row.year) PROVE FALSE
        OBVIOUS
      <4>1. row.year \in Years
        BY <2>1 DEF HypothesisRows
      <4>2. PICK i \in 1 .. Len(table) :
                table[i].year = row.year /\ table[i].number = row.number
        BY <4>1 DEF HypInv, Filled
      <4>3. drafts[r][1] = row /\ i \in DOMAIN table
        BY <2>1, <2>2, <4>2
      <4> QED BY <1>4, <4>2, <4>3 DEF Taken
    <3>2. row.number \in Nat \ {0}
      BY <2>1 DEF HypothesisRows
    <3> QED BY <2>1, <2>3, <3>1, <3>2
  <2>5. PICK u : u = table'
    OBVIOUS
  <2>6. /\ Dense(u) /\ Filled(u) /\ u \in Seq(HypothesisRows)
        /\ \A y \in Years : Count(table, y) \in Nat /\ Count(table, y) <= Count(u, y)
    <3>1. Dense(table) /\ Filled(table)
      BY DEF HypInv
    <3>2. u = Append(table, row)
      BY <2>2, <2>5
    <3> QED BY <2>1, <2>2, <2>4, <3>1, <3>2, NextKeeps
  <2>7. Drafted(u, drafts')
    <3> SUFFICES ASSUME NEW q \in Requests, drafts'[q] # <<>>
                 PROVE  \E w \in HypothesisRows :
                            drafts'[q] = <<w>> /\ w.number <= Count(u, w.year) + 1
      BY DEF Drafted
    <3>1. drafts'[q] = drafts[q]
      BY <1>1 DEF HypInv
    <3>2. PICK w \in HypothesisRows :
              drafts[q] = <<w>> /\ w.number <= Count(table, w.year) + 1
      BY <3>1 DEF HypInv, Drafted
    <3>3. w.year \in Years /\ w.number \in Nat
      BY <3>2 DEF HypothesisRows
    <3>4. Count(u, w.year) \in Nat
      <4>1. Len(u) \in Nat
        BY <2>6
      <4> QED BY <4>1, OfYearFinite DEF Count
    <3>5. w.number <= Count(u, w.year) + 1
      BY <2>6, <3>2, <3>3, <3>4
    <3> QED BY <3>1, <3>2, <3>5
  <2> QED BY <1>1, <1>2, <2>5, <2>6, <2>7 DEF HypInv
<1> QED BY <1>3, <1>4

LEMMA StatusKeeps ==
    ASSUME HypInv, NEW i \in DOMAIN table, NEW st \in HypothesisStatuses,
           UpdateStatus(i, st)
    PROVE  HypInv'
<1>1. PICK u : u = [table EXCEPT ![i].status = st]
  OBVIOUS
<1>2. table' = u /\ UNCHANGED <<year, drafts>>
  BY <1>1 DEF UpdateStatus
<1>3. table \in Seq(HypothesisRows) /\ i \in 1 .. Len(table) /\ Len(table) \in Nat
  BY DEF HypInv
<1>4. [table[i] EXCEPT !.status = st] \in HypothesisRows
  <2>1. table[i] \in HypothesisRows
    BY <1>3
  <2> QED BY <2>1 DEF HypothesisRows
<1>5. /\ u \in Seq(HypothesisRows) /\ Len(u) = Len(table)
      /\ \A j \in 1 .. Len(table) :
            u[j] = IF j = i THEN [table[i] EXCEPT !.status = st] ELSE table[j]
  BY <1>1, <1>3, <1>4
<1>6. \A j \in 1 .. Len(table) : u[j].year = table[j].year /\ u[j].number = table[j].number
  <2>1. table[i] \in HypothesisRows
    BY <1>3
  <2> QED BY <1>5, <2>1 DEF HypothesisRows
<1>7. /\ Dense(u) /\ Filled(u)
      /\ \A y : Count(u, y) = Count(table, y)
  <2>1. Dense(table) /\ Filled(table)
    BY DEF HypInv
  <2> QED BY <1>3, <1>5, <1>6, <2>1, StatusIsNothing
<1>8. Drafted(u, drafts)
  BY <1>7 DEF HypInv, Drafted
<1> QED BY <1>2, <1>5, <1>7, <1>8 DEF HypInv

\* The inductive invariant: what the numbers read long ago are still worth.
THEOREM HypothesisInvariant == HypothesisSpec => []HypInv
<1>1. HypInv /\ [HypothesisNext]_hypvars => HypInv'
  <2> SUFFICES ASSUME HypInv, [HypothesisNext]_hypvars PROVE HypInv'
    OBVIOUS
  <2>1. CASE NewYear
    BY <2>1 DEF HypInv, NewYear
  <2>2. ASSUME NEW r \in Requests, BeginHypothesis(r) PROVE HypInv'
    BY <2>2, BeginKeeps
  <2>3. ASSUME NEW r \in Requests, InsertHypothesis(r) PROVE HypInv'
    BY <2>3, InsertKeeps
  <2>4. ASSUME NEW r \in Requests, LoseHypothesis(r) PROVE HypInv'
    BY <2>4 DEF HypInv, LoseHypothesis, Drafted
  <2>5. ASSUME NEW i \in DOMAIN table, NEW st \in HypothesisStatuses,
               UpdateStatus(i, st)
        PROVE  HypInv'
    BY <2>5, StatusKeeps
  <2>6. CASE UNCHANGED hypvars
    BY <2>6 DEF HypInv, hypvars
  <2> QED BY <2>1, <2>2, <2>3, <2>4, <2>5, <2>6 DEF HypothesisNext
<1> QED BY <1>1, HypInit, PTL DEF HypothesisSpec

\* However the requests interleave, fail or span the turn of a year, the numbers
\* of each year are 1, 2, 3 in the order of their commits.
THEOREM NumbersStayDense == HypothesisSpec => []NumbersAreDense
<1>1. HypInv => NumbersAreDense
  <2> SUFFICES ASSUME HypInv PROVE NumbersAreDense
    OBVIOUS
  <2>1. DOMAIN table = 1 .. Len(table)
    BY DEF HypInv
  <2> QED BY <2>1 DEF HypInv, Dense, OfYear, NumbersAreDense
<1> QED BY <1>1, HypothesisInvariant, PTL

-----------------------------------------------------------------------------
(* The promotion pipeline. *)

Results == [stage : Stages, passed : BOOLEAN]

\* Full validation is always at the stage it is about to call.
Typing ==
    /\ stage \in Stages
    /\ results \in Seq(Results)
    /\ overfit \in Verdicts \cup {"none"}
    /\ auto \in {"idle", "backtest", "out_of_sample", "walk_forward",
                 "monte_carlo", "overfitting"}
    /\ auto = "backtest" => results = <<>> /\ stage = RESEARCH
    /\ auto = "out_of_sample" => stage = OUT_OF_SAMPLE
    /\ auto = "walk_forward" => stage = WALK_FORWARD
    /\ auto = "monte_carlo" => stage = MONTE_CARLO

\* Every gate run is one between BACKTEST and SHADOW.
GatesRun == \A i \in 1 .. Len(results) : results[i].stage \in BACKTEST .. SHADOW

VPInv == Typing /\ GateTrail /\ GatesRun

\* The stages are numbers.
USE DEF RESEARCH, HYPOTHESIS, BACKTEST, OUT_OF_SAMPLE, WALK_FORWARD, MONTE_CARLO,
        PAPER, SHADOW, RISK_REVIEW, APPROVAL, LIVE, Stages
-----------------------------------------------------------------------------
\* The result of a gate run where the trail has led continues the trail.
LEMMA EvaluateKeeps ==
    ASSUME VPInv, NEW gate \in BACKTEST .. SHADOW, NEW passed \in BOOLEAN,
           Evaluate(gate, passed),
           results = <<>> => gate = BACKTEST,
           results # <<>> => stage = gate
    PROVE  /\ GateTrail' /\ GatesRun'
           /\ results' \in Seq(Results)
           /\ stage' \in Stages /\ stage' \in {gate, gate + 1}
           /\ stage' = After(GateResult(gate, passed))
           /\ results' = Append(results, GateResult(gate, passed))
<1> DEFINE r == GateResult(gate, passed)
<1>1. gate \in Int /\ 3 <= gate /\ gate <= 8 /\ gate \in Stages
  OBVIOUS
<1>2. r \in Results /\ r.stage = gate
  BY <1>1 DEF GateResult, Results
<1>3. After(r) \in {gate, gate + 1} /\ After(r) \in Stages
  BY <1>1, <1>2 DEF After
<1>4. results \in Seq(Results) /\ results' = Append(results, r)
  BY DEF VPInv, Typing, Evaluate
<1> HIDE DEF r
<1>5. /\ results' \in Seq(Results) /\ Len(results') = Len(results) + 1
      /\ Len(results) \in Nat /\ results' # <<>>
      /\ results'[Len(results')] = r
      /\ \A i \in 1 .. Len(results) : results'[i] = results[i]
  BY <1>2, <1>4
<1>6. stage' = After(r)
  <2>1. CanAdvance(results', gate) <=> r.passed
    BY <1>2, <1>5 DEF CanAdvance
  <2>2. gate < LIVE
    BY <1>1
  <2> QED BY <1>2, <2>1, <2>2 DEF Evaluate, After
<1>7. \A i \in 1 .. Len(results') : i # Len(results') => i \in 1 .. Len(results)
  BY <1>5
<1>8. GatesRun'
  BY <1>2, <1>5, <1>7 DEF VPInv, GatesRun
<1>9. results'[1].stage = BACKTEST
  <2>1. CASE results = <<>>
    BY <1>2, <1>5, <2>1
  <2>2. CASE results # <<>>
    <3>1. 1 \in 1 .. Len(results)
      BY <1>4, <1>5, <2>2
    <3> QED BY <1>5, <2>2, <3>1 DEF VPInv, GateTrail
  <2> QED BY <2>1, <2>2
<1>10. ASSUME NEW i \in 1 .. Len(results') - 1
       PROVE  results'[i + 1].stage = After(results'[i])
  <2>1. i \in 1 .. Len(results) /\ results # <<>> /\ results'[i] = results[i]
    BY <1>4, <1>5
  <2>2. CASE i = Len(results)
    <3>1. results'[i + 1] = r
      BY <1>5, <2>2
    <3> QED BY <1>2, <2>1, <2>2, <3>1 DEF VPInv, GateTrail
  <2>3. CASE i # Len(results)
    <3>1. i \in 1 .. Len(results) - 1 /\ i + 1 \in 1 .. Len(results)
      BY <1>5, <2>1, <2>3
    <3> QED BY <1>5, <2>1, <3>1 DEF VPInv, GateTrail
  <2> QED BY <2>2, <2>3
<1>11. GateTrail'
  BY <1>5, <1>6, <1>9, <1>10 DEF GateTrail, After
<1>12. r = GateResult(gate, passed)
  BY DEF r
<1> QED BY <1>3, <1>4, <1>5, <1>6, <1>8, <1>11, <1>12

\* Once a gate has been run the strategy is never below BACKTEST again.
LEMMA NeverBelowBacktest ==
    ASSUME VPInv, results # <<>>
    PROVE  stage >= BACKTEST
<1>1. results \in Seq(Results)
  BY DEF VPInv, Typing
<1>2. Len(results) \in 1 .. Len(results)
  BY <1>1
<1>3. results[Len(results)].stage \in BACKTEST .. SHADOW
  BY <1>2 DEF VPInv, GatesRun
<1> QED BY <1>3 DEF VPInv, GateTrail, After

\* What a step of run_full_validation keeps of the type invariant.
LEMMA FullGateKeeps ==
    ASSUME VPInv, NEW call, NEW next, NEW gate \in BACKTEST .. WALK_FORWARD,
           NEW passed \in BOOLEAN,
           \/ call = "backtest" /\ gate = BACKTEST /\ next = "out_of_sample"
           \/ call = "out_of_sample" /\ gate = OUT_OF_SAMPLE /\ next = "walk_forward"
           \/ call = "walk_forward" /\ gate = WALK_FORWARD /\ next = "monte_carlo",
           FullValidationGate(call, gate, passed, next)
    PROVE  VPInv'
<1>1. /\ gate \in BACKTEST .. SHADOW
      /\ results = <<>> => gate = BACKTEST
      /\ results # <<>> => stage = gate
  <2>1. gate \in BACKTEST .. SHADOW
    OBVIOUS
  <2>2. CASE call = "backtest"
    <3>1. gate = BACKTEST /\ results = <<>>
      BY <2>2 DEF VPInv, Typing, FullValidationGate
    <3> QED BY <2>1, <3>1
  <2>3. CASE call = "out_of_sample"
    <3>1. gate = OUT_OF_SAMPLE /\ stage = gate
      BY <2>3 DEF VPInv, Typing, FullValidationGate
    <3>2. results # <<>>
      BY <3>1 DEF VPInv, GateTrail
    <3> QED BY <2>1, <3>1, <3>2
  <2>4. CASE call = "walk_forward"
    <3>1. gate = WALK_FORWARD /\ stage = gate
      BY <2>4 DEF VPInv, Typing, FullValidationGate
    <3>2. results # <<>>
      BY <3>1 DEF VPInv, GateTrail
    <3> QED BY <2>1, <3>1, <3>2
  <2> QED BY <2>2, <2>3, <2>4
<1>2. /\ GateTrail' /\ GatesRun'
      /\ results' \in Seq(Results)
      /\ stage' \in Stages /\ stage' \in {gate, gate + 1}
  BY <1>1, EvaluateKeeps DEF FullValidationGate
<1>3. overfit' = overfit /\ auto' = IF stage' = gate THEN "idle" ELSE next
  BY DEF FullValidationGate
<1>4. Typing'
  <2>1. CASE stage' = gate
    BY <1>2, <1>3, <2>1 DEF VPInv, Typing
  <2>2. CASE stage' = gate + 1 /\ stage' # gate
    <3>1. auto' = next
      BY <1>3, <2>2
    <3>2. CASE next = "out_of_sample"
      BY <1>2, <1>3, <2>2, <3>1, <3>2 DEF VPInv, Typing
    <3>3. CASE next = "walk_forward"
      BY <1>2, <1>3, <2>2, <3>1, <3>3 DEF VPInv, Typing
    <3>4. CASE next = "monte_carlo"
      BY <1>2, <1>3, <2>2, <3>1, <3>4 DEF VPInv, Typing
    <3> QED BY <3>2, <3>3, <3>4
  <2>3. stage' # gate => stage' = gate + 1
    BY <1>2
  <2> QED BY <2>1, <2>2, <2>3
<1> QED BY <1>2, <1>4 DEF VPInv

\* A gate run outside run_full_validation, where the trail has led.
LEMMA GateKeeps ==
    ASSUME VPInv, auto = "idle", NEW gate \in BACKTEST .. SHADOW,
           NEW passed \in BOOLEAN, Evaluate(gate, passed),
           results = <<>> => gate = BACKTEST,
           results # <<>> => stage = gate,
           UNCHANGED <<overfit, auto>>
    PROVE  VPInv'
<1>1. /\ GateTrail' /\ GatesRun'
      /\ results' \in Seq(Results)
      /\ stage' \in Stages
  BY EvaluateKeeps
<1> QED BY <1>1 DEF VPInv, Typing

\* A step that runs no gate.
LEMMA OthersKeep ==
    ASSUME VPInv, NEW verdict \in Verdicts,
           \/ Create \/ BacktestRaises \/ BeginFullValidation \/ SkipMonteCarlo
           \/ FullValidationRaises
           \/ RunOverfittingCheck(verdict) \/ EndFullValidation(verdict)
    PROVE  VPInv'
<1>1. CASE Create \/ BeginFullValidation
  <2>1. stage' = RESEARCH /\ results' = <<>> /\ overfit' = "none"
        /\ auto' \in {"idle", "backtest"}
    BY <1>1 DEF Create, BeginFullValidation, VPInv, Typing
  <2>2. Typing'
    <3>1. stage' \in Stages
      BY <2>1
    <3> QED BY <2>1, <3>1 DEF Typing
  <2> QED BY <2>1, <2>2 DEF VPInv, GateTrail, GatesRun
<1>2. CASE BacktestRaises \/ FullValidationRaises
  <2>1. /\ stage' \in Stages /\ stage' \in {stage, BACKTEST}
        /\ auto' = "idle" /\ UNCHANGED <<results, overfit>>
    <3>1. BACKTEST \in Stages /\ stage \in Stages
      BY DEF VPInv, Typing
    <3>2. CASE BacktestRaises
      BY <3>1, <3>2 DEF BacktestRaises
    <3>3. CASE FullValidationRaises
      BY <3>1, <3>3 DEF FullValidationRaises
    <3> QED BY <1>2, <3>2, <3>3
  <2>2. Typing'
    BY <2>1 DEF VPInv, Typing
  <2>3. results # <<>> => stage' = stage
    <3>1. CASE BacktestRaises
      BY <3>1, NeverBelowBacktest DEF BacktestRaises
    <3>2. CASE FullValidationRaises
      BY <3>2 DEF FullValidationRaises, VPInv, Typing
    <3> QED BY <1>2, <3>1, <3>2
  <2>4. GateTrail'
    BY <2>1, <2>3 DEF VPInv, GateTrail
  <2> QED BY <2>1, <2>2, <2>4 DEF VPInv, GatesRun
<1>3. CASE SkipMonteCarlo \/ RunOverfittingCheck(verdict) \/ EndFullValidation(verdict)
  <2>1. UNCHANGED <<stage, results>>
    BY <1>3 DEF SkipMonteCarlo, RunOverfittingCheck, EndFullValidation
  <2>2. Typing'
    BY <1>3, <2>1 DEF VPInv, Typing, SkipMonteCarlo, RunOverfittingCheck, EndFullValidation
  <2>3. GateTrail'
    BY <2>1 DEF VPInv, GateTrail
  <2> QED BY <2>1, <2>2, <2>3 DEF VPInv, GatesRun
<1> QED BY <1>1, <1>2, <1>3

THEOREM PipelineInvariant == VPSpec => []VPInv
<1>1. VPInit => VPInv
  <2> SUFFICES ASSUME VPInit PROVE VPInv
    OBVIOUS
  <2>1. stage = RESEARCH /\ results = <<>> /\ overfit = "none" /\ auto = "idle"
    BY DEF VPInit
  <2> QED BY <2>1 DEF VPInv, Typing, GateTrail, GatesRun
<1>2. VPInv /\ [VPNext]_vpvars => VPInv'
  <2> SUFFICES ASSUME VPInv, [VPNext]_vpvars PROVE VPInv'
    OBVIOUS
  <2>1. "overfit" \in Verdicts
    BY DEF Verdicts
  <2>2. CASE Create \/ BacktestRaises \/ BeginFullValidation \/ SkipMonteCarlo
             \/ FullValidationRaises
    BY <2>1, <2>2, OthersKeep
  <2>3. ASSUME NEW passed \in BOOLEAN, RunBacktestGate(passed) PROVE VPInv'
    <3>1. stage \in {RESEARCH, HYPOTHESIS, BACKTEST} /\ auto = "idle"
          /\ Evaluate(BACKTEST, passed) /\ UNCHANGED <<overfit, auto>>
      BY <2>3 DEF RunBacktestGate
    <3>2. results # <<>> => stage = BACKTEST
      BY <3>1, NeverBelowBacktest
    <3>3. BACKTEST \in BACKTEST .. SHADOW
      OBVIOUS
    <3> QED BY <3>1, <3>2, <3>3, GateKeeps
  <2>4. ASSUME NEW passed \in BOOLEAN, NEW gate \in Stages, RunGate(gate, passed)
        PROVE  VPInv'
    <3>1. stage = gate /\ gate \in OUT_OF_SAMPLE .. SHADOW /\ auto = "idle"
          /\ Evaluate(gate, passed) /\ UNCHANGED <<overfit, auto>>
      BY <2>4 DEF RunGate
    <3>2. gate \in BACKTEST .. SHADOW /\ results # <<>>
      BY <3>1 DEF VPInv, GateTrail
    <3> QED BY <3>1, <3>2, GateKeeps
  <2>5. ASSUME NEW passed \in BOOLEAN,
               \/ FullValidationGate("backtest", BACKTEST, passed, "out_of_sample")
               \/ FullValidationGate("out_of_sample", OUT_OF_SAMPLE, passed, "walk_forward")
               \/ FullValidationGate("walk_forward", WALK_FORWARD, passed, "monte_carlo")
        PROVE  VPInv'
    <3>1. {BACKTEST, OUT_OF_SAMPLE, WALK_FORWARD} \subseteq BACKTEST .. WALK_FORWARD
      OBVIOUS
    <3>2. CASE FullValidationGate("backtest", BACKTEST, passed, "out_of_sample")
      BY <3>1, <3>2, FullGateKeeps
    <3>3. CASE FullValidationGate("out_of_sample", OUT_OF_SAMPLE, passed, "walk_forward")
      BY <3>1, <3>3, FullGateKeeps
    <3>4. CASE FullValidationGate("walk_forward", WALK_FORWARD, passed, "monte_carlo")
      BY <3>1, <3>4, FullGateKeeps
    <3> QED BY <2>5, <3>2, <3>3, <3>4
  <2>6. ASSUME NEW passed \in BOOLEAN, FullMonteCarlo(passed) PROVE VPInv'
    <3>1. stage = MONTE_CARLO /\ results # <<>> /\ MONTE_CARLO \in BACKTEST .. SHADOW
      <4>1. stage = MONTE_CARLO
        BY <2>6 DEF FullMonteCarlo, VPInv, Typing
      <4>2. results # <<>>
        BY <4>1 DEF VPInv, GateTrail
      <4> QED BY <4>1, <4>2
    <3>2. /\ GateTrail' /\ GatesRun'
          /\ results' \in Seq(Results)
          /\ stage' \in Stages
      BY <2>6, <3>1, EvaluateKeeps DEF FullMonteCarlo
    <3>3. Typing'
      BY <2>6, <3>2 DEF FullMonteCarlo, VPInv, Typing
    <3> QED BY <3>2, <3>3 DEF VPInv
  <2>7. ASSUME NEW verdict \in Verdicts,
               RunOverfittingCheck(verdict) \/ EndFullValidation(verdict)
        PROVE  VPInv'
    BY <2>7, OthersKeep
  <2>8. CASE UNCHANGED vpvars
    BY <2>8 DEF vpvars, VPInv, Typing, GateTrail, GatesRun
  <2> QED BY <2>2, <2>3, <2>4, <2>5, <2>6, <2>7, <2>8 DEF VPNext
<1> QED BY <1>1, <1>2, PTL DEF VPSpec

\* However gates, retries, exceptions and full validations are mixed, the
\* results recorded for a strategy account for the stage it is at: no gate is
\* missing, passed twice, or counted at another stage.
THEOREM StageIsEarned == VPSpec => []GateTrail
BY PipelineInvariant, PTL DEF VPInv
-----------------------------------------------------------------------------
(* The ladder. *)

\* The rungs earned by a trail of results.
StepsOf(trail) ==
    {trail[i].stage - 2 : i \in {j \in 1 .. Len(trail) : trail[j].passed}}

LEMMA EarnedAppended ==
    ASSUME NEW trail \in Seq(Results), NEW r \in Results
    PROVE  /\ r.passed => StepsOf(Append(trail, r)) = StepsOf(trail) \cup {r.stage - 2}
           /\ ~r.passed => StepsOf(Append(trail, r)) = StepsOf(trail)
<1> DEFINE longer == Append(trail, r)
<1>1. /\ Len(longer) = Len(trail) + 1 /\ longer[Len(trail) + 1] = r
      /\ \A i \in 1 .. Len(trail) : longer[i] = trail[i]
      /\ Len(trail) \in Nat
  OBVIOUS
<1> HIDE DEF longer
<1>2. StepsOf(trail) \subseteq StepsOf(longer)
  BY <1>1 DEF StepsOf
<1>3. StepsOf(longer) \subseteq StepsOf(trail) \cup {r.stage - 2}
  BY <1>1 DEF StepsOf
<1>4. r.passed => r.stage - 2 \in StepsOf(longer)
  BY <1>1 DEF StepsOf
<1>5. ~r.passed => StepsOf(longer) \subseteq StepsOf(trail)
  BY <1>1 DEF StepsOf
<1> QED BY <1>2, <1>3, <1>4, <1>5 DEF longer

\* A gate that is passed earns its rung and climbs, one that fails does neither.
LEMMA EvaluateClimbs ==
    ASSUME VPInv, NEW gate \in BACKTEST .. SHADOW, NEW passed \in BOOLEAN,
           Evaluate(gate, passed),
           results = <<>> => gate = BACKTEST /\ stage <= BACKTEST,
           results # <<>> => stage = gate
    PROVE  Ladder!Climb \/ UNCHANGED Ladder!ladder
<1> DEFINE r == GateResult(gate, passed)
<1>1. /\ stage' = After(r) /\ results' = Append(results, r)
      /\ results \in Seq(Results) /\ stage \in Stages
  BY EvaluateKeeps DEF VPInv, Typing
<1>2. r \in Results /\ r.stage = gate
  BY DEF GateResult, Results
<1> HIDE DEF r
<1>3. /\ r.passed => StepsOf(results') = StepsOf(results) \cup {gate - 2}
      /\ ~r.passed => StepsOf(results') = StepsOf(results)
  BY <1>1, <1>2, EarnedAppended
<1>4. (IF stage < BACKTEST THEN 1 ELSE stage - 2) = gate - 2
  BY <1>1
<1>5. stage' = IF r.passed THEN gate + 1 ELSE gate
  BY <1>1, <1>2 DEF After
<1>6. CASE r.passed
  <2>1. (IF stage' < BACKTEST THEN 1 ELSE stage' - 2)
        = (IF stage < BACKTEST THEN 1 ELSE stage - 2) + 1
    BY <1>4, <1>5, <1>6
  <2>2. (IF stage < BACKTEST THEN 1 ELSE stage - 2) < RISK_REVIEW - 2
    BY <1>4
  <2>3. StepsOf(results') = StepsOf(results)
                           \cup {IF stage < BACKTEST THEN 1 ELSE stage - 2}
    BY <1>3, <1>4, <1>6
  <2>4. Ladder!Climb
    BY <2>1, <2>2, <2>3 DEF Ladder!Climb, StepsOf
  <2> QED BY <2>4
<1>7. CASE ~r.passed
  <2>1. (IF stage' < BACKTEST THEN 1 ELSE stage' - 2) = gate - 2
    BY <1>5, <1>7
  <2> QED BY <1>3, <1>4, <1>7, <2>1 DEF Ladder!ladder, StepsOf
<1> QED BY <1>6, <1>7

LEMMA StepsClimb ==
    ASSUME VPInv, [VPNext]_vpvars
    PROVE  [Ladder!PLNext]_Ladder!ladder
<1>1. CASE Create \/ BeginFullValidation
  <2>1. stage' = RESEARCH /\ results' = <<>>
    BY <1>1 DEF Create, BeginFullValidation
  <2> QED BY <2>1 DEF Ladder!PLNext, Ladder!Restart
<1>2. CASE BacktestRaises \/ FullValidationRaises
  <2>1. results' = results
    BY <1>2 DEF BacktestRaises, FullValidationRaises
  <2>2. (IF stage' < BACKTEST THEN 1 ELSE stage' - 2)
        = (IF stage < BACKTEST THEN 1 ELSE stage - 2)
    <3>1. CASE BacktestRaises
      BY <3>1 DEF BacktestRaises
    <3>2. CASE FullValidationRaises
      BY <3>2 DEF FullValidationRaises, VPInv, Typing
    <3> QED BY <1>2, <3>1, <3>2
  <2> QED BY <2>1, <2>2 DEF Ladder!ladder
<1>3. CASE UNCHANGED <<stage, results>>
  BY <1>3 DEF Ladder!ladder
<1>4. ASSUME NEW passed \in BOOLEAN, RunBacktestGate(passed)
      PROVE  Ladder!Climb \/ UNCHANGED Ladder!ladder
  <2>1. stage \in {RESEARCH, HYPOTHESIS, BACKTEST} /\ Evaluate(BACKTEST, passed)
    BY <1>4 DEF RunBacktestGate
  <2>2. results # <<>> => stage = BACKTEST
    BY <2>1, NeverBelowBacktest
  <2> QED BY <2>1, <2>2, EvaluateClimbs
<1>5. ASSUME NEW passed \in BOOLEAN, NEW gate \in Stages, RunGate(gate, passed)
      PROVE  Ladder!Climb \/ UNCHANGED Ladder!ladder
  <2>1. stage = gate /\ gate \in OUT_OF_SAMPLE .. SHADOW /\ Evaluate(gate, passed)
    BY <1>5 DEF RunGate
  <2>2. results # <<>>
    BY <2>1 DEF VPInv, GateTrail
  <2> QED BY <2>1, <2>2, EvaluateClimbs
<1>6. ASSUME NEW passed \in BOOLEAN, NEW call, NEW gate \in BACKTEST .. WALK_FORWARD,
             NEW next, FullValidationGate(call, gate, passed, next),
             \/ call = "backtest" /\ gate = BACKTEST
             \/ call = "out_of_sample" /\ gate = OUT_OF_SAMPLE
             \/ call = "walk_forward" /\ gate = WALK_FORWARD
      PROVE  Ladder!Climb \/ UNCHANGED Ladder!ladder
  <2>1. auto = call /\ Evaluate(gate, passed)
    BY <1>6 DEF FullValidationGate
  <2>2. CASE call = "backtest"
    <3>1. gate = BACKTEST /\ results = <<>> /\ stage = RESEARCH
      BY <1>6, <2>1, <2>2 DEF VPInv, Typing
    <3>2. stage <= BACKTEST /\ gate \in BACKTEST .. SHADOW
      BY <3>1
    <3> QED BY <2>1, <3>1, <3>2, EvaluateClimbs
  <2>3. CASE call \in {"out_of_sample", "walk_forward"}
    <3>1. stage = gate /\ gate \in OUT_OF_SAMPLE .. WALK_FORWARD
      BY <1>6, <2>1, <2>3 DEF VPInv, Typing
    <3>2. results # <<>> /\ gate \in BACKTEST .. SHADOW
      BY <3>1 DEF VPInv, GateTrail
    <3> QED BY <2>1, <3>1, <3>2, EvaluateClimbs
  <2> QED BY <1>6, <2>2, <2>3
<1>7. ASSUME NEW passed \in BOOLEAN, FullMonteCarlo(passed)
      PROVE  Ladder!Climb \/ UNCHANGED Ladder!ladder
  <2>1. stage = MONTE_CARLO /\ Evaluate(MONTE_CARLO, passed)
    BY <1>7 DEF FullMonteCarlo, VPInv, Typing
  <2>2. results # <<>>
    BY <2>1 DEF VPInv, GateTrail
  <2> QED BY <2>1, <2>2, EvaluateClimbs
<1>8. ASSUME NEW passed \in BOOLEAN,
             \/ FullValidationGate("backtest", BACKTEST, passed, "out_of_sample")
             \/ FullValidationGate("out_of_sample", OUT_OF_SAMPLE, passed, "walk_forward")
             \/ FullValidationGate("walk_forward", WALK_FORWARD, passed, "monte_carlo")
      PROVE  Ladder!Climb \/ UNCHANGED Ladder!ladder
  BY <1>6, <1>8
<1>9. ASSUME NEW verdict \in Verdicts,
             RunOverfittingCheck(verdict) \/ EndFullValidation(verdict)
      PROVE  UNCHANGED <<stage, results>>
  BY <1>9 DEF RunOverfittingCheck, EndFullValidation
<1>10. SkipMonteCarlo \/ UNCHANGED vpvars => UNCHANGED <<stage, results>>
  BY DEF SkipMonteCarlo, vpvars
<1> QED BY <1>1, <1>2, <1>3, <1>4, <1>5, <1>7, <1>8, <1>9, <1>10
        DEF VPNext, Ladder!PLNext

\* The pipeline implements the ladder: however it is driven, a strategy climbs
\* one earned rung at a time and falls only by starting again.
THEOREM PipelineRefinement == VPSpec => ImplementsLadder
<1>1. VPInit => Ladder!PLInit
  BY DEF VPInit, Ladder!PLInit
<1> QED BY <1>1, StepsClimb, PipelineInvariant, PTL
        DEF VPSpec, ImplementsLadder, Ladder!PLSpec
=============================================================================
