----------------------------- MODULE RiskProofs -----------------------------
(***************************************************************************)
(* Proofs about the risk engine, its integrator and the position sizer,    *)
(* for all limits, accounts, equities, prices, volatilities and calendars  *)
(* and any number of engines.                                              *)
(***************************************************************************)
EXTENDS RiskEngine, TLAPS

-----------------------------------------------------------------------------
(* The position sizer respects its two limits. *)

\* An integer quotient times its divisor stays below the dividend.
LEMMA FloorBelow ==
    ASSUME NEW n \in Nat, NEW d \in Nat \ {0}
    PROVE  n \div d \in Nat /\ (n \div d) * d <= n
    BY Z3

\* A common positive factor may be cancelled.
LEMMA Cancel ==
    ASSUME NEW a \in Int, NEW b \in Int, NEW k \in Nat \ {0}
    PROVE  /\ a * k <= b * k => a <= b
           /\ a * k < b * k => a < b
    BY Z3

\* Products are regrouped; the solver does not find this inside larger goals.
LEMMA Regroup ==
    ASSUME NEW a \in Int, NEW b \in Int, NEW c \in Int
    PROVE  /\ a * (1000 * b) = a * b * 1000
           /\ a * (1000 * b * c) = (a * c * 1000) * b
    BY Z3

\* _cap returns a quantity that is not larger and fits the account.
LEMMA CapFits ==
    ASSUME NEW qty \in Nat, NEW perUnit \in Nat \ {0}, NEW account \in Nat
    PROVE  /\ Cap(qty, perUnit, account) \in Nat
           /\ Cap(qty, perUnit, account) <= qty
           /\ Cap(qty, perUnit, account) * perUnit * 1000 <= MaxPositionSize * account
<1> USE MaxPositionSizeAssumption
<1>1. CASE qty * perUnit * 1000 <= account * MaxPositionSize
  <2>1. Cap(qty, perUnit, account) = qty
      BY <1>1 DEF Cap
  <2> QED BY <1>1, <2>1
<1>2. CASE qty * perUnit * 1000 > account * MaxPositionSize
  <2> DEFINE n == account * MaxPositionSize
             d == 1000 * perUnit
  <2>1. n \in Nat /\ d \in Nat \ {0} /\ n = MaxPositionSize * account
      OBVIOUS
  <2>2. Cap(qty, perUnit, account) = n \div d
      BY <1>2 DEF Cap
  <2>3. qty * d > n
      BY <1>2, Regroup
  <2>4. \A c \in Nat : c * perUnit * 1000 = c * d
      BY Regroup
  <2> HIDE DEF n, d
  <2>5. n \div d \in Nat /\ (n \div d) * d <= n
      BY <2>1, FloorBelow
  <2>6. n \div d < qty
      BY <2>1, <2>3, <2>5, Cancel
  <2> QED BY <2>1, <2>2, <2>4, <2>5, <2>6
<1> QED BY <1>1, <1>2

\* The units for a share of the account, scaled by a fraction, risk at most
\* that share.
LEMMA UnitsFit ==
    ASSUME NEW account \in Nat, NEW share \in Nat, NEW num \in Nat, NEW den \in Nat \ {0},
           num <= den, NEW perUnit \in Nat \ {0}
    PROVE  /\ Units(account, share, num, den, perUnit) \in Nat
           /\ Units(account, share, num, den, perUnit) * perUnit * 1000 <= share * account
<1> DEFINE n == account * share * num
           d == 1000 * den * perUnit
<1>1. n \in Nat /\ d \in Nat \ {0}
    OBVIOUS
<1>2. Units(account, share, num, den, perUnit) = n \div d
    BY DEF Units
<1>3. \A c \in Nat : c * d = (c * perUnit * 1000) * den
    BY Regroup
<1>4. n <= (share * account) * den
  <2>1. n = (share * account) * num
      OBVIOUS
  <2>2. share * account \in Nat
      OBVIOUS
  <2>3. \A k \in Nat : k * num <= k * den
      OBVIOUS
  <2> QED BY <2>1, <2>2, <2>3
<1> HIDE DEF n, d
<1> DEFINE u == n \div d
<1>5. u \in Nat /\ u * d <= n
    BY <1>1, FloorBelow
<1> HIDE DEF u
<1>6. u * perUnit * 1000 \in Int /\ share * account \in Int
    BY <1>5
<1>7. (u * perUnit * 1000) * den <= (share * account) * den
    BY <1>1, <1>3, <1>4, <1>5, <1>6
<1>8. u * perUnit * 1000 <= share * account
    BY <1>6, <1>7, Cancel
<1> QED BY <1>2, <1>5, <1>8 DEF u

\* What a share of the account allows, for units that risk perUnit each.
Fitting(z, perUnit, account, share) ==
    /\ z.quantity \in Nat
    /\ z.risk = z.quantity * perUnit
    /\ z.risk * 1000 <= share * account
    /\ z.notional * 1000 <= MaxPositionSize * account

\* Units that risk their share at most still do when they are clamped.
LEMMA ClampedFits ==
    ASSUME NEW account \in Nat, NEW share \in Nat, NEW perUnit \in Nat,
           NEW price \in Nat \ {0}, NEW u \in Nat,
           u * perUnit * 1000 <= share * account
    PROVE  Fitting(Sizing(Cap(u, price, account), perUnit, price), perUnit, account, share)
<1> USE MaxPositionSizeAssumption
<1> DEFINE c == Cap(u, price, account)
<1>1. c \in Nat /\ c <= u /\ c * price * 1000 <= MaxPositionSize * account
    BY CapFits
<1> HIDE DEF c
<1>2. c * perUnit * 1000 <= u * perUnit * 1000
  <2>1. c * perUnit <= u * perUnit
      BY <1>1, Z3
  <2> QED BY <1>1, <2>1
<1>3. share * account \in Int /\ c * perUnit * 1000 \in Int /\ u * perUnit * 1000 \in Int
    BY <1>1
<1>4. c * perUnit * 1000 <= share * account
    BY <1>2, <1>3
<1>5. Fitting(Sizing(c, perUnit, price), perUnit, account, share)
    BY <1>1, <1>4 DEF Fitting, Sizing
<1> QED BY <1>5 DEF c

LEMMA NothingFits ==
    ASSUME NEW account \in Nat, NEW share \in Nat, NEW perUnit \in Nat
    PROVE  Fitting(NoPosition, perUnit, account, share)
<1>1. 0 <= share * account /\ 0 <= MaxPositionSize * account
    BY MaxPositionSizeAssumption, Z3
<1>2. 0 * perUnit = 0
    OBVIOUS
<1> QED BY <1>1, <1>2 DEF NoPosition, Sizing, Fitting

LEMMA UnitsClampedFit ==
    ASSUME NEW account \in Nat, NEW share \in Nat, NEW perUnit \in Nat \ {0},
           NEW num \in Nat, NEW den \in Nat \ {0}, num <= den, NEW price \in Nat \ {0}
    PROVE  Fitting(Sizing(Cap(Units(account, share, num, den, perUnit), price, account),
                          perUnit, price), perUnit, account, share)
<1> DEFINE u == Units(account, share, num, den, perUnit)
<1>1. u \in Nat /\ u * perUnit * 1000 <= share * account
    BY UnitsFit
<1> HIDE DEF u
<1>2. Fitting(Sizing(Cap(u, price, account), perUnit, price), perUnit, account, share)
    BY <1>1, ClampedFits
<1> QED BY <1>2 DEF u

\* The three methods for shares.
LEMMA FixedFits ==
    ASSUME NEW account \in Nat, NEW share \in Nat, NEW entry \in Nat \ {0}, NEW stop \in Nat
    PROVE  Fitting(FixedFractional(account, share, entry, stop),
                   Dollar * Distance(entry, stop), account, share)
<1>1. Dollar * Distance(entry, stop) \in Nat /\ Dollar * entry \in Nat \ {0}
    BY DEF Distance, Dollar
<1> QED BY <1>1, UnitsClampedFit, NothingFits DEF FixedFractional

LEMMA AtrFits ==
    ASSUME NEW account \in Nat, NEW share \in Nat, NEW entry \in Nat \ {0},
           NEW atr \in Nat, NEW atrMult \in Nat
    PROVE  Fitting(AtrBased(account, share, atr, atrMult, entry),
                   Dollar * (atr * atrMult), account, share)
<1>1. PICK range \in Nat : range = atr * atrMult
    OBVIOUS
<1>2. Dollar * range \in Nat /\ Dollar * entry \in Nat \ {0}
    BY DEF Dollar
<1> QED BY <1>1, <1>2, UnitsClampedFit, NothingFits DEF AtrBased

LEMMA VolatilityFits ==
    ASSUME NEW account \in Nat, NEW share \in Nat, NEW entry \in Nat \ {0},
           NEW stop \in Nat, NEW volatility \in Nat
    PROVE  Fitting(VolatilityAdjusted(account, share, volatility, entry, stop),
                   Dollar * Distance(entry, stop), account, share)
<1>1. Dollar * Distance(entry, stop) \in Nat /\ Dollar * entry \in Nat \ {0}
    BY DEF Distance, Dollar
<1> QED BY <1>1, UnitsClampedFit, NothingFits DEF VolatilityAdjusted, TargetVolatility

\* A position sized by any of the methods for shares risks at most its share of
\* the account and costs at most the position limit.
THEOREM SizedWithinLimits ==
    ASSUME NEW account \in Nat, NEW share \in Nat, NEW entry \in Nat \ {0},
           NEW stop \in Nat, NEW volatility \in Nat, NEW atr \in Nat, NEW atrMult \in Nat
    PROVE  \A z \in {FixedFractional(account, share, entry, stop),
                     AtrBased(account, share, atr, atrMult, entry),
                     VolatilityAdjusted(account, share, volatility, entry, stop)} :
             /\ z.quantity \in Nat
             /\ z.risk * 1000 <= share * account
             /\ z.notional * 1000 <= MaxPositionSize * account
<1>1. Fitting(FixedFractional(account, share, entry, stop),
              Dollar * Distance(entry, stop), account, share)
    BY FixedFits
<1>2. Fitting(AtrBased(account, share, atr, atrMult, entry),
              Dollar * (atr * atrMult), account, share)
    BY AtrFits
<1>3. Fitting(VolatilityAdjusted(account, share, volatility, entry, stop),
              Dollar * Distance(entry, stop), account, share)
    BY VolatilityFits
<1> DEFINE Limited(z) == /\ z.quantity \in Nat
                         /\ z.risk * 1000 <= share * account
                         /\ z.notional * 1000 <= MaxPositionSize * account
<1>4. ASSUME NEW z, NEW perUnit, Fitting(z, perUnit, account, share)
      PROVE  Limited(z)
    BY <1>4 DEF Fitting
<1>5. /\ Limited(FixedFractional(account, share, entry, stop))
      /\ Limited(AtrBased(account, share, atr, atrMult, entry))
      /\ Limited(VolatilityAdjusted(account, share, volatility, entry, stop))
  <2> HIDE DEF Limited
  <2> QED BY <1>1, <1>2, <1>3, <1>4, Zenon
<1>6. SUFFICES ASSUME NEW z \in {FixedFractional(account, share, entry, stop),
                                AtrBased(account, share, atr, atrMult, entry),
                                VolatilityAdjusted(account, share, volatility, entry, stop)}
               PROVE  Limited(z)
    OBVIOUS
<1> HIDE DEF Limited
<1> QED BY <1>5, <1>6, Zenon

\* A contract whose tick is worth its multiplier times its size fits as well as a
\* share does: dividing by the value of the move and multiplying by the ticks in
\* it loses nothing.
LEMMA FuturesFit ==
    ASSUME NEW account \in Nat, NEW share \in Nat, NEW entry \in Nat \ {0},
           NEW stop \in Nat, NEW spec, NEW worth \in Nat \ {0}, spec.multiplier = worth,
           spec.tickSize \in Nat \ {0}, spec.tickValue = worth * spec.tickSize
    PROVE  Fitting(FuturesContracts(account, share, entry, stop, spec),
                   worth * Distance(entry, stop), account, share)
<1> DEFINE d == Distance(entry, stop)
<1>1. d \in Nat
    BY DEF Distance
<1> HIDE DEF d
<1>2. PICK tick \in Nat \ {0}, value \in Nat, price \in Nat \ {0} :
          /\ tick = spec.tickSize /\ value = spec.tickValue
          /\ value = worth * tick /\ price = entry * spec.multiplier
  <2>1. spec.tickValue \in Nat
      BY Z3
  <2>2. entry * spec.multiplier \in Nat \ {0}
      BY Z3
  <2> QED BY <2>1, <2>2
<1>3. FuturesContracts(account, share, entry, stop, spec) =
          IF d * value <= 0 THEN NoPosition
          ELSE Sizing(Cap((account * share * tick) \div (1000 * (d * value)), price, account),
                      (d * value) \div tick, price)
    BY <1>2 DEF FuturesContracts, d
<1>4. PICK perUnit \in Nat : perUnit = d * worth /\ perUnit = worth * d
    BY <1>1
<1>5. d * value = perUnit * tick
    BY <1>1, <1>2, <1>4, Z3
<1>6. CASE perUnit = 0
  <2>1. d * value <= 0
      BY <1>5, <1>6
  <2>2. Fitting(NoPosition, perUnit, account, share)
      BY NothingFits
  <2> QED BY <1>3, <1>4, <2>1, <2>2 DEF d
<1>7. CASE perUnit # 0
  <2>1. PICK moved \in Nat \ {0} : moved = perUnit * tick
      BY <1>4, <1>7, Z3
  <2>2. moved \div tick = perUnit
      BY <1>4, <2>1, Z3
  <2>3. PICK a \in Nat, n \in Nat : a = account * share /\ n = a * tick
      OBVIOUS
  <2>4. PICK u \in Nat : u = n \div (1000 * moved) /\ u * (1000 * moved) <= n
    <3>1. 1000 * moved \in Nat \ {0}
        BY <2>1
    <3> QED BY <2>3, <3>1, FloorBelow
  <2>5. u * perUnit * 1000 <= share * account
    <3>1. u * (1000 * moved) = (u * perUnit * 1000) * tick
      <4>1. u * (1000 * (perUnit * tick)) = (u * perUnit * 1000) * tick
          BY <1>4, Z3
      <4> QED BY <2>1, <4>1
    <3>2. (u * perUnit * 1000) * tick <= a * tick
        BY <2>3, <2>4, <3>1
    <3>3. u * perUnit * 1000 \in Int
        BY <1>4
    <3>4. u * perUnit * 1000 <= a
        BY <3>2, <3>3, Cancel
    <3>5. a = share * account
        BY <2>3, Z3
    <3> QED BY <3>4, <3>5
  <2>6. Fitting(Sizing(Cap(u, price, account), perUnit, price), perUnit, account, share)
      BY <1>4, <2>5, ClampedFits
  <2>7. ~ (d * value <= 0)
      BY <1>5, <2>1
  <2>8. (account * share * tick) \div (1000 * (d * value)) = u
      BY <1>5, <2>1, <2>3, <2>4
  <2>9. (d * value) \div tick = perUnit
      BY <1>5, <2>1, <2>2
  <2>10. Fitting(FuturesContracts(account, share, entry, stop, spec), perUnit, account, share)
      BY <1>3, <2>6, <2>7, <2>8, <2>9
  <2> QED BY <1>4, <2>10 DEF d
<1> QED BY <1>6, <1>7

-----------------------------------------------------------------------------
(* The engine and the integrator.  REInv relates the references the        *)
(* integrator keeps to the equity the day and the week really began with:  *)
(* once an update has come they agree, and until one comes the equity has  *)
(* not moved.                                                              *)

\* The days of the integrator lie in the past, the week's mark is not younger
\* than the last update, and an update on a Monday moves it there.
DaysOrdered ==
    /\ lastDay # Never => lastDay <= today
    /\ lastWeekStart = Never <=> lastDay = Never
    /\ lastWeekStart # Never => lastWeekStart <= lastDay
    /\ lastDay \in Mondays => lastWeekStart = lastDay

\* Before the first update everything is as it was at the start.
Untouched ==
    lastDay = Never => /\ equity = dayRef
                       /\ equity = weekRef
                       /\ equity = weekOpen

DayRefRight ==
    /\ lastDay = today => dayRef = dayOpen
    /\ lastDay # today => equity = dayOpen

MondayUntouched == today \in Mondays /\ lastDay # today => equity = weekOpen

WeekRefRight ==
    ~missedMonday => \/ weekRef = weekOpen
                     \/ today \in Mondays /\ lastDay # today

MondayNotMissedYet == today \in Mondays => ~missedMonday

PeakNotBelowStart == peak >= InitialEquity

DebtsKept ==
    \A e \in Engines : /\ "switch" \in owed[e] => tripped /\ ~trading
                       /\ "breaker" \in owed[e] => breaker[e]

REInv ==
    /\ RETypeOK
    /\ DaysOrdered
    /\ Untouched
    /\ DayRefRight
    /\ MondayUntouched
    /\ WeekRefRight
    /\ MondayNotMissedYet
    /\ PeakNotBelowStart
    /\ DailyResultsAddUp
    /\ DebtsKept
-----------------------------------------------------------------------------
LEMMA InitREInv == REInit => REInv
<1> USE RiskAssumption
<1> SUFFICES ASSUME REInit PROVE REInv
    OBVIOUS
<1>1. RETypeOK
  <2>1. InitialEquity \in Int /\ 0 \in Int /\ 0 \in Nat
      OBVIOUS
  <2>2. breaker \in [Engines -> BOOLEAN] /\ owed \in [Engines -> SUBSET {"switch", "breaker"}]
      BY DEF REInit
  <2>3. exposure \in [open : Nat, gross : Int, correlated : Int]
      BY <2>1 DEF REInit
  <2>4. tripped \in BOOLEAN /\ trading \in BOOLEAN
      BY DEF REInit, KSInit
  <2>5. {equity, dayRef, weekRef, peak, booked, dayOpen, weekOpen} \subseteq Int
      BY <2>1 DEF REInit
  <2>6. /\ today \in Nat /\ missedMonday \in BOOLEAN
        /\ lastDay \in Nat \cup {Never} /\ lastWeekStart \in Nat \cup {Never}
      BY <2>1 DEF REInit
  <2> QED BY <2>2, <2>3, <2>4, <2>5, <2>6 DEF RETypeOK
<1>2. DaysOrdered /\ Untouched /\ DayRefRight /\ WeekRefRight /\ MondayUntouched
    BY DEF REInit, DaysOrdered, Untouched, DayRefRight, WeekRefRight, MondayUntouched
<1>3. MondayNotMissedYet /\ PeakNotBelowStart /\ DailyResultsAddUp
    BY DEF REInit, MondayNotMissedYet, PeakNotBelowStart, DailyResultsAddUp
<1>4. DebtsKept
    BY DEF REInit, DebtsKept
<1> QED BY <1>1, <1>2, <1>3, <1>4 DEF REInv

LEMMA UpdateKeepsREInv ==
    ASSUME REInv, NEW eq \in Equities, NEW exp \in Exposures, Update(eq, exp)
    PROVE  REInv'
<1> USE RiskAssumption
<1>1. RETypeOK'
    BY DEF REInv, RETypeOK, Update, RollDay, RollWeek, calendar, ksvars
<1>2. DaysOrdered'
    BY DEF REInv, RETypeOK, DaysOrdered, Update, RollWeek, NewWeek, calendar
<1>3. Untouched'
    BY DEF REInv, RETypeOK, Untouched, Update
<1>4. DayRefRight'
    BY DEF REInv, RETypeOK, DayRefRight, Untouched, Update, RollDay, NewDay, calendar
<1>5. WeekRefRight'
  <2>1. lastDay' = today /\ today' = today /\ weekOpen' = weekOpen
        /\ missedMonday' = missedMonday
      BY DEF Update, calendar
  <2>2. CASE lastDay = Never
      BY <2>1, <2>2 DEF REInv, DaysOrdered, Untouched, Update, RollWeek, NewWeek, WeekRefRight
  <2>3. CASE lastDay # Never /\ NewWeek
    <3>1. today \in Mondays /\ today # lastWeekStart /\ weekRef' = equity
        BY <2>3 DEF REInv, DaysOrdered, NewWeek, Update, RollWeek
    <3>2. lastDay # today
        BY <3>1 DEF REInv, DaysOrdered
    <3> QED BY <2>1, <3>1, <3>2 DEF WeekRefRight, MondayUntouched, REInv
  <2>4. CASE lastDay # Never /\ ~NewWeek
      BY <2>1, <2>4 DEF REInv, RETypeOK, DaysOrdered, WeekRefRight, Update, RollWeek, NewWeek
  <2> QED BY <2>2, <2>3, <2>4
<1>6. MondayUntouched'
    BY DEF MondayUntouched, Update, calendar
<1>7. MondayNotMissedYet' /\ DailyResultsAddUp'
    BY DEF REInv, RETypeOK, MondayNotMissedYet, DailyResultsAddUp, Update, RollDay, calendar
<1>8. PeakNotBelowStart'
    BY DEF REInv, RETypeOK, PeakNotBelowStart, Update
<1>9. DebtsKept'
    BY DEF REInv, DebtsKept, Update, ksvars
<1> QED BY <1>1, <1>2, <1>3, <1>4, <1>5, <1>6, <1>7, <1>8, <1>9 DEF REInv

LEMMA BreakerCheckKeepsREInv ==
    ASSUME REInv, NEW e \in Engines, CircuitBreakerCheck(e)
    PROVE  REInv'
<1>1. RETypeOK'
    BY DEF REInv, RETypeOK, CircuitBreakerCheck, Trip, portfolio, calendar
<1>2. UNCHANGED <<portfolio, calendar>>
    BY DEF CircuitBreakerCheck
<1>3. DebtsKept'
    BY DEF REInv, RETypeOK, DebtsKept, CircuitBreakerCheck, Trip
<1> QED BY <1>1, <1>2, <1>3 DEF REInv, portfolio, calendar, DaysOrdered, Untouched,
         DayRefRight, MondayUntouched, WeekRefRight, MondayNotMissedYet, PeakNotBelowStart,
         DailyResultsAddUp

LEMMA BreakerResetKeepsREInv ==
    ASSUME REInv, NEW e \in Engines, ResetCircuitBreaker(e)
    PROVE  REInv'
<1>1. RETypeOK'
    BY DEF REInv, RETypeOK, ResetCircuitBreaker, ksvars, portfolio, calendar
<1>2. UNCHANGED <<portfolio, calendar>>
    BY DEF ResetCircuitBreaker
<1>3. DebtsKept'
    BY DEF REInv, RETypeOK, DebtsKept, ResetCircuitBreaker, ksvars
<1> QED BY <1>1, <1>2, <1>3 DEF REInv, portfolio, calendar, DaysOrdered, Untouched,
         DayRefRight, MondayUntouched, WeekRefRight, MondayNotMissedYet, PeakNotBelowStart,
         DailyResultsAddUp

LEMMA SwitchKeepsREInv ==
    ASSUME REInv, OperatorActs
    PROVE  REInv'
<1>1. RETypeOK'
    BY DEF REInv, RETypeOK, OperatorActs, KSNext, Trip, Rearm, Operate, portfolio, calendar
<1>2. UNCHANGED <<breaker, portfolio, calendar>>
    BY DEF OperatorActs
<1>3. DebtsKept'
  <2> SUFFICES ASSUME NEW e \in Engines
               PROVE  /\ "switch" \in owed'[e] => tripped' /\ ~trading'
                      /\ "breaker" \in owed'[e] => breaker'[e]
      BY DEF DebtsKept
  <2>1. owed'[e] = IF tripped' THEN owed[e] ELSE owed[e] \ {"switch"}
      BY DEF OperatorActs
  <2>2. /\ "switch" \in owed[e] => tripped /\ ~trading
        /\ "breaker" \in owed[e] => breaker[e]
      BY DEF REInv, DebtsKept
  <2>3. CASE Trip
      BY <1>2, <2>1, <2>2, <2>3 DEF Trip
  <2>4. CASE Rearm
      BY <1>2, <2>1, <2>2, <2>4 DEF Rearm
  <2>5. CASE Operate
      BY <1>2, <2>1, <2>2, <2>5 DEF Operate
  <2> QED BY <2>3, <2>4, <2>5 DEF OperatorActs, KSNext
<1> QED BY <1>1, <1>2, <1>3 DEF REInv, portfolio, calendar, DaysOrdered, Untouched,
         DayRefRight, MondayUntouched, WeekRefRight, MondayNotMissedYet, PeakNotBelowStart,
         DailyResultsAddUp

LEMMA MidnightKeepsREInv ==
    ASSUME REInv, DayPasses
    PROVE  REInv'
<1> USE RiskAssumption
<1>1. /\ UNCHANGED <<ksvars, breaker, owed>>
      /\ UNCHANGED <<equity, dayRef, weekRef, peak, exposure, booked, lastDay, lastWeekStart>>
      /\ today' = today + 1 /\ dayOpen' = equity
      /\ weekOpen' = IF today' \in Mondays THEN equity ELSE weekOpen
    BY DEF DayPasses, portfolio
<1>2. lastDay' # today' /\ today' # today
    BY <1>1 DEF REInv, RETypeOK, DaysOrdered
<1>3. missedMonday' = /\ today' \notin Mondays
                      /\ IF today \in Mondays THEN lastDay \notin {today, Never}
                         ELSE missedMonday
    BY DEF DayPasses
<1>4. RETypeOK'
  <2>1. missedMonday' \in BOOLEAN
      BY <1>3 DEF REInv, RETypeOK
  <2> QED BY <1>1, <2>1 DEF REInv, RETypeOK, ksvars
<1>5. DaysOrdered'
    BY <1>1 DEF REInv, RETypeOK, DaysOrdered
<1>6. Untouched' /\ DayRefRight' /\ MondayUntouched'
    BY <1>1, <1>2 DEF REInv, Untouched, DayRefRight, MondayUntouched
<1>7. WeekRefRight'
  <2>1. CASE today' \in Mondays
      BY <1>2, <2>1 DEF WeekRefRight
  <2>2. CASE today' \notin Mondays /\ today \in Mondays
    <3>1. ~missedMonday' => lastDay = today \/ lastDay = Never
        BY <1>3, <2>2
    <3>2. lastDay = today => weekRef = weekOpen
        BY <2>2 DEF REInv, WeekRefRight, MondayNotMissedYet
    <3>3. lastDay = Never => weekRef = weekOpen
        BY DEF REInv, Untouched
    <3> QED BY <1>1, <2>2, <3>1, <3>2, <3>3 DEF WeekRefRight
  <2>3. CASE today' \notin Mondays /\ today \notin Mondays
    <3>1. missedMonday => missedMonday'
        BY <1>3, <2>3
    <3> QED BY <1>1, <2>3, <3>1 DEF REInv, WeekRefRight
  <2> QED BY <2>1, <2>2, <2>3
<1>8. MondayNotMissedYet'
    BY <1>3 DEF MondayNotMissedYet
<1>9. PeakNotBelowStart' /\ DailyResultsAddUp' /\ DebtsKept'
    BY <1>1 DEF REInv, PeakNotBelowStart, DailyResultsAddUp, DebtsKept, ksvars
<1> QED BY <1>4, <1>5, <1>6, <1>7, <1>8, <1>9 DEF REInv

LEMMA StepKeepsREInv == REInv /\ [RENext]_revars => REInv'
<1> SUFFICES ASSUME REInv, [RENext]_revars PROVE REInv'
    OBVIOUS
<1>1. ASSUME NEW eq \in Equities, NEW exp \in Exposures, Update(eq, exp) PROVE REInv'
    BY <1>1, UpdateKeepsREInv
<1>2. ASSUME NEW e \in Engines, CircuitBreakerCheck(e) PROVE REInv'
    BY <1>2, BreakerCheckKeepsREInv
<1>3. ASSUME NEW e \in Engines, ResetCircuitBreaker(e) PROVE REInv'
    BY <1>3, BreakerResetKeepsREInv
<1>4. CASE OperatorActs
    BY <1>4, SwitchKeepsREInv
<1>5. CASE DayPasses
    BY <1>5, MidnightKeepsREInv
<1>6. CASE UNCHANGED revars
  <2> USE <1>6 DEF revars, ksvars, portfolio, calendar
  <2>1. RETypeOK'
      BY DEF REInv, RETypeOK
  <2> QED BY <2>1 DEF REInv, DaysOrdered, Untouched, DayRefRight, MondayUntouched,
           WeekRefRight, MondayNotMissedYet, PeakNotBelowStart, DailyResultsAddUp, DebtsKept
<1> QED BY <1>1, <1>2, <1>3, <1>4, <1>5, <1>6 DEF RENext

LEMMA AlwaysREInv == RESpec => []REInv
    BY InitREInv, StepKeepsREInv, PTL DEF RESpec
-----------------------------------------------------------------------------
\* The engines, the portfolio, the calendar and the history keep their types.
THEOREM RiskTyping == RESpec => []RETypeOK
<1>1. REInv => RETypeOK
    BY DEF REInv
<1> QED BY <1>1, AlwaysREInv, PTL

\* check_trade never admits a trade past the daily limit, measured from the
\* equity at midnight: a proof for every pattern of updates and days.
THEOREM DailyLoss == RESpec => []DailyLossGate
<1>1. REInv => DailyLossGate
  <2> USE RiskAssumption
  <2> SUFFICES ASSUME REInv, NEW e \in Engines, Admits(e)
               PROVE  ~LossExceeds(dayOpen, equity, MaxDailyLoss)
      BY DEF DailyLossGate
  <2>1. ~LossExceeds(dayRef, equity, MaxDailyLoss)
      BY DEF Admits, CheckTrade, Breaches
  <2>2. CASE lastDay = today
      BY <2>1, <2>2 DEF REInv, DayRefRight
  <2>3. CASE lastDay # today
      BY <2>3 DEF REInv, DayRefRight, RETypeOK, LossExceeds
  <2> QED BY <2>2, <2>3
<1> QED BY <1>1, AlwaysREInv, PTL

\* The same for the weekly limit, unless this week's Monday brought no update.
THEOREM WeeklyLoss == RESpec => []WeeklyLossGate
<1>1. REInv => WeeklyLossGate
  <2> USE RiskAssumption
  <2> SUFFICES ASSUME REInv, NEW e \in Engines, Admits(e), ~missedMonday
               PROVE  ~LossExceeds(weekOpen, equity, MaxWeeklyLoss)
      BY DEF WeeklyLossGate
  <2>1. ~LossExceeds(weekRef, equity, MaxWeeklyLoss)
      BY DEF Admits, CheckTrade, Breaches
  <2>2. CASE weekRef = weekOpen
      BY <2>1, <2>2
  <2>3. CASE equity = weekOpen
      BY <2>3 DEF REInv, RETypeOK, LossExceeds
  <2> QED BY <2>2, <2>3 DEF REInv, WeekRefRight, MondayUntouched
<1> QED BY <1>1, AlwaysREInv, PTL

\* An account in debt admits no trade.
THEOREM Debt == RESpec => []DebtNeverTrades
<1>1. REInv => DebtNeverTrades
  <2> USE RiskAssumption
  <2> SUFFICES ASSUME REInv, equity < 0, NEW e \in Engines, Admits(e)
               PROVE  FALSE
      BY DEF DebtNeverTrades
  <2>1. ~LossExceeds(peak, equity, MaxDrawdown)
      BY DEF Admits, CheckTrade, Breaches
  <2>2. peak \in Int /\ equity \in Int /\ peak > 0 /\ MaxDrawdown \in Nat
      BY DEF REInv, RETypeOK, PeakNotBelowStart
  <2>3. MaxDrawdown * peak <= 1000 * peak
      BY <2>2
  <2>4. (peak - equity) * 1000 > 1000 * peak
      BY <2>2
  <2>5. (peak - equity) * 1000 > MaxDrawdown * peak
      BY <2>2, <2>3, <2>4
  <2> QED BY <2>1, <2>2, <2>5 DEF LossExceeds
<1> QED BY <1>1, AlwaysREInv, PTL

\* A tripped engine admits nothing before both resets.
THEOREM BothResets == RESpec => []BothResetsNeeded
<1>1. REInv => BothResetsNeeded
    BY DEF REInv, RETypeOK, DebtsKept, BothResetsNeeded, Admits, CheckTrade
<1> QED BY <1>1, AlwaysREInv, PTL

\* The booked daily results telescope to the current reference.
THEOREM DailyResults == RESpec => []DailyResultsAddUp
<1>1. REInv => DailyResultsAddUp
    BY DEF REInv
<1> QED BY <1>1, AlwaysREInv, PTL

\* A fitting number of units of an instrument, asked about with its stop at the
\* distance, loses no more than the limit and passes the check of its size.
LEMMA FittingAsked ==
    ASSUME REInv, equity >= 0, NEW z, NEW distance \in Nat, NEW worth \in Nat,
           Fitting(z, worth * distance, equity, MaxRisk)
    PROVE  /\ Within(AtRisk(Asked(z, distance, worth)), MaxRisk)
           /\ FitsSize(Asked(z, distance, worth))
           /\ worth >= Dollar => FitsRisk(Asked(z, distance, worth))
<1> USE RiskAssumption, MaxPositionSizeAssumption
<1>1. equity \in Nat /\ MaxRisk \in Nat /\ MaxRisk * equity \in Nat
    BY DEF REInv, RETypeOK
<1>2. PICK q \in Nat, risk \in Nat : q = z.quantity /\ risk = worth * distance * q
    BY DEF Fitting
<1>3. risk * 1000 <= MaxRisk * equity
  <2>1. q * (worth * distance) = worth * distance * q
      BY <1>2, Z3
  <2> QED BY <1>2, <2>1 DEF Fitting
<1>4. Within(AtRisk(Asked(z, distance, worth)), MaxRisk)
    BY <1>1, <1>2, <1>3 DEF Within, AtRisk, Asked
<1>5. FitsSize(Asked(z, distance, worth))
    BY <1>1 DEF Fitting, FitsSize, Within, Asked
<1>6. ASSUME worth >= Dollar PROVE FitsRisk(Asked(z, distance, worth))
  <2>1. PICK counted \in Nat : counted = Dollar * distance * q
      BY <1>2 DEF Dollar
  <2>2. counted <= risk
    <3>1. Dollar * distance <= worth * distance
        BY <1>6, Z3 DEF Dollar
    <3>2. PICK x \in Nat, y \in Nat : x = Dollar * distance /\ y = worth * distance
        BY DEF Dollar
    <3>3. x * q <= y * q
        BY <1>2, <3>1, <3>2, Z3
    <3> QED BY <1>2, <2>1, <3>2, <3>3
  <2>3. counted * 1000 <= MaxRisk * equity
      BY <1>1, <1>2, <1>3, <2>1, <2>2
  <2> QED BY <1>1, <1>2, <2>1, <2>3 DEF FitsRisk, Within, Asked
<1> QED BY <1>4, <1>5, <1>6

AnySizeFits ==
    equity >= 0 =>
        \A entry \in Nat \ {0}, stop \in Nat :
            /\ \A range \in Nat, multiple \in Nat, v \in Nat :
                  SharesFit(entry, stop, range, multiple, v)
            /\ \A c \in DOMAIN FuturesSpecs : FutureFits(entry, stop, FuturesSpecs[c])

\* Whatever the equity, the price, the stop, the range and the volatility are, the
\* shares any of the sizers chooses pass the checks of check_trade; the contracts
\* lose no more than the limit, fit the size check, and pass the risk check too
\* where a point is worth a dollar at least.
THEOREM AnySizePasses == RESpec => []AnySizeFits
<1>1. REInv => AnySizeFits
  <2> USE RiskAssumption, MaxPositionSizeAssumption
  <2> SUFFICES ASSUME REInv, equity >= 0, NEW entry \in Nat \ {0}, NEW stop \in Nat
               PROVE  /\ \A range \in Nat, multiple \in Nat, v \in Nat :
                            SharesFit(entry, stop, range, multiple, v)
                      /\ \A c \in DOMAIN FuturesSpecs :
                            FutureFits(entry, stop, FuturesSpecs[c])
      BY Zenon DEF AnySizeFits
  <2>1. equity \in Nat /\ MaxRisk \in Nat
      BY DEF REInv, RETypeOK
  <2>2. Distance(entry, stop) \in Nat
      BY DEF Distance
  <2>3. Dollar \in Nat /\ Dollar >= Dollar
      BY DEF Dollar
  <2>4. ASSUME NEW range \in Nat, NEW multiple \in Nat, NEW v \in Nat
        PROVE  SharesFit(entry, stop, range, multiple, v)
    <3>1. Fits(Asked(FixedFractional(equity, MaxRisk, entry, stop),
                     Distance(entry, stop), Dollar))
        BY <2>1, <2>2, <2>3, FixedFits, FittingAsked DEF Fits
    <3>2. Fits(Asked(AtrBased(equity, MaxRisk, range, multiple, entry),
                     range * multiple, Dollar))
      <4>1. range * multiple \in Nat
          OBVIOUS
      <4>2. Fitting(AtrBased(equity, MaxRisk, range, multiple, entry),
                    Dollar * (range * multiple), equity, MaxRisk)
          BY <2>1, AtrFits
      <4> QED BY <2>3, <4>1, <4>2, FittingAsked, Zenon DEF Fits
    <3>3. Fits(Asked(VolatilityAdjusted(equity, MaxRisk, v, entry, stop),
                     Distance(entry, stop), Dollar))
        BY <2>1, <2>2, <2>3, VolatilityFits, FittingAsked DEF Fits
    <3> QED BY <3>1, <3>2, <3>3, Zenon DEF SharesFit
  <2>5. ASSUME NEW c \in DOMAIN FuturesSpecs
        PROVE  FutureFits(entry, stop, FuturesSpecs[c])
    <3> DEFINE spec == FuturesSpecs[c]
    <3>1. /\ spec.multiplier \in Nat \ {0}
          /\ spec.tickSize \in Nat \ {0}
          /\ spec.tickValue = spec.multiplier * spec.tickSize
        BY DEF FuturesSpecs, Dollar
    <3> HIDE DEF spec
    <3>2. Fitting(FuturesContracts(equity, MaxRisk, entry, stop, spec),
                  spec.multiplier * Distance(entry, stop), equity, MaxRisk)
        BY <2>1, <3>1, FuturesFit, Zenon
    <3>3. FutureFits(entry, stop, spec)
        BY <2>2, <3>1, <3>2, FittingAsked, Zenon DEF FutureFits
    <3> QED BY <3>3 DEF spec
  <2> QED BY <2>4, <2>5
<1> QED BY <1>1, AlwaysREInv, PTL

\* In particular at the prices of the property.
THEOREM SizedTradesPass == RESpec => []SizedTradesFit
<1>1. AnySizeFits => SizedTradesFit
  <2> SUFFICES ASSUME AnySizeFits, equity >= 0,
                      NEW entry \in {3, 60}, NEW stop \in {2, 58}
               PROVE  /\ \A v \in {15, 35} : SharesFit(entry, stop, stop, 2, v)
                      /\ \A c \in DOMAIN FuturesSpecs :
                            FutureFits(entry, stop, FuturesSpecs[c])
      BY Zenon DEF SizedTradesFit
  <2>1. /\ entry \in Nat \ {0} /\ stop \in Nat /\ 2 \in Nat
        /\ \A v \in {15, 35} : v \in Nat
      OBVIOUS
  <2> QED BY <2>1, Zenon DEF AnySizeFits
<1> QED BY <1>1, AnySizePasses, PTL
=============================================================================
