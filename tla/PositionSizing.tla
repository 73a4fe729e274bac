--------------------------- MODULE PositionSizing ---------------------------
(***************************************************************************)
(* Position sizing (risk/position_sizer.py): how many units may be bought  *)
(* so that the distance to the stop risks at most a fraction of the        *)
(* account, and the position is at most a fraction of it.                  *)
(*                                                                         *)
(* Prices are whole hundredths of a dollar or of an index point; money is  *)
(* in half cents, so that the half dollar a point of the smallest contract *)
(* is whole.  Fractions are per mille of the account and volatility is in  *)
(* percent.  An integer division stands for math.floor of the quotient.    *)
(* The method's name and the "capped" remark are left out.                 *)
(***************************************************************************)
EXTENDS Integers

CONSTANT MaxPositionSize    \* settings.MAX_POSITION_SIZE_PCT, per mille

ASSUME MaxPositionSizeAssumption == MaxPositionSize \in Nat

Distance(p, q) == IF p < q THEN q - p ELSE p - q

\* The names Faulty... mark plausible bugs in the definition after them.
FaultyCap(qty, perUnit, account) == qty

\* _cap: the position, at perUnit a unit, is clamped to its share of the account.
Cap(qty, perUnit, account) ==
    IF perUnit <= 0 THEN 0
    ELSE IF qty * perUnit * 1000 > account * MaxPositionSize
         THEN (account * MaxPositionSize) \div (1000 * perUnit)
         ELSE qty

\* A sizing result, for a unit that risks perUnitRisk and costs perUnit.
Sizing(qty, perUnitRisk, perUnit) ==
    [risk |-> qty * perUnitRisk, notional |-> qty * perUnit, quantity |-> qty]

NoPosition == Sizing(0, 0, 0)

\* Units for a share (per mille) of the account, scaled by num / den.
Units(account, share, num, den, perUnitRisk) ==
    (account * share * num) \div (1000 * den * perUnitRisk)

\* What a price of one is worth in money, for a share.
Dollar == 2

FixedFractional(account, share, entry, stop) ==
    LET perShare == Dollar * Distance(entry, stop)
    IN  IF perShare = 0 THEN NoPosition
        ELSE Sizing(Cap(Units(account, share, 1, 1, perShare), Dollar * entry, account),
                    perShare, Dollar * entry)

\* With an explicit stop the ATR only stands in for a missing one.
AtrBased(account, share, atr, atrMult, entry) ==
    LET perShare == Dollar * (atr * atrMult)
    IN  IF perShare <= 0 THEN NoPosition
        ELSE Sizing(Cap(Units(account, share, 1, 1, perShare), Dollar * entry, account),
                    perShare, Dollar * entry)

TargetVolatility == 20

VolatilityAdjusted(account, share, volatility, entry, stop) ==
    LET perShare == Dollar * Distance(entry, stop)
        scaled   == IF volatility <= TargetVolatility THEN volatility
                    ELSE TargetVolatility
    IN  IF perShare = 0 \/ volatility <= 0 THEN NoPosition
        ELSE Sizing(Cap(Units(account, share, scaled, volatility, perShare),
                        Dollar * entry, account),
                    perShare, Dollar * entry)

\* A futures contract moves tickValue for every tickSize of its price, and
\* stands for multiplier times its price.
FuturesContracts(account, share, entry, stop, spec) ==
    LET moved == Distance(entry, stop) * spec.tickValue
    IN  IF moved <= 0 THEN NoPosition
        ELSE LET qty == Cap((account * share * spec.tickSize) \div (1000 * moved),
                            entry * spec.multiplier, account)
             IN  Sizing(qty, moved \div spec.tickSize, entry * spec.multiplier)

\* FUTURES_SPECS, with multiplier in the money a price of one is worth.
FuturesSpecs ==
    [MES |-> [tickSize |-> 25,  tickValue |-> 250, multiplier |-> 5 * Dollar],
     MNQ |-> [tickSize |-> 25,  tickValue |-> 100, multiplier |-> 2 * Dollar],
     MYM |-> [tickSize |-> 100, tickValue |-> 100, multiplier |-> Dollar \div 2],
     M2K |-> [tickSize |-> 10,  tickValue |-> 100, multiplier |-> 5 * Dollar]]
=============================================================================
