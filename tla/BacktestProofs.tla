--------------------------- MODULE BacktestProofs ---------------------------
(***************************************************************************)
(* Theorems about Backtest for every set of bars and signals and every     *)
(* capital, commission and cost: the types, the cash identity, the order   *)
(* of the trades and the soundness of the walk-forward windows.            *)
(*                                                                         *)
(* The order of the trades needs two facts that NoLookAhead does not say:  *)
(* a pending signal was made on the bar just processed and after the last  *)
(* exit, and there is none while a position is open.                       *)
(***************************************************************************)
EXTENDS Backtest, TLAPS

Accounts ==
    [cash : Int, qty : Int, entry : Int, plan : Signals \cup {Nothing},
     trades : Seq(Trades), realised : Int, entryFees : Nat]
-----------------------------------------------------------------------------
(* Arithmetic. *)

\* Division of a product of an integer and a positive divisor stays integer.
LEMMA QuotientInt ==
    ASSUME NEW x \in Int, NEW d \in Nat \ {0}
    PROVE  x \div d \in Int
    BY Z3

LEMMA ProductNat ==
    ASSUME NEW a \in Nat, NEW b \in Nat
    PROVE  a * b \in Nat
    BY Z3

LEMMA ProductInt ==
    ASSUME NEW a \in Int, NEW b \in Int
    PROVE  a * b \in Int
    BY Z3

\* The distance of a signal's stop from its entry is positive.
LEMMA StopApart ==
    ASSUME NEW s \in Signals
    PROVE  StopDistance(s) \in Nat \ {0}
<1>1. s \in [direction : {"LONG", "SHORT"}, entry : Nat, stop : Nat, target : Nat]
    BY SignalsAssumption
<1>2. IsSignal(s)
    BY SignalsAssumption
<1> QED BY <1>1, <1>2 DEF IsSignal, StopDistance

LEMMA SizeInt ==
    ASSUME NEW money \in Int, NEW s \in Signals
    PROVE  Size(money, s) \in Int
<1> DEFINE d == StopDistance(s)
<1>1. d \in Nat \ {0}
    BY StopApart
<1> HIDE DEF d
<1>2. money * RiskBps \in Int
    BY CapitalAssumption, ProductInt
<1>3. 10000 * d \in Nat \ {0}
    BY <1>1
<1>4. (money * RiskBps) \div (10000 * d) \in Int
    BY <1>2, <1>3, QuotientInt
<1> QED BY <1>4 DEF Size, d

LEMMA SlipInt ==
    ASSUME NEW price \in Nat, NEW b \in Bars, NEW side
    PROVE  Slip(price, side, b) \in Int
<1>1. b.cost \in Nat
    BY BarsAssumption
<1>2. (price * b.cost) \div 10000 \in Int
    BY <1>1, ProductNat, QuotientInt
<1> QED BY <1>2 DEF Slip
-----------------------------------------------------------------------------
(* What the two parts of a bar do to an account. *)

\* A position has a plan and a trade of its own.
Sound(a) == a \in Accounts /\ (a.qty # 0 => a.plan \in Signals /\ a.trades # <<>>)

Opens(a, o, q, fill, fee) ==
    /\ a.qty = 0
    /\ o.cash = a.cash - (q * fill + fee)
    /\ o.qty = q /\ o.entry = fill
    /\ o.trades = Append(a.trades, NewTrade(q))
    /\ o.realised = a.realised /\ o.entryFees = a.entryFees + fee

\* Part 1 leaves the account alone or opens a position for a pending signal.
LEMMA ExecuteOpens ==
    ASSUME NEW a, Sound(a), NEW s \in Signals \cup {Nothing}, NEW b \in Bars,
           bar \in Nat, since \in Nat
    PROVE  /\ Sound(Execute(a, s, b))
           /\ \/ Execute(a, s, b) = a
              \/ /\ s # Nothing
                 /\ \E q \in Int \ {0}, fill \in Int, fee \in Nat :
                        Opens(a, Execute(a, s, b), q, fill, fee)
<1> DEFINE side == IF s.direction = "LONG" THEN "buy" ELSE "sell"
           units == Size(a.cash, s)
           q == IF side = "buy" THEN units ELSE -units
           fill == Slip(b.open, side, b)
           fee == Commission * units
           o == [a EXCEPT !.cash = @ - (q * fill + fee),
                          !.qty = q, !.entry = fill, !.plan = s,
                          !.trades = Append(@, NewTrade(q)),
                          !.entryFees = @ + fee]
<1>1. CASE s = Nothing \/ a.qty # 0 \/ units <= 0
  <2>1. Execute(a, s, b) = a
      BY <1>1 DEF Execute
  <2> QED BY <2>1
<1>2. CASE ~(s = Nothing \/ a.qty # 0 \/ units <= 0)
  <2>1. Execute(a, s, b) = o
      BY <1>2 DEF Execute
  <2>2. s \in Signals /\ s # Nothing /\ a.qty = 0
      BY <1>2
  <2>3. a \in Accounts /\ a.cash \in Int
      BY DEF Sound, Accounts
  <2>4. units \in Nat \ {0}
    <3>1. units \in Int
        BY <2>2, <2>3, SizeInt
    <3> HIDE DEF units
    <3> QED BY <1>2, <3>1
  <2>5. fill \in Int
      BY SlipInt, BarsAssumption
  <2>6. fee \in Nat
    <3> HIDE DEF units
    <3> QED BY <2>4, ProductNat, CapitalAssumption
  <2> HIDE DEF units
  <2>7. q \in Int \ {0}
      BY <2>4
  <2> HIDE DEF q, fill, fee
  <2>8. q * fill \in Int
      BY <2>5, <2>7, ProductInt
  <2>9. NewTrade(q) \in Trades
      BY <2>7 DEF NewTrade, Trades
  <2>10. o \in Accounts
    <3>1. Append(a.trades, NewTrade(q)) \in Seq(Trades)
        BY <2>3, <2>9 DEF Accounts
    <3>2. a.entryFees + fee \in Nat
        BY <2>3, <2>6 DEF Accounts
    <3>3. a.cash - (q * fill + fee) \in Int
        BY <2>3, <2>6, <2>8
    <3>4. q \in Int
        BY <2>7
    <3> QED BY <2>2, <2>3, <2>5, <3>1, <3>2, <3>3, <3>4 DEF Accounts
  <2>11. Opens(a, o, q, fill, fee)
      BY <2>2, <2>3 DEF Opens, Accounts
  <2>12. o.plan \in Signals /\ o.trades # <<>>
      BY <2>2, <2>3 DEF Accounts
  <2> HIDE DEF o
  <2>13. Sound(o)
      BY <2>10, <2>12 DEF Sound
  <2> QED BY <2>1, <2>2, <2>5, <2>6, <2>7, <2>11, <2>13
<1> QED BY <1>1, <1>2

Closes(a, m, fill, fee) ==
    /\ a.qty # 0
    /\ m.cash = a.cash + (a.qty * fill - fee)
    /\ m.qty = 0 /\ m.entry = a.entry
    /\ m.trades = [a.trades EXCEPT ![Len(a.trades)].exited = bar]
    /\ m.realised = a.realised + ((fill - a.entry) * a.qty - fee)
    /\ m.entryFees = a.entryFees

\* Part 2 leaves the account alone or closes its position.
LEMMA ManageCloses ==
    ASSUME NEW a, Sound(a), NEW b \in Bars, bar \in Nat
    PROVE  /\ Sound(Manage(a, b))
           /\ \/ Manage(a, b) = a
              \/ \E fill \in Int, fee \in Nat : Closes(a, Manage(a, b), fill, fee)
<1> DEFINE level == ExitLevel(a.qty, a.plan, b)
           units == IF a.qty > 0 THEN a.qty ELSE -a.qty
           fill == Slip(level, IF a.qty > 0 THEN "sell" ELSE "buy", b)
           fee == Commission * units
           m == [a EXCEPT !.cash = @ + (a.qty * fill - fee),
                          !.qty = 0,
                          !.trades[Len(a.trades)].exited = bar,
                          !.realised = @ + ((fill - a.entry) * a.qty - fee)]
<1>1. CASE level = Nothing
  <2>1. Manage(a, b) = a
      BY <1>1 DEF Manage
  <2> QED BY <2>1
<1>2. CASE level # Nothing
  <2>1. Manage(a, b) = m
      BY <1>2 DEF Manage
  <2>2. a.qty # 0
      BY <1>2 DEF ExitLevel
  <2>3. a \in Accounts /\ a.plan \in Signals /\ a.trades # <<>>
      BY <2>2 DEF Sound
  <2>4. a.qty \in Int /\ a.cash \in Int /\ a.entry \in Int /\ a.realised \in Int
        /\ a.trades \in Seq(Trades)
      BY <2>3 DEF Accounts
  <2>5. level \in Nat
      BY <1>2, <2>3, SignalsAssumption DEF ExitLevel
  <2>6. fill \in Int
    <3> HIDE DEF level
    <3> QED BY <2>5, SlipInt
  <2>7. units \in Nat
      BY <2>4
  <2>8. fee \in Nat
    <3> HIDE DEF units
    <3> QED BY <2>7, ProductNat, CapitalAssumption
  <2> HIDE DEF fill, fee
  <2>9. a.qty * fill \in Int /\ (fill - a.entry) * a.qty \in Int
      BY <2>4, <2>6, ProductInt
  <2>10. [a.trades EXCEPT ![Len(a.trades)].exited = bar] \in Seq(Trades)
    <3> DEFINE k == Len(a.trades)
               t == [a.trades[k] EXCEPT !.exited = bar]
    <3>1. k \in 1 .. Len(a.trades)
        BY <2>3, <2>4
    <3>2. a.trades[k] \in Trades
        BY <2>4, <3>1
    <3>3. t \in Trades
        BY <3>2 DEF Trades
    <3> HIDE DEF t
    <3>4. [a.trades EXCEPT ![k] = t] \in Seq(Trades)
        BY <2>4, <3>1, <3>3
    <3> QED BY <3>4 DEF t
  <2>11. m \in Accounts
    <3>1. a.cash + (a.qty * fill - fee) \in Int
        BY <2>4, <2>8, <2>9
    <3>2. a.realised + ((fill - a.entry) * a.qty - fee) \in Int
        BY <2>4, <2>8, <2>9
    <3>3. 0 \in Int
        OBVIOUS
    <3> QED BY <2>3, <2>10, <3>1, <3>2, <3>3 DEF Accounts
  <2>12. Closes(a, m, fill, fee)
      BY <2>2, <2>3 DEF Closes, Accounts
  <2>13. m.qty = 0
      BY <2>12 DEF Closes
  <2> HIDE DEF m
  <2>14. Sound(m)
      BY <2>11, <2>13 DEF Sound
  <2> QED BY <2>1, <2>6, <2>8, <2>12, <2>14
<1> QED BY <1>1, <1>2
-----------------------------------------------------------------------------
(* The cash identity. *)

Explained(a) ==
    a.cash + a.qty * a.entry = InitialCapital + a.realised - a.entryFees

LEMMA ProfitSplits ==
    ASSUME NEW fill \in Int, NEW e \in Int, NEW q \in Int
    PROVE  (fill - e) * q = q * fill - q * e
    BY Z3

LEMMA ZeroTimes ==
    ASSUME NEW e \in Int
    PROVE  0 * e = 0
    BY Z3

LEMMA OpensExplained ==
    ASSUME NEW a, NEW o, Sound(a), Explained(a),
           NEW q \in Int \ {0}, NEW fill \in Int, NEW fee \in Nat,
           Opens(a, o, q, fill, fee)
    PROVE  Explained(o)
<1> DEFINE spent == q * fill
<1>1. /\ a.cash \in Int /\ a.entry \in Int
      /\ a.realised \in Int /\ a.entryFees \in Int
    BY DEF Sound, Accounts
<1>2. spent \in Int
    BY ProductInt
<1>3. a.cash = InitialCapital + a.realised - a.entryFees
    BY <1>1, ZeroTimes, CapitalAssumption DEF Explained, Opens
<1>4. o.qty * o.entry = spent
    BY DEF Opens
<1>5. o.cash = a.cash - (spent + fee)
    BY DEF Opens
<1>6. o.realised = a.realised /\ o.entryFees = a.entryFees + fee
    BY DEF Opens
<1> HIDE DEF spent
<1> QED BY <1>1, <1>2, <1>3, <1>4, <1>5, <1>6, CapitalAssumption DEF Explained

LEMMA ClosesExplained ==
    ASSUME NEW a, NEW m, Sound(a), Explained(a),
           NEW fill \in Int, NEW fee \in Nat, Closes(a, m, fill, fee)
    PROVE  Explained(m)
<1> DEFINE got == a.qty * fill
           paid == a.qty * a.entry
<1>1. /\ a.cash \in Int /\ a.entry \in Int /\ a.qty \in Int
      /\ a.realised \in Int /\ a.entryFees \in Int
    BY DEF Sound, Accounts
<1>2. got \in Int /\ paid \in Int
    BY <1>1, ProductInt
<1>3. a.cash + paid = InitialCapital + a.realised - a.entryFees
    BY DEF Explained
<1>4. (fill - a.entry) * a.qty = got - paid
    BY <1>1, ProfitSplits
<1>5. m.cash = a.cash + (got - fee) /\ m.entryFees = a.entryFees
    BY DEF Closes
<1>6. m.realised = a.realised + ((got - paid) - fee)
    BY <1>4 DEF Closes
<1>7. m.qty * m.entry = 0
    BY <1>1, ZeroTimes DEF Closes
<1> HIDE DEF got, paid
<1>8. m.cash + 0 = InitialCapital + m.realised - m.entryFees
    BY <1>1, <1>2, <1>3, <1>5, <1>6, CapitalAssumption
<1> QED BY <1>7, <1>8 DEF Explained
-----------------------------------------------------------------------------
(* The order of the trades. *)

Ordered(a) ==
    /\ \A k \in 1 .. Len(a.trades) :
          /\ a.trades[k].entered = a.trades[k].signalled + 1
          /\ a.trades[k].exited = Nothing => k = Len(a.trades) /\ a.qty = a.trades[k].qty
          /\ a.trades[k].exited # Nothing => a.trades[k].entered <= a.trades[k].exited
          /\ k > 1 => /\ a.trades[k - 1].exited # Nothing
                      /\ a.trades[k - 1].exited <= a.trades[k].signalled
    /\ a.qty # 0 => a.trades # <<>> /\ a.trades[Len(a.trades)].exited = Nothing

\* Nothing in the account is later than bar b.
Past(a, b) ==
    \A k \in 1 .. Len(a.trades) :
        /\ a.trades[k].entered <= b
        /\ a.trades[k].exited # Nothing => a.trades[k].exited <= b

LEMMA OpensOrdered ==
    ASSUME NEW a, NEW o, Sound(a), Ordered(a), Past(a, since),
           bar \in Nat, since \in Nat, bar = since + 1,
           NEW q \in Int \ {0}, NEW fill \in Int, NEW fee \in Nat,
           Opens(a, o, q, fill, fee)
    PROVE  Ordered(o) /\ Past(o, bar)
<1> DEFINE n == Len(a.trades)
<1>1. a.trades \in Seq(Trades) /\ n \in Nat
    BY DEF Sound, Accounts
<1>2. /\ Len(o.trades) = n + 1
      /\ o.trades[n + 1] = NewTrade(q)
      /\ \A k \in 1 .. n : o.trades[k] = a.trades[k]
    BY <1>1 DEF Opens
<1>3. \A k \in 1 .. n : a.trades[k] \in Trades
    BY <1>1
<1>4. \A k \in 1 .. n : a.trades[k].exited # Nothing
  <2> SUFFICES ASSUME NEW k \in 1 .. n, a.trades[k].exited = Nothing
               PROVE  FALSE
      OBVIOUS
  <2>1. a.trades[k] \in Trades
      BY <1>3
  <2>2. a.trades[k].qty # 0
      BY <2>1 DEF Trades
  <2>3. a.qty = a.trades[k].qty
      BY DEF Ordered
  <2> QED BY <2>2, <2>3 DEF Opens
<1>5. /\ o.trades[n + 1].entered = bar /\ o.trades[n + 1].signalled = since
      /\ o.trades[n + 1].exited = Nothing /\ o.trades[n + 1].qty = q
    BY <1>2 DEF NewTrade
<1>6. o.qty = q
    BY DEF Opens
<1>7. ASSUME NEW k \in 1 .. n + 1
      PROVE  /\ o.trades[k].entered = o.trades[k].signalled + 1
             /\ o.trades[k].exited = Nothing => k = n + 1 /\ o.qty = o.trades[k].qty
             /\ o.trades[k].exited # Nothing => o.trades[k].entered <= o.trades[k].exited
             /\ k > 1 => /\ o.trades[k - 1].exited # Nothing
                         /\ o.trades[k - 1].exited <= o.trades[k].signalled
  <2>1. CASE k = n + 1
    <3>1. k > 1 => k - 1 \in 1 .. n
        BY <1>1, <2>1
    <3>2. k > 1 => a.trades[k - 1].exited <= since
        BY <1>4, <3>1 DEF Past
    <3> QED BY <1>2, <1>4, <1>5, <1>6, <2>1, <3>1, <3>2
  <2>2. CASE k # n + 1
    <3>1. k \in 1 .. n /\ (k > 1 => k - 1 \in 1 .. n)
        BY <1>1, <2>2
    <3> QED BY <1>2, <1>4, <3>1 DEF Ordered
  <2> QED BY <2>1, <2>2
<1>8. Past(o, bar)
  <2> SUFFICES ASSUME NEW k \in 1 .. n + 1
               PROVE  /\ o.trades[k].entered <= bar
                      /\ o.trades[k].exited # Nothing => o.trades[k].exited <= bar
      BY <1>2 DEF Past
  <2>1. CASE k = n + 1
      BY <1>5, <2>1
  <2>2. CASE k # n + 1
    <3>1. k \in 1 .. n
        BY <1>1, <2>2
    <3>2. a.trades[k].entered \in Nat /\ a.trades[k].exited \in Nat \cup {Nothing}
        BY <1>3, <3>1 DEF Trades
    <3>3. /\ a.trades[k].entered <= since
          /\ a.trades[k].exited # Nothing => a.trades[k].exited <= since
        BY <3>1 DEF Past
    <3>4. o.trades[k] = a.trades[k]
        BY <1>2, <3>1
    <3>5. a.trades[k].entered <= bar
        BY <3>2, <3>3
    <3>6. a.trades[k].exited # Nothing => a.trades[k].exited <= bar
        BY <3>2, <3>3
    <3> QED BY <3>4, <3>5, <3>6
  <2> QED BY <2>1, <2>2
<1>9. o.trades # <<>>
    BY <1>1, <1>2
<1> HIDE DEF n
<1>10. Ordered(o)
    BY <1>1, <1>2, <1>5, <1>7, <1>9 DEF Ordered
<1> QED BY <1>8, <1>10

LEMMA ClosesOrdered ==
    ASSUME NEW a, NEW m, Sound(a), Ordered(a), Past(a, bar), bar \in Nat,
           NEW fill \in Int, NEW fee \in Nat, Closes(a, m, fill, fee)
    PROVE  Ordered(m) /\ Past(m, bar)
<1> DEFINE n == Len(a.trades)
<1>1. /\ a.trades \in Seq(Trades) /\ a.trades # <<>>
      /\ n \in Nat /\ n >= 1
  <2>1. a.trades \in Seq(Trades)
      BY DEF Sound, Accounts
  <2>2. a.trades # <<>>
      BY DEF Ordered, Closes
  <2> QED BY <2>1, <2>2
<1>2. /\ Len(m.trades) = n
      /\ m.trades[n] = [a.trades[n] EXCEPT !.exited = bar]
      /\ \A k \in 1 .. n : k # n => m.trades[k] = a.trades[k]
    BY <1>1 DEF Closes
<1>3. \A k \in 1 .. n : a.trades[k] \in Trades
    BY <1>1
<1>4. /\ m.trades[n].exited = bar /\ m.trades[n].entered = a.trades[n].entered
      /\ m.trades[n].signalled = a.trades[n].signalled
    BY <1>1, <1>2, <1>3 DEF Trades
<1>5. \A k \in 1 .. n : k # n => a.trades[k].exited # Nothing
    BY DEF Ordered
<1>6. a.trades[n].entered \in Nat /\ a.trades[n].entered <= bar /\ bar # Nothing
    BY <1>1, <1>3, CapitalAssumption DEF Past, Trades
<1>7. m.qty = 0
    BY DEF Closes
<1>8. ASSUME NEW k \in 1 .. n
      PROVE  /\ m.trades[k].entered = m.trades[k].signalled + 1
             /\ m.trades[k].exited # Nothing /\ m.trades[k].entered <= m.trades[k].exited
             /\ k > 1 => /\ m.trades[k - 1].exited # Nothing
                         /\ m.trades[k - 1].exited <= m.trades[k].signalled
             /\ m.trades[k].entered <= bar /\ m.trades[k].exited <= bar
  <2>1. k > 1 => /\ k - 1 \in 1 .. n /\ k - 1 # n
                 /\ m.trades[k - 1] = a.trades[k - 1]
      BY <1>1, <1>2
  <2>2. CASE k = n
    <3>1. a.trades[n].entered = a.trades[n].signalled + 1
        BY <1>1 DEF Ordered
    <3>2. k > 1 => /\ a.trades[k - 1].exited # Nothing
                   /\ a.trades[k - 1].exited <= a.trades[k].signalled
        BY DEF Ordered
    <3> HIDE DEF n
    <3> QED BY <1>4, <1>6, <2>1, <2>2, <3>1, <3>2
  <2>3. CASE k # n
      BY <1>2, <1>5, <2>1, <2>3 DEF Ordered, Past
  <2> QED BY <2>2, <2>3
<1> HIDE DEF n
<1> QED BY <1>2, <1>7, <1>8 DEF Ordered, Past
-----------------------------------------------------------------------------
(* The inductive invariant. *)

\* A pending signal is as old as the last bar, and the account flat.
PendingFresh == pending # Nothing => account.qty = 0 /\ bar = since + 1

BTInv ==
    /\ BTTypeOK
    /\ Sound(account)
    /\ Explained(account)
    /\ Ordered(account)
    /\ PendingFresh
    /\ \A b \in Nat : bar <= b + 1 => Past(account, b)

LEMMA InitBTInv == BTInit => BTInv
<1> SUFFICES ASSUME BTInit PROVE BTInv
    OBVIOUS
<1>1. /\ bar \in Nat /\ since \in Nat /\ lastPoint \in Int /\ pending = Nothing
      /\ account = NewAccount
    BY CapitalAssumption DEF BTInit
<1>2. account \in Accounts
    BY <1>1, CapitalAssumption DEF NewAccount, Accounts
<1>3. /\ account.qty = 0 /\ account.trades = <<>> /\ account.entry = 0
      /\ account.cash = InitialCapital /\ account.realised = 0 /\ account.entryFees = 0
    BY <1>1 DEF NewAccount
<1>4. BTTypeOK
    BY <1>1, <1>2 DEF BTTypeOK, Accounts
<1>5. Sound(account)
    BY <1>2, <1>3 DEF Sound
<1>6. Explained(account)
    BY <1>3, CapitalAssumption DEF Explained
<1>7. Ordered(account) /\ PendingFresh
    BY <1>1, <1>3 DEF Ordered, PendingFresh
<1>8. \A b \in Nat : Past(account, b)
    BY <1>3 DEF Past
<1> QED BY <1>4, <1>5, <1>6, <1>7, <1>8 DEF BTInv

\* A bar keeps the invariant: its two parts one after the other, then the
\* signal and the mark.
LEMMA BarKeepsBTInv ==
    ASSUME BTInv, NEW b \in Bars, NEW s \in Signals \cup {Nothing}, ProcessBar(b, s)
    PROVE  BTInv'
<1> DEFINE o == Execute(account, pending, b)
           m == Manage(o, b)
<1>1. /\ bar \in Nat /\ since \in Nat /\ pending \in Signals \cup {Nothing}
      /\ Sound(account) /\ Explained(account) /\ Ordered(account)
      /\ pending # Nothing => account.qty = 0 /\ bar = since + 1
    BY DEF BTInv, BTTypeOK, PendingFresh
<1>2. /\ Sound(o)
      /\ \/ o = account
         \/ /\ pending # Nothing
            /\ \E q \in Int \ {0}, fill \in Int, fee \in Nat :
                   Opens(account, o, q, fill, fee)
    BY <1>1, ExecuteOpens
<1>3. Past(account, bar)
    BY <1>1 DEF BTInv
<1>4. pending # Nothing => Past(account, since)
    BY <1>1 DEF BTInv
<1> HIDE DEF o
<1>5. Explained(o) /\ Ordered(o) /\ Past(o, bar)
  <2>1. CASE o = account
      BY <1>1, <1>3, <2>1
  <2>2. CASE o # account
    <3>1. pending # Nothing /\ bar = since + 1 /\ Past(account, since)
        BY <1>1, <1>2, <1>4, <2>2
    <3>2. PICK q \in Int \ {0}, fill \in Int, fee \in Nat : Opens(account, o, q, fill, fee)
        BY <1>2, <2>2
    <3>3. Explained(o)
        BY <1>1, <3>2, OpensExplained
    <3>4. Ordered(o) /\ Past(o, bar)
        BY <1>1, <3>1, <3>2, OpensOrdered
    <3> QED BY <3>3, <3>4
  <2> QED BY <2>1, <2>2
<1>6. /\ Sound(m)
      /\ \/ m = o
         \/ \E fill \in Int, fee \in Nat : Closes(o, m, fill, fee)
    BY <1>1, <1>2, ManageCloses
<1> HIDE DEF m
<1>7. Explained(m) /\ Ordered(m) /\ Past(m, bar)
  <2>1. CASE m = o
      BY <1>5, <2>1
  <2>2. CASE m # o
    <3>1. PICK fill \in Int, fee \in Nat : Closes(o, m, fill, fee)
        BY <1>6, <2>2
    <3>2. Explained(m)
        BY <1>2, <1>5, <3>1, ClosesExplained
    <3>3. Ordered(m) /\ Past(m, bar)
        BY <1>1, <1>2, <1>5, <3>1, ClosesOrdered
    <3> QED BY <3>2, <3>3
  <2> QED BY <2>1, <2>2
<1>8. /\ account' = m /\ bar' = bar + 1
      /\ lastPoint' = m.cash + m.qty * b.close
      /\ pending' = (IF m.qty = 0 THEN s ELSE Nothing)
      /\ since' = (IF pending' = Nothing THEN since ELSE bar)
    BY DEF ProcessBar, m, o
<1>9. m \in Accounts /\ m.cash \in Int /\ m.qty \in Int /\ m.trades \in Seq(Trades)
    BY <1>6 DEF Sound, Accounts
<1>10. BTTypeOK'
  <2>1. m.qty * b.close \in Int
      BY <1>9, ProductInt, BarsAssumption
  <2>2. lastPoint' \in Int
      BY <1>8, <1>9, <2>1
  <2>3. bar' \in Nat /\ since' \in Nat /\ pending' \in Signals \cup {Nothing}
      BY <1>1, <1>8
  <2> QED BY <1>8, <1>9, <2>2, <2>3 DEF BTTypeOK, Accounts
<1>11. PendingFresh'
    BY <1>8 DEF PendingFresh
<1>12. \A c \in Nat : bar' <= c + 1 => Past(m, c)
  <2> SUFFICES ASSUME NEW c \in Nat, bar + 1 <= c + 1, NEW k \in 1 .. Len(m.trades)
               PROVE  /\ m.trades[k].entered <= c
                      /\ m.trades[k].exited # Nothing => m.trades[k].exited <= c
      BY <1>8 DEF Past
  <2>1. m.trades[k] \in Trades
      BY <1>9
  <2>2. m.trades[k].entered \in Nat /\ m.trades[k].exited \in Nat \cup {Nothing}
      BY <2>1 DEF Trades
  <2>3. /\ m.trades[k].entered <= bar
        /\ m.trades[k].exited # Nothing => m.trades[k].exited <= bar
      BY <1>7 DEF Past
  <2>4. bar <= c
      BY <1>1
  <2>5. m.trades[k].entered <= c
      BY <1>1, <2>2, <2>3, <2>4
  <2>6. m.trades[k].exited # Nothing => m.trades[k].exited <= c
      BY <1>1, <2>2, <2>3, <2>4
  <2> QED BY <2>5, <2>6
<1>13. Sound(account)' /\ Explained(account)' /\ Ordered(account)'
    BY <1>6, <1>7, <1>8 DEF Sound, Explained, Ordered
<1>14. (\A c \in Nat : bar <= c + 1 => Past(account, c))'
    BY <1>8, <1>12 DEF Past
<1> QED BY <1>10, <1>11, <1>13, <1>14 DEF BTInv

LEMMA AlwaysBTInv == BTSpec => []BTInv
<1>1. BTInv /\ [BTNext]_btvars => BTInv'
  <2> SUFFICES ASSUME BTInv, [BTNext]_btvars PROVE BTInv'
      OBVIOUS
  <2>1. CASE BTNext
      BY <2>1, BarKeepsBTInv DEF BTNext
  <2>2. CASE UNCHANGED btvars
      BY <2>2 DEF btvars, BTInv, BTTypeOK, Sound, Explained, Ordered, PendingFresh, Past
  <2> QED BY <2>1, <2>2
<1> QED BY <1>1, InitBTInv, PTL DEF BTSpec
-----------------------------------------------------------------------------
\* The loop and the account keep their types, whatever the bars and signals.
THEOREM BacktestTyping == BTSpec => []BTTypeOK
<1>1. BTInv => BTTypeOK
    BY DEF BTInv
<1> QED BY <1>1, AlwaysBTInv, PTL

\* The backtest neither creates nor loses money: the cash identity after any
\* number of bars, for every commission and every cost of a fill.
THEOREM CashIdentity == BTSpec => []CashExplained
<1>1. BTInv => CashExplained
    BY DEF BTInv, Explained, CashExplained
<1> QED BY <1>1, AlwaysBTInv, PTL

\* The backtest never looks ahead and never holds two positions.
THEOREM NextBarFills == BTSpec => []NoLookAhead
<1>1. BTInv => NoLookAhead
    BY DEF BTInv, Ordered, NoLookAhead
<1> QED BY <1>1, AlwaysBTInv, PTL
-----------------------------------------------------------------------------
(* The walk-forward windows. *)

LEMMA TimesMonotone ==
    ASSUME NEW a \in Nat, NEW b \in Nat, NEW c \in Nat, a <= b
    PROVE  a * c <= b * c
    BY Z3

LEMMA QuotientFits ==
    ASSUME NEW n \in Nat, NEW d \in Nat \ {0}
    PROVE  n \div d \in Nat /\ d * (n \div d) <= n
    BY Z3

\* For every number of rows, windows and every out-of-sample share: each window
\* is fitted on rows before those it is tried on, the windows are disjoint and
\* in order, and none leaves the data.
THEOREM WindowsSound == \A n \in Nat : FoldsSound(n)
<1> SUFFICES ASSUME NEW n \in Nat, NEW v \in 0 .. Windows - 1, NEW f \in Folds(n, v)
             PROVE  /\ 0 <= f.start /\ f.start < f.split /\ f.split < f.end /\ f.end <= n
                    /\ \A w \in v + 1 .. Windows - 1 : \A g \in Folds(n, w) :
                          f.end <= g.start
    BY DEF FoldsSound
<1> DEFINE size == n \div Windows
<1>1. Windows \in Nat \ {0} /\ OosPercent \in 1 .. 99
    BY WindowsAssumption
<1>2. size \in Nat /\ Windows * size <= n
    BY <1>1, QuotientFits
<1>3. \A cut \in Cuts(size) : cut \in Int
  <2>1. 100 - OosPercent \in Nat
      BY <1>1
  <2>2. size * (100 - OosPercent) \in Nat
    <3> HIDE DEF size
    <3> QED BY <1>2, <2>1, ProductNat
  <2>3. (size * (100 - OosPercent)) \div 100 \in Int
      BY <2>2, QuotientInt
  <2> HIDE DEF size
  <2> QED BY <2>3 DEF Cuts
<1>4. ASSUME NEW w \in 0 .. Windows - 1, NEW g \in Folds(n, w)
      PROVE  /\ g.start = w * size /\ g.end = (w + 1) * size
             /\ g.start \in Nat /\ g.end \in Nat
             /\ g.start < g.split /\ g.split < g.end
  <2>1. PICK cut \in Cuts(size) : g = Fold(n, w, cut)
      BY DEF Folds
  <2>2. /\ g.start = w * size /\ g.split = w * size + cut /\ g.end = (w + 1) * size
      BY <2>1 DEF Fold
  <2>3. cut \in Int
      BY <1>3, <2>1
  <2>4. g.end - g.split >= 10 /\ g.split - g.start >= 55
      BY DEF Folds
  <2>5. w \in Nat /\ w + 1 \in Nat
      BY <1>1
  <2> HIDE DEF size
  <2>6. w * size \in Nat /\ (w + 1) * size \in Nat
      BY <1>2, <2>5, ProductNat
  <2>7. g.start \in Int /\ g.split \in Int /\ g.end \in Int
      BY <2>2, <2>3, <2>6
  <2>8. g.start < g.split /\ g.split < g.end
      BY <2>4, <2>7
  <2> QED BY <2>2, <2>6, <2>8
<1> HIDE DEF size
<1>5. f.end <= n
  <2>1. v + 1 \in Nat /\ v + 1 <= Windows /\ Windows \in Nat
      BY <1>1
  <2>2. (v + 1) * size <= Windows * size
      BY <1>2, <2>1, TimesMonotone
  <2>3. f.end = (v + 1) * size /\ f.end \in Nat
      BY <1>4
  <2>4. Windows * size \in Nat
      BY <1>2, <2>1, ProductNat
  <2> QED BY <1>2, <2>2, <2>3, <2>4
<1>6. ASSUME NEW w \in v + 1 .. Windows - 1, NEW g \in Folds(n, w)
      PROVE  f.end <= g.start
  <2>1. v + 1 \in Nat /\ w \in Nat /\ v + 1 <= w /\ w \in 0 .. Windows - 1
      BY <1>1
  <2>2. (v + 1) * size <= w * size
      BY <1>2, <2>1, TimesMonotone
  <2> QED BY <1>4, <2>1, <2>2
<1> QED BY <1>4, <1>5, <1>6

\* So the windows are sound for the numbers of rows that come after any bar.
THEOREM WindowsAlwaysSound == BTSpec => []WalkForwardSound
<1>1. BTInv => WalkForwardSound
  <2> SUFFICES ASSUME BTInv, bar > Warmup, NEW n \in 120 * (bar - 1) .. 120 * bar - 1
               PROVE  FoldsSound(n)
      BY DEF WalkForwardSound
  <2>1. bar \in Nat /\ bar >= 1
      BY CapitalAssumption DEF BTInv, BTTypeOK
  <2>2. n \in Nat
      BY <2>1
  <2> QED BY <2>2, WindowsSound
<1> QED BY <1>1, AlwaysBTInv, PTL
=============================================================================
