------------------------ MODULE ShadowTradingProofs ------------------------
(***************************************************************************)
(* Proofs about shadow trading, for any instruments, prices, delay and     *)
(* window and any number of orders.                                        *)
(***************************************************************************)
EXTENDS ShadowTrading, SumLemmas, SequenceTheorems

Orders ==
    [symbol : Symbols, side : Sides, intended : Prices,
     status : {"PENDING", "MATCHED", "UNFILLABLE", "EXPIRED"},
     observed : Prices \cup {None}, age : Nat]

\* The matched orders, and what each of them cost at its intended and at its
\* observed price.
Matched(os) == {k \in 1 .. Len(os) : os[k].status = "MATCHED"}

Cost(o, price) == -Sign(o) * price

Intended(os) == [k \in Matched(os) |-> Cost(os[k], os[k].intended)]

Met(os) == [k \in Matched(os) |-> Cost(os[k], os[k].observed)]

PnlInv ==
    /\ paperPnl = Sum(Intended(orders), Matched(orders))
    /\ shadowPnl = Sum(Met(orders), Matched(orders))

ShadowInv ==
    /\ orders \in Seq(Orders)
    /\ asked \subseteq Symbols
    /\ \A k \in Matched(orders) : orders[k].observed \in Prices
    /\ NotResolvedEarly
    /\ PnlInv
-----------------------------------------------------------------------------
\* A leg of the profit is the sum of the costs.
LEMMA LegsAreCosts ==
    ASSUME NEW price, NEW S
    PROVE  Legs(price, S) = Sum([k \in S |-> Cost(orders[k], price[k])], S)
<1> DEFINE f == [k \in S |-> Cost(orders[k], price[k])]
<1>1. Legs(price, S) = SumFunction(f)
  BY DEF Legs, Cost
<1>2. SumFunction(f) = SumFunctionOnSet(f, DOMAIN f) /\ DOMAIN f = S
  BY DEF SumFunction
<1>3. Legs(price, S) = Sum(f, S)
  <2> HIDE DEF f
  <2> QED BY <1>1, <1>2, Zenon DEF Sum
<1> QED BY <1>3

\* The two figures, as PnlFromMatches takes them.
LEMMA PnlInvIsPnl == PnlInv => PnlFromMatches
<1> DEFINE m == Matched(orders)
<1>1. /\ [k \in m |-> Cost(orders[k], [j \in m |-> orders[j].intended][k])]
            = Intended(orders)
      /\ [k \in m |-> Cost(orders[k], [j \in m |-> orders[j].observed][k])]
            = Met(orders)
  BY DEF Intended, Met
<1>2. /\ Legs([k \in m |-> orders[k].intended], m) = Sum(Intended(orders), m)
      /\ Legs([k \in m |-> orders[k].observed], m) = Sum(Met(orders), m)
  BY <1>1, LegsAreCosts, Zenon
<1> QED BY <1>2, Zenon DEF PnlInv, PnlFromMatches, Matched

LEMMA MatchedFinite ==
    ASSUME NEW os \in Seq(Orders)
    PROVE  /\ IsFiniteSet(Matched(os))
           /\ \A k \in Matched(os) : k \in 1 .. Len(os) /\ os[k] \in Orders
<1>1. IsFiniteSet(1 .. Len(os)) /\ os \in [1 .. Len(os) -> Orders]
  BY FS_Interval, LenProperties
<1>2. Matched(os) \in SUBSET (1 .. Len(os))
  BY DEF Matched
<1> QED BY <1>1, <1>2, FS_Subset

\* An order costs an integer amount at a price.
LEMMA CostIsInt ==
    ASSUME NEW o \in Orders, NEW price \in Prices
    PROVE  Cost(o, price) \in Int
BY ShadowAssumption DEF Cost, Sign, Orders
-----------------------------------------------------------------------------
\* When orders match, each figure grows by the legs of the orders that match.
LEMMA MatchesAreAdded ==
    ASSUME ShadowInv, NEW new \in Seq(Orders), NEW m,
           Matched(new) = Matched(orders) \cup m,
           m \cap Matched(orders) = {},
           \A k \in Matched(new) : new[k].observed \in Prices,
           \A k \in Matched(orders) : /\ new[k].side = orders[k].side
                                      /\ new[k].intended = orders[k].intended
                                      /\ new[k].observed = orders[k].observed
    PROVE  /\ Sum(Intended(new), Matched(new))
                = paperPnl + Sum(Intended(new), m)
           /\ Sum(Met(new), Matched(new))
                = shadowPnl + Sum(Met(new), m)
<1> DEFINE A == Matched(orders)
<1>1. IsFiniteSet(A) /\ IsFiniteSet(m)
  <2>1. IsFiniteSet(A) /\ IsFiniteSet(Matched(new))
    BY MatchedFinite DEF ShadowInv
  <2>2. m \in SUBSET Matched(new)
    OBVIOUS
  <2> QED BY <2>1, <2>2, FS_Subset
<1>2. ASSUME NEW k \in A \cup m
      PROVE  Intended(new)[k] \in Int /\ Met(new)[k] \in Int
  <2>1. k \in Matched(new) /\ new[k] \in Orders /\ new[k].observed \in Prices
    BY MatchedFinite
  <2>2. new[k].intended \in Prices
    BY <2>1 DEF Orders
  <2> QED BY <2>1, <2>2, CostIsInt DEF Intended, Met
<1>3. ASSUME NEW k \in A
      PROVE  Intended(new)[k] = Intended(orders)[k] /\ Met(new)[k] = Met(orders)[k]
  <2>1. k \in Matched(new)
    OBVIOUS
  <2> QED BY <2>1 DEF Intended, Met, Cost, Sign
<1>8. A \cap m = {}
  OBVIOUS
<1>4. Sum(Intended(new), A \cup m) = Sum(Intended(orders), A) + Sum(Intended(new), m)
  <2> HIDE DEF A
  <2> QED BY <1>1, <1>2, <1>3, <1>8, SumGrows
<1>5. Sum(Met(new), A \cup m) = Sum(Met(orders), A) + Sum(Met(new), m)
  <2> HIDE DEF A
  <2> QED BY <1>1, <1>2, <1>3, <1>8, SumGrows
<1>6. Matched(new) = A \cup m
  OBVIOUS
<1>7. paperPnl = Sum(Intended(orders), A) /\ shadowPnl = Sum(Met(orders), A)
  BY DEF ShadowInv, PnlInv
<1> HIDE DEF A
<1> QED BY <1>4, <1>5, <1>6, <1>7, Zenon

\* What a reconciliation makes of an order.
LEMMA OrderReconciled ==
    ASSUME ShadowInv, NEW prices, prices \in [DOMAIN prices -> Answers],
           NEW k \in 1 .. Len(orders),
           NEW o, o = Expired(IF k \in Due(prices)
                              THEN Observed(orders[k], prices[orders[k].symbol])
                              ELSE orders[k])
    PROVE  /\ o \in Orders
           /\ o.side = orders[k].side /\ o.intended = orders[k].intended
           /\ o.status \in {"MATCHED", "UNFILLABLE"} => o.age >= Delay
           /\ o.status = "EXPIRED" => o.age > Window
           /\ o.status = "MATCHED" => o.observed \in Prices
           /\ orders[k].status = "MATCHED" => o = orders[k]
           /\ orders[k].status # "MATCHED" /\ o.status = "MATCHED" =>
                 k \in Due(prices) /\ IsPrice(prices[orders[k].symbol])
           /\ k \in Due(prices) /\ IsPrice(prices[orders[k].symbol]) =>
                 /\ orders[k].status # "MATCHED" /\ o.status = "MATCHED"
                 /\ o.observed = prices[orders[k].symbol]
<1>1. orders[k] \in Orders
  BY LenProperties DEF ShadowInv
<1>2. /\ orders[k].status \in {"MATCHED", "UNFILLABLE"} => orders[k].age >= Delay
      /\ orders[k].status = "EXPIRED" => orders[k].age > Window
      /\ orders[k].status = "MATCHED" => orders[k].observed \in Prices
  BY DEF ShadowInv, NotResolvedEarly, Matched
<1>3. CASE k \notin Due(prices)
  <2>1. o = IF orders[k].status = "PENDING" /\ orders[k].age > Window
            THEN [orders[k] EXCEPT !.status = "EXPIRED"] ELSE orders[k]
    BY <1>3 DEF Expired
  <2> QED BY <1>1, <1>2, <1>3, <2>1 DEF Orders
<1>4. CASE k \in Due(prices)
  <2> DEFINE p == prices[orders[k].symbol]
  <2>1. /\ orders[k].status = "PENDING" /\ orders[k].age >= Delay
        /\ p \in Answers
    BY <1>4 DEF Due, Pending
  <2>2. CASE IsPrice(p)
    <3>1. o = [orders[k] EXCEPT !.status = "MATCHED", !.observed = p]
      BY <1>4, <1>1, <2>2 DEF Expired, Observed, Orders
    <3>2. p \in Prices
      BY <2>1, <2>2 DEF Answers, IsPrice
    <3> HIDE DEF p
    <3>3. /\ o \in Orders /\ o.status = "MATCHED" /\ o.observed = p
          /\ o.side = orders[k].side /\ o.intended = orders[k].intended
          /\ o.age = orders[k].age
      BY <1>1, <3>1, <3>2 DEF Orders
    <3> QED BY <1>4, <2>1, <2>2, <3>2, <3>3 DEF p
  <2>3. CASE ~ IsPrice(p)
    <3>1. o = [orders[k] EXCEPT !.status = "UNFILLABLE"]
      BY <1>4, <1>1, <2>3 DEF Expired, Observed, Orders
    <3>2. /\ o \in Orders /\ o.status = "UNFILLABLE"
          /\ o.side = orders[k].side /\ o.intended = orders[k].intended
          /\ o.age = orders[k].age
      BY <1>1, <3>1 DEF Orders
    <3> QED BY <2>1, <2>3, <3>2
  <2> QED BY <2>2, <2>3
<1> QED BY <1>3, <1>4

LEMMA ReconcileKeeps ==
    ASSUME ShadowInv, NEW prices, prices \in [DOMAIN prices -> Answers],
           Reconcile(prices), asked' \subseteq Symbols
    PROVE  ShadowInv'
<1> DEFINE due == Due(prices)
           m == {k \in due : IsPrice(prices[orders[k].symbol])}
           n == Len(orders)
           at(k) == Expired(IF k \in due
                            THEN Observed(orders[k], prices[orders[k].symbol])
                            ELSE orders[k])
<1>1. /\ orders' = [k \in 1 .. n |-> at(k)]
      /\ paperPnl' = paperPnl + Legs([k \in m |-> orders[k].intended], m)
      /\ shadowPnl' = shadowPnl + Legs([k \in m |-> prices[orders[k].symbol]], m)
  BY DEF Reconcile
<1>2. n \in Nat
  BY LenProperties DEF ShadowInv
<1>3. ASSUME NEW k \in 1 .. n
      PROVE  /\ orders'[k] \in Orders
             /\ orders'[k].side = orders[k].side
             /\ orders'[k].intended = orders[k].intended
             /\ orders'[k].status \in {"MATCHED", "UNFILLABLE"} =>
                    orders'[k].age >= Delay
             /\ orders'[k].status = "EXPIRED" => orders'[k].age > Window
             /\ orders'[k].status = "MATCHED" => orders'[k].observed \in Prices
             /\ orders[k].status = "MATCHED" => orders'[k] = orders[k]
             /\ orders[k].status # "MATCHED" /\ orders'[k].status = "MATCHED" =>
                   k \in m
             /\ k \in m => /\ orders[k].status # "MATCHED"
                           /\ orders'[k].status = "MATCHED"
                           /\ orders'[k].observed = prices[orders[k].symbol]
  <2>1. orders'[k] = at(k)
    BY <1>1
  <2> HIDE DEF at
  <2>2. k \in m <=> k \in due /\ IsPrice(prices[orders[k].symbol])
    OBVIOUS
  <2> HIDE DEF m
  <2> QED BY <2>1, <2>2, OrderReconciled DEF at
<1> HIDE DEF at
<1>4. /\ orders' \in Seq(Orders) /\ Len(orders') = n
      /\ \A k \in 1 .. n : orders'[k] \in Orders
  <2>1. \A k \in 1 .. n : at(k) \in Orders
    BY <1>1, <1>3
  <2>2. [k \in 1 .. n |-> at(k)] \in Seq(Orders)
    BY <1>2, <2>1, IsASeq
  <2>3. DOMAIN orders' = 1 .. n
    BY <1>1
  <2>4. Len(orders') = n
    BY <1>1, <1>2, <2>2, <2>3
  <2> QED BY <1>1, <1>3, <2>2, <2>4
<1>5. m \subseteq 1 .. n
  BY DEF Due, Pending
<1>6. /\ Matched(orders') = Matched(orders) \cup m
      /\ m \cap Matched(orders) = {}
  BY <1>3, <1>4, <1>5 DEF Matched
<1>7. \A k \in Matched(orders') : orders'[k].observed \in Prices
  BY <1>3, <1>4 DEF Matched
<1>8. NotResolvedEarly'
  BY <1>3, <1>4 DEF NotResolvedEarly
<1>9. /\ Sum(Intended(orders'), Matched(orders'))
            = paperPnl + Sum(Intended(orders'), m)
      /\ Sum(Met(orders'), Matched(orders'))
            = shadowPnl + Sum(Met(orders'), m)
  <2>1. \A k \in Matched(orders) : orders'[k] = orders[k]
    BY <1>3 DEF Matched
  <2> HIDE DEF m
  <2> QED BY <1>4, <1>6, <1>7, <2>1, MatchesAreAdded
<1>10. IsFiniteSet(m)
  <2>1. IsFiniteSet(1 .. n) /\ m \in SUBSET (1 .. n)
    BY <1>2, <1>5, FS_Interval
  <2> HIDE DEF m, n
  <2> QED BY <2>1, FS_Subset
<1>11. Legs([k \in m |-> orders[k].intended], m) = Sum(Intended(orders'), m)
  <2> DEFINE price == [k \in m |-> orders[k].intended]
             f == [k \in m |-> Cost(orders[k], price[k])]
  <2>1. Legs(price, m) = Sum(f, m)
    <3> HIDE DEF price, m
    <3> QED BY LegsAreCosts
  <2>2. ASSUME NEW k \in m PROVE f[k] = Intended(orders')[k]
    <3>1. k \in Matched(orders') /\ orders'[k].side = orders[k].side
          /\ orders'[k].intended = orders[k].intended
      BY <1>3, <1>5, <1>6
    <3>2. Intended(orders')[k] = Cost(orders'[k], orders'[k].intended)
      BY <3>1 DEF Intended
    <3>3. f[k] = Cost(orders[k], orders[k].intended)
      OBVIOUS
    <3> QED BY <3>1, <3>2, <3>3 DEF Cost, Sign
  <2>3. Sum(f, m) = Sum(Intended(orders'), m)
    <3> HIDE DEF f, m
    <3> QED BY <1>10, <2>2, SumAgrees
  <2> QED BY <2>1, <2>3
<1>12. Legs([k \in m |-> prices[orders[k].symbol]], m) = Sum(Met(orders'), m)
  <2> DEFINE price == [k \in m |-> prices[orders[k].symbol]]
             f == [k \in m |-> Cost(orders[k], price[k])]
  <2>1. Legs(price, m) = Sum(f, m)
    <3> HIDE DEF price, m
    <3> QED BY LegsAreCosts
  <2>2. ASSUME NEW k \in m PROVE f[k] = Met(orders')[k]
    <3>1. k \in Matched(orders') /\ orders'[k].side = orders[k].side
          /\ orders'[k].observed = prices[orders[k].symbol]
      BY <1>3, <1>5, <1>6
    <3>2. Met(orders')[k] = Cost(orders'[k], orders'[k].observed)
      BY <3>1 DEF Met
    <3>3. f[k] = Cost(orders[k], prices[orders[k].symbol])
      OBVIOUS
    <3> QED BY <3>1, <3>2, <3>3 DEF Cost, Sign
  <2>3. Sum(f, m) = Sum(Met(orders'), m)
    <3> HIDE DEF f, m
    <3> QED BY <1>10, <2>2, SumAgrees
  <2> QED BY <2>1, <2>3
<1>13. PnlInv'
  <2> HIDE DEF m
  <2> QED BY <1>1, <1>9, <1>11, <1>12 DEF PnlInv
<1> QED BY <1>4, <1>7, <1>8, <1>13 DEF ShadowInv

\* A step that resolves no order and changes neither the terms of one nor the
\* figures keeps the invariant.
LEMMA UnresolvedKeeps ==
    ASSUME ShadowInv, orders' \in Seq(Orders), asked' \subseteq Symbols,
           UNCHANGED <<paperPnl, shadowPnl>>,
           Len(orders') >= Len(orders),
           \A k \in 1 .. Len(orders') :
               \/ k <= Len(orders) /\ orders'[k] = orders[k]
               \/ /\ orders'[k].status = "PENDING"
                  /\ k <= Len(orders) => orders[k].status = "PENDING"
    PROVE  ShadowInv'
<1>1. Len(orders) \in Nat /\ Len(orders') \in Nat
  BY LenProperties DEF ShadowInv
<1>2. Matched(orders') = Matched(orders) \cup {}
  BY <1>1 DEF Matched
<1>3. \A k \in Matched(orders) : k \in Matched(orders') /\ orders'[k] = orders[k]
  BY <1>1 DEF Matched
<1>4. \A k \in Matched(orders') : orders'[k].observed \in Prices
  BY <1>2, <1>3 DEF ShadowInv
<1>5. NotResolvedEarly'
  BY <1>1 DEF ShadowInv, NotResolvedEarly
<1>6. Sum(Intended(orders'), {}) = 0 /\ Sum(Met(orders'), {}) = 0
  BY SumStep, FS_EmptySet
<1>7. /\ Sum(Intended(orders'), Matched(orders')) = paperPnl + 0
      /\ Sum(Met(orders'), Matched(orders')) = shadowPnl + 0
  BY <1>2, <1>3, <1>4, <1>6, MatchesAreAdded
<1>8. paperPnl \in Int /\ shadowPnl \in Int
  <2>1. IsFiniteSet(Matched(orders))
    BY MatchedFinite DEF ShadowInv
  <2>2. \A k \in Matched(orders) :
           Intended(orders)[k] \in Int /\ Met(orders)[k] \in Int
    <3> SUFFICES ASSUME NEW k \in Matched(orders)
                 PROVE  Intended(orders)[k] \in Int /\ Met(orders)[k] \in Int
      OBVIOUS
    <3>1. orders[k] \in Orders /\ orders[k].observed \in Prices
      BY MatchedFinite DEF ShadowInv
    <3>2. orders[k].intended \in Prices
      BY <3>1 DEF Orders
    <3> QED BY <3>1, <3>2, CostIsInt DEF Intended, Met
  <2> QED BY <2>1, <2>2, SumTakes DEF ShadowInv, PnlInv
<1> QED BY <1>4, <1>5, <1>7, <1>8 DEF ShadowInv, PnlInv
-----------------------------------------------------------------------------
LEMMA RecordKeeps ==
    ASSUME ShadowInv, NEW n \in 0 .. 2, NEW intents \in [1 .. n -> Intents],
           NEW fails, RecordIntents(intents, fails)
    PROVE  ShadowInv'
<1> DEFINE new == [k \in 1 .. Len(intents) |-> NewOrder(intents[k])]
<1>1. /\ orders' = orders \o new /\ asked' = {}
      /\ UNCHANGED <<paperPnl, shadowPnl>>
  BY DEF RecordIntents, Go
<1>2. intents \in Seq(Intents) /\ Len(intents) \in Nat
  OBVIOUS
<1>3. \A k \in 1 .. Len(intents) : /\ NewOrder(intents[k]) \in Orders
                                   /\ NewOrder(intents[k]).status = "PENDING"
  <2> SUFFICES ASSUME NEW k \in 1 .. Len(intents)
               PROVE  /\ NewOrder(intents[k]) \in Orders
                      /\ NewOrder(intents[k]).status = "PENDING"
    OBVIOUS
  <2>1. intents[k] \in Intents
    BY <1>2, ElementOfSeq
  <2> QED BY <2>1 DEF NewOrder, Orders, Intents, Sides
<1>4. new \in Seq(Orders) /\ Len(new) = Len(intents)
      /\ \A k \in 1 .. Len(new) : new[k].status = "PENDING"
  <2>1. new \in Seq(Orders)
    BY <1>2, <1>3, IsASeq
  <2>2. Len(new) = Len(intents)
    BY <1>2, <2>1
  <2> QED BY <1>3, <2>1, <2>2
<1> HIDE DEF new
<1>5. orders \in Seq(Orders) /\ Len(orders) \in Nat /\ Len(new) \in Nat
  BY <1>4, LenProperties DEF ShadowInv
<1>6. /\ orders' \in Seq(Orders) /\ Len(orders') = Len(orders) + Len(new)
      /\ \A k \in 1 .. Len(orders) + Len(new) :
            orders'[k] = IF k <= Len(orders) THEN orders[k]
                         ELSE new[k - Len(orders)]
  BY <1>1, <1>4, <1>5, ConcatProperties
<1>7. \A k \in 1 .. Len(orders') :
         \/ k <= Len(orders) /\ orders'[k] = orders[k]
         \/ /\ orders'[k].status = "PENDING"
            /\ k <= Len(orders) => orders[k].status = "PENDING"
  BY <1>4, <1>5, <1>6
<1> QED BY <1>1, <1>5, <1>6, <1>7, UnresolvedKeeps

LEMMA ElapseKeeps ==
    ASSUME ShadowInv, Elapse
    PROVE  ShadowInv'
<1> DEFINE n == Len(orders)
           at(k) == IF k \in Pending /\ orders[k].age <= Window
                    THEN [orders[k] EXCEPT !.age = @ + 1] ELSE orders[k]
<1>1. /\ orders' = [k \in 1 .. n |-> at(k)]
      /\ UNCHANGED <<asked, paperPnl, shadowPnl>>
  BY DEF Elapse, control
<1>2. n \in Nat /\ \A k \in 1 .. n : orders[k] \in Orders
  BY LenProperties DEF ShadowInv
<1>3. \A k \in 1 .. n :
         /\ at(k) \in Orders
         /\ \/ at(k) = orders[k]
            \/ orders[k].status = "PENDING" /\ at(k).status = "PENDING"
  BY <1>2 DEF Orders, Pending
<1> HIDE DEF at
<1>4. orders' \in Seq(Orders) /\ Len(orders') = n
  <2>1. [k \in 1 .. n |-> at(k)] \in Seq(Orders)
    BY <1>2, <1>3, IsASeq
  <2> QED BY <1>1, <1>2, <2>1
<1>5. \A k \in 1 .. Len(orders') :
         \/ k <= Len(orders) /\ orders'[k] = orders[k]
         \/ /\ orders'[k].status = "PENDING"
            /\ k <= Len(orders) => orders[k].status = "PENDING"
  BY <1>1, <1>2, <1>3, <1>4
<1> QED BY <1>1, <1>2, <1>4, <1>5, UnresolvedKeeps DEF ShadowInv

\* The other steps leave the orders and the figures alone.
LEMMA BooksKept ==
    ASSUME ShadowInv, UNCHANGED books, asked' \subseteq Symbols
    PROVE  ShadowInv'
<1>1. UNCHANGED <<orders, paperPnl, shadowPnl>>
  BY DEF books
<1>2. Len(orders) \in Nat
  BY LenProperties DEF ShadowInv
<1> QED BY <1>1, <1>2, UnresolvedKeeps DEF ShadowInv

THEOREM ShadowInvariant == STSpec => []ShadowInv
<1>1. STInit => ShadowInv
  <2> SUFFICES ASSUME STInit PROVE ShadowInv
    OBVIOUS
  <2>1. orders = <<>> /\ asked = {} /\ paperPnl = 0 /\ shadowPnl = 0
    BY DEF STInit
  <2>2. orders \in Seq(Orders) /\ Len(orders) = 0 /\ Matched(orders) = {}
    BY <2>1 DEF Matched
  <2>3. Sum(Intended(orders), {}) = 0 /\ Sum(Met(orders), {}) = 0
    BY SumStep, FS_EmptySet
  <2> QED BY <2>1, <2>2, <2>3 DEF ShadowInv, PnlInv, NotResolvedEarly
<1>2. ShadowInv /\ [STNext]_stvars => ShadowInv'
  <2> SUFFICES ASSUME ShadowInv, [STNext]_stvars PROVE ShadowInv'
    OBVIOUS
  <2>1. CASE BeginTick
    BY <2>1, BooksKept DEF BeginTick, Go
  <2>2. CASE \E fails \in BOOLEAN : SignalsArrive(fails)
    BY <2>2, RecordKeeps DEF SignalsArrive
  <2>3. CASE AskPrices
    <3>1. \A k \in Pending : orders[k].symbol \in Symbols
      <4>1. \A k \in 1 .. Len(orders) : orders[k] \in Orders
        BY LenProperties DEF ShadowInv
      <4> QED BY <4>1 DEF Pending, Orders
    <3>2. asked' \subseteq Symbols /\ UNCHANGED books
      BY <2>3, <3>1 DEF AskPrices
    <3> QED BY <3>2, BooksKept
  <2>4. CASE PricesArrive
    <3>1. PICK got \in SUBSET asked \ {{}} :
               \E prices \in [got -> Answers] : Reconcile(prices)
      BY <2>4 DEF PricesArrive
    <3>3. PICK prices \in [got -> Answers] : Reconcile(prices)
      BY <3>1
    <3>2. prices \in [DOMAIN prices -> Answers] /\ asked' = {}
      BY <2>4 DEF PricesArrive, Go
    <3> QED BY <3>3, <3>2, ReconcileKeeps
  <2>5. CASE NoPricesArrive \/ Wake
    BY <2>5, BooksKept DEF NoPricesArrive, Wake, Go
  <2>6. CASE Stop
    BY <2>6, BooksKept DEF Stop, ShadowInv
  <2>7. CASE Elapse
    BY <2>7, ElapseKeeps
  <2>8. CASE SessionChanges \/ (KSNext /\ UNCHANGED <<regular, control, books>>)
    BY <2>8, BooksKept DEF SessionChanges, control, ShadowInv
  <2>9. CASE UNCHANGED stvars
    BY <2>9, BooksKept DEF stvars, control, ShadowInv
  <2> QED BY <2>1, <2>2, <2>3, <2>4, <2>5, <2>6, <2>7, <2>8, <2>9
          DEF STNext, Loop, World
<1> QED BY <1>1, <1>2, PTL DEF STSpec

\* Whatever matched, expired or stayed open, and in whatever order, the profit
\* figures are sums over exactly the matched orders.
THEOREM FiguresFromMatches == STSpec => []PnlFromMatches
BY ShadowInvariant, PnlInvIsPnl, PTL DEF ShadowInv

\* No order is compared before the delay or given up before the window ends.
THEOREM ResolvedInTime == STSpec => []NotResolvedEarly
BY ShadowInvariant, PTL DEF ShadowInv
=============================================================================
