---------------------------- MODULE MarketProofs ----------------------------
(***************************************************************************)
(* Proofs about the market as the bot sees it and what it makes of it: the  *)
(* bars and the page of the dashboard (MarketData), the news and the        *)
(* reviews of the paper trading loop (PaperTrading), and the way from a     *)
(* feature row to the verdict on a signal (DecisionPath).                   *)
(***************************************************************************)
EXTENDS MarketData, PaperTrading, DecisionPath, SumLemmas

-----------------------------------------------------------------------------
(* The greatest and the least element of a set of bars. *)

\* A set of positive numbers up to n that is not empty has a greatest element,
\* which is what Max chooses.
LEMMA MaxChosen ==
    ASSUME NEW n \in Nat, NEW S \in SUBSET (1 .. n), S # {}
    PROVE  Max(S) \in S /\ \A t \in S : t <= Max(S)
<1> DEFINE D == {n - t : t \in S}
<1>1. D \in SUBSET Nat /\ D # {}
  OBVIOUS
<1>2. PICK d \in D : \A e \in D : d <= e
  <2> HIDE DEF D
  <2> QED BY <1>1, LeastElement
<1>3. PICK m \in S : d = n - m
  BY <1>2
<1>4. \A t \in S : m >= t
  <2> TAKE t \in S
  <2>1. n - m <= n - t
    BY <1>2, <1>3
  <2> QED BY <2>1
<1> HIDE DEF D
<1>5. \E x \in S : \A y \in S : x >= y
  BY <1>4
<1>6. Max(S) \in S /\ \A t \in S : Max(S) >= t
  BY <1>5, Zenon DEF Max
<1> QED BY <1>6

LEMMA MinChosen ==
    ASSUME NEW S \in SUBSET Nat, S # {}
    PROVE  Min(S) \in S /\ \A t \in S : Min(S) <= t
<1>1. \E x \in S : \A y \in S : x <= y
  BY LeastElement
<1> QED BY <1>1, Zenon DEF Min
-----------------------------------------------------------------------------
(* The feed. *)

\* The service has the bars from the first to the newest.
FeedInv ==
    /\ Now \in Nat \ {0}
    /\ bars \in [1 .. Now -> [open : Prices, close : Prices]]
    /\ up \in BOOLEAN

\* The newest of the bars from 1 to n is n.
LEMMA NewestBar ==
    ASSUME NEW n \in Nat \ {0}, NEW D, D = 1 .. n
    PROVE  (CHOOSE t \in D : \A other \in D : other <= t) = n
<1>1. n \in D /\ \A other \in D : other <= n
  OBVIOUS
<1>2. \A t \in D : (\A other \in D : other <= t) => t = n
  <2> SUFFICES ASSUME NEW t \in D, \A other \in D : other <= t PROVE t = n
    OBVIOUS
  <2>1. n <= t /\ t <= n /\ t \in Nat
    BY <1>1
  <2> QED BY <2>1
<1> QED BY <1>1, <1>2, Zenon

LEMMA FeedInitially == FeedInit => FeedInv /\ Now = 1
<1> SUFFICES ASSUME FeedInit PROVE FeedInv /\ Now = 1
  OBVIOUS
<1>1. PICK p \in Prices : bars = [t \in {1} |-> Bar(p, p)]
  BY DEF FeedInit
<1>2. DOMAIN bars = 1 .. 1
  BY <1>1
<1>3. Now = 1
  BY <1>2, NewestBar DEF Now
<1> QED BY <1>1, <1>3 DEF FeedInv, FeedInit, Bar

\* A step of the market only touches the newest bar, of which it leaves the
\* open alone, or adds one.
LEMMA FeedStep ==
    ASSUME FeedInv, FeedNext
    PROVE  /\ FeedInv'
           /\ Now' \in {Now, Now + 1}
           /\ \A t \in 1 .. Now : bars'[t].open = bars[t].open
           /\ \A t \in 1 .. Now - 1 : bars'[t] = bars[t]
<1>1. CASE Trade
  <2>1. PICK p \in Prices : bars' = [bars EXCEPT ![Now].close = p]
    BY <1>1 DEF Trade
  <2>2. DOMAIN bars' = 1 .. Now
    BY <2>1 DEF FeedInv
  <2>3. Now' = Now
    BY <2>2, NewestBar DEF Now, FeedInv
  <2> QED BY <1>1, <2>1, <2>3 DEF FeedInv, Trade
<1>2. CASE NewBar
  <2>1. PICK p \in Prices :
            bars' = [t \in DOMAIN bars \cup {Now + 1} |->
                        IF t = Now + 1 THEN Bar(p, p) ELSE bars[t]]
    BY <1>2 DEF NewBar
  <2>2. DOMAIN bars' = 1 .. Now + 1 /\ Now + 1 \in Nat \ {0}
    BY <2>1 DEF FeedInv
  <2>3. Now' = Now + 1
    BY <2>2, NewestBar DEF Now
  <2> QED BY <1>2, <2>1, <2>2, <2>3 DEF FeedInv, NewBar, Bar
<1>3. CASE Connection
  <2>1. Now' = Now
    BY <1>3 DEF Now, Connection
  <2> QED BY <1>3, <2>1 DEF FeedInv, Connection
<1> QED BY <1>1, <1>2, <1>3 DEF FeedNext
-----------------------------------------------------------------------------
(* The store. *)

\* The opens in the table are those of the market.
TableInv ==
    /\ stored = [t \in DOMAIN stored |-> stored[t]]
    /\ DOMAIN stored \subseteq 1 .. Now
    /\ \A t \in DOMAIN stored : stored[t].open = bars[t].open

\* A call asks from the newest stored bar or a later start, and of what it has
\* been answered only the last bar may have changed since.
UpdateInv ==
    call # None =>
        /\ call = [start |-> call.start, from |-> call.from, to |-> call.to,
                   failed |-> call.failed, frame |-> call.frame]
        /\ call.start \in Nat \ {0}
        /\ call.from = FetchStart(call.start)
        /\ call.from \in 1 .. call.to
        /\ call.to \in 1 .. Now
        /\ call.frame # None =>
              /\ DOMAIN call.frame = call.from .. call.to
              /\ \A t \in call.from .. call.to : call.frame[t].open = bars[t].open
              /\ \A t \in call.from .. call.to - 1 : call.frame[t] = bars[t]

StoreInv == TableInv /\ UpdateInv /\ FinalBehindNewest /\ NoJumpStored

LEMMA Within ==
    ASSUME NEW from, NEW to, NEW n \in Nat, to \in 1 .. n, from \in 1 .. to
    PROVE  /\ \A t \in from .. to : t \in 1 .. n
           /\ \A t \in from .. to - 1 : t \in 1 .. n - 1
OBVIOUS

LEMMA StoreInitially == FeedInit /\ StoreInit => StoreInv
<1> SUFFICES ASSUME FeedInit, StoreInit PROVE StoreInv
  OBVIOUS
<1>1. DOMAIN stored = {} /\ stored = [t \in DOMAIN stored |-> stored[t]]
  BY DEF StoreInit
<1>2. TableInv
  BY <1>1 DEF TableInv
<1>3. UpdateInv
  BY DEF UpdateInv, StoreInit
<1>4. FinalBehindNewest /\ NoJumpStored
  BY <1>1, Zenon DEF FinalBehindNewest, NoJumpStored
<1> QED BY <1>2, <1>3, <1>4 DEF StoreInv

\* Where a call asks from: not before the newest stored bar, and from a later
\* one only if it starts there.
LEMMA FetchStartIs ==
    ASSUME FeedInv, TableInv, NEW start \in Nat \ {0}
    PROVE  /\ FetchStart(start) \in Nat \ {0}
           /\ \A t \in DOMAIN stored : t <= FetchStart(start)
           /\ FetchStart(start) \in DOMAIN stored \/ FetchStart(start) = start
<1>1. CASE DOMAIN stored = {}
  BY <1>1 DEF FetchStart
<1>2. CASE DOMAIN stored # {}
  <2> DEFINE D == DOMAIN stored
  <2>1. D \in SUBSET (1 .. Now) /\ Now \in Nat /\ D # {}
    BY <1>2 DEF TableInv, FeedInv
  <2> HIDE DEF D
  <2>2. Max(D) \in D /\ \A t \in D : t <= Max(D)
    BY <2>1, MaxChosen
  <2> DEFINE newest == Max(D)
  <2>3. newest \in Nat \ {0}
    <3>1. newest \in 1 .. Now
      BY <2>1, <2>2, Zenon
    <3> HIDE DEF newest
    <3> QED BY <2>1, <3>1
  <2>4. FetchStart(start) = Max({start, newest})
    BY <1>2 DEF FetchStart, D
  <2> HIDE DEF newest
  <2>5. Max({start, newest}) \in {start, newest}
        /\ \A t \in {start, newest} : t <= Max({start, newest})
    <3> DEFINE n == start + newest
    <3>1. n \in Nat /\ {start, newest} \in SUBSET (1 .. n) /\ {start, newest} # {}
      BY <2>3
    <3> HIDE DEF n
    <3> QED BY <3>1, MaxChosen
  <2>6. Max({start, newest}) \in Nat \ {0} /\ newest <= Max({start, newest})
    BY <2>3, <2>5
  <2>7. newest \in D /\ \A t \in D : t \in Nat /\ t <= newest
    BY <2>1, <2>2 DEF newest
  <2>8. \A t \in D : t <= FetchStart(start)
    BY <2>3, <2>4, <2>6, <2>7
  <2> QED BY <2>4, <2>5, <2>6, <2>7, <2>8 DEF D
<1> QED BY <1>1, <1>2

\* The market moves on under the table and the call.
LEMMA StoreFeedStep ==
    ASSUME FeedInv, StoreInv, FeedNext, UNCHANGED storevars
    PROVE  StoreInv'
<1> USE DEF storevars
<1>1. /\ FeedInv' /\ Now' \in {Now, Now + 1} /\ Now \in Nat \ {0}
      /\ \A t \in 1 .. Now : bars'[t].open = bars[t].open
      /\ \A t \in 1 .. Now - 1 : bars'[t] = bars[t]
  BY FeedStep DEF FeedInv
<1>2. TableInv'
  <2>1. DOMAIN stored \subseteq 1 .. Now' /\ DOMAIN stored \subseteq 1 .. Now
    BY <1>1 DEF StoreInv, TableInv
  <2>2. \A t \in DOMAIN stored : stored[t].open = bars'[t].open
    BY <1>1, <2>1 DEF StoreInv, TableInv
  <2> QED BY <2>1, <2>2 DEF StoreInv, TableInv
<1>3. UpdateInv'
  <2> SUFFICES ASSUME call # None PROVE UpdateInv'
    BY DEF UpdateInv
  <2>1. FetchStart(call.start)' = FetchStart(call.start)
    BY DEF FetchStart
  <2>2. /\ call = [start |-> call.start, from |-> call.from, to |-> call.to,
                   failed |-> call.failed, frame |-> call.frame]
        /\ call.start \in Nat \ {0} /\ call.from = FetchStart(call.start)
        /\ call.from \in 1 .. call.to /\ call.to \in 1 .. Now
    BY DEF StoreInv, UpdateInv
  <2>3. call.to \in 1 .. Now'
    BY <1>1, <2>2
  <2>4. call.frame # None =>
            /\ DOMAIN call.frame = call.from .. call.to
            /\ \A t \in call.from .. call.to : call.frame[t].open = bars'[t].open
            /\ \A t \in call.from .. call.to - 1 : call.frame[t] = bars'[t]
    <3> SUFFICES ASSUME call.frame # None
                 PROVE  /\ DOMAIN call.frame = call.from .. call.to
                        /\ \A t \in call.from .. call.to : call.frame[t].open = bars'[t].open
                        /\ \A t \in call.from .. call.to - 1 : call.frame[t] = bars'[t]
      OBVIOUS
    <3>1. /\ DOMAIN call.frame = call.from .. call.to
          /\ \A t \in call.from .. call.to : call.frame[t].open = bars[t].open
          /\ \A t \in call.from .. call.to - 1 : call.frame[t] = bars[t]
      BY DEF StoreInv, UpdateInv
    <3>2. /\ \A t \in call.from .. call.to : t \in 1 .. Now
          /\ \A t \in call.from .. call.to - 1 : t \in 1 .. Now - 1
      BY <1>1, <2>2, Within
    <3> QED BY <1>1, <3>1, <3>2
  <2> QED BY <2>1, <2>2, <2>3, <2>4 DEF UpdateInv
<1>4. FinalBehindNewest'
  <2> SUFFICES ASSUME NEW t \in DOMAIN stored,
                      {u \in DOMAIN stored : u > t} # {},
                      Min({u \in DOMAIN stored : u > t}) \notin begun
               PROVE  stored[t] = bars'[t]
    BY Zenon DEF FinalBehindNewest
  <2>1. stored[t] = bars[t]
    BY Zenon DEF StoreInv, FinalBehindNewest
  <2>2. t \in 1 .. Now - 1
    BY <1>1 DEF StoreInv, TableInv
  <2> QED BY <1>1, <2>1, <2>2
<1>5. NoJumpStored'
  BY DEF StoreInv, NoJumpStored
<1> QED BY <1>2, <1>3, <1>4, <1>5 DEF StoreInv

\* What validation lets through has no jump in it.
LEMMA TradableFrame ==
    ASSUME NEW frame, NEW spoilt, Tradable(frame, spoilt), NEW t \in DOMAIN frame,
           t - 1 \in DOMAIN frame
    PROVE  ~Jumps(frame[t - 1], frame[t])
BY Zenon DEF Tradable

\* Only the open of the later bar and the close of the earlier one count.
LEMMA JumpsIsOfOpens ==
    ASSUME NEW before, NEW first, NEW second, first.open = second.open
    PROVE  Jumps(before, first) = Jumps(before, second)
BY Zenon DEF Jumps

LEMMA StoreKeepsStore ==
    ASSUME FeedInv, StoreInv, Store, UNCHANGED feedvars
    PROVE  StoreInv'
<1> USE DEF feedvars
<1>1. Now' = Now /\ Now \in Nat
  BY DEF Now, FeedInv
<1>2. PICK spoilt \in BOOLEAN :
          IF Tradable(call.frame, spoilt)
          THEN stored' = Upsert(call.frame) /\ begun' = begun \cup {call.start}
          ELSE UNCHANGED <<stored, begun>>
  BY DEF Store
<1>3. call # None /\ call.frame # None /\ call' = None
  BY DEF Store
<1>4. UpdateInv'
  BY <1>3 DEF UpdateInv
<1>5. CASE ~Tradable(call.frame, spoilt)
  <2>1. UNCHANGED <<stored, begun>>
    BY <1>2, <1>5
  <2>2. TableInv'
    BY <1>1, <2>1 DEF StoreInv, TableInv
  <2>3. FinalBehindNewest' /\ NoJumpStored'
    BY <2>1 DEF StoreInv, FinalBehindNewest, NoJumpStored
  <2> QED BY <1>4, <2>2, <2>3 DEF StoreInv
<1>6. CASE Tradable(call.frame, spoilt)
  <2> DEFINE from == call.from
             to == call.to
             frame == call.frame
             D == DOMAIN stored
  <2>1. stored' = Upsert(frame) /\ begun' = begun \cup {call.start}
    BY <1>2, <1>6
  <2>2. /\ call.start \in Nat \ {0} /\ from = FetchStart(call.start)
        /\ from \in 1 .. to /\ to \in 1 .. Now
        /\ DOMAIN frame = from .. to
        /\ \A t \in from .. to : frame[t].open = bars[t].open
        /\ \A t \in from .. to - 1 : frame[t] = bars[t]
    BY <1>3 DEF StoreInv, UpdateInv
  <2>3. (\A t \in D : t <= from) /\ (from \in D \/ from = call.start)
    BY <2>2, FetchStartIs DEF StoreInv
  <2>4. D \subseteq 1 .. Now /\ \A t \in D : stored[t].open = bars[t].open
    BY DEF StoreInv, TableInv
  <2>5. from \in Nat /\ to \in Nat /\ from <= to
    BY <1>1, <2>2
  <2>6. \A t \in D : t < from \/ t = from
    <3>1. \A t \in D : t \in Nat
      BY <2>4
    <3> QED BY <2>3, <2>5, <3>1
  <2>7. /\ DOMAIN stored' = D \cup (from .. to)
        /\ stored' = [t \in DOMAIN stored' |-> stored'[t]]
        /\ \A t \in from .. to : stored'[t] = frame[t]
        /\ \A t \in D : t < from => stored'[t] = stored[t]
    BY <2>1, <2>2, <2>5 DEF Upsert
  <2>8. \A t \in DOMAIN stored' : t \in from .. to \/ (t \in D /\ t < from)
    BY <2>5, <2>6, <2>7
  <2>9. \A t \in DOMAIN stored' : t \in Nat /\ t <= to
    <3>1. \A t \in D : t \in Nat
      BY <2>4
    <3> QED BY <2>5, <2>8, <3>1
  <2> HIDE DEF from, to, frame, D
  <2>10. TableInv'
    <3>1. DOMAIN stored' \subseteq 1 .. Now'
      BY <1>1, <2>2, <2>4, <2>7, Within
    <3>2. \A t \in DOMAIN stored' : stored'[t].open = bars'[t].open
      BY <2>2, <2>4, <2>7, <2>8
    <3> QED BY <2>7, <3>1, <3>2 DEF TableInv
  <2>11. FinalBehindNewest'
    <3> SUFFICES ASSUME NEW t \in DOMAIN stored', NEW later,
                        later = {u \in DOMAIN stored' : u > t},
                        later # {}, Min(later) \notin begun'
                 PROVE  stored'[t] = bars[t]
      BY Zenon DEF FinalBehindNewest
    <3>1. t < to /\ t \in Nat
      <4>1. PICK u \in later : TRUE
        OBVIOUS
      <4> QED BY <2>5, <2>9, <4>1
    <3>2. later \in SUBSET Nat
      BY <2>9
    <3>3. Min(later) \in later /\ \A u \in later : Min(later) <= u
      BY <3>2, MinChosen
    <3>4. CASE t \in from .. to
      <4>1. t \in from .. to - 1
        BY <2>5, <3>1, <3>4
      <4> QED BY <2>2, <2>7, <3>4, <4>1 DEF frame, from, to
    <3>5. CASE t \in D /\ t < from
      <4> DEFINE before == {u \in D : u > t}
      <4>1. CASE before = {}
        <5>1. from \notin D /\ from = call.start
          BY <2>3, <3>5, <4>1
        <5>2. \A u \in later : u >= from
          BY <2>5, <2>7, <2>8, <4>1
        <5>3. from \in later
          BY <2>5, <2>7, <3>5
        <5>4. Min(later) = from
          <6> DEFINE m == Min(later)
          <6>1. m \in Nat /\ m >= from /\ m <= from
            BY <3>2, <3>3, <5>2, <5>3
          <6> HIDE DEF m
          <6>2. m = from
            BY <2>5, <6>1
          <6> QED BY <6>2 DEF m
        <5> QED BY <2>1, <5>1, <5>4
      <4>2. CASE before # {}
        <5>1. before \in SUBSET Nat
          <6>1. \A u \in D : u \in Nat
            BY <2>4
          <6> QED BY <6>1
        <5>2. Min(before) \in before /\ \A u \in before : Min(before) <= u
          <6> HIDE DEF before
          <6> QED BY <4>2, <5>1, MinChosen
        <5> DEFINE a == Min(before)
                   b == Min(later)
        <5>3. a \in D /\ a > t /\ a \in Nat /\ b \in Nat /\ a <= from
          BY <2>4, <2>3, <3>2, <3>3, <5>1, <5>2
        <5>4. a \in later
          BY <2>7, <5>3
        <5>5. b <= a
          BY <3>3, <5>4
        <5>6. a <= b
          <6>1. b \in DOMAIN stored' /\ b > t
            BY <3>3
          <6>2. CASE b \in from .. to
            <7> HIDE DEF a, b
            <7> QED BY <2>5, <5>3, <6>2
          <6>3. CASE b \in D
            <7>1. b \in before
              BY <6>1, <6>3
            <7> QED BY <5>2, <7>1
          <6> QED BY <2>8, <6>1, <6>2, <6>3
        <5>7. a = b
          <6> HIDE DEF a, b
          <6> QED BY <5>3, <5>5, <5>6
        <5>8. Min(before) \notin begun
          BY <2>1, <5>7
        <5>9. stored[t] = bars[t]
          BY <3>5, <4>2, <5>8, Zenon DEF StoreInv, FinalBehindNewest, D
        <5> QED BY <2>7, <3>5, <5>9
      <4> QED BY <4>1, <4>2
    <3> QED BY <2>8, <3>4, <3>5
  <2>12. NoJumpStored'
    <3> SUFFICES ASSUME NEW t \in DOMAIN stored', t - 1 \in DOMAIN stored', t \notin begun'
                 PROVE  ~Jumps(stored'[t - 1], stored'[t])
      BY Zenon DEF NoJumpStored
    <3>1. t \notin begun /\ t # call.start
      BY <2>1
    <3>2. t \in Nat /\ t - 1 \in Nat
      BY <2>9
    <3>3. CASE t \in from .. to /\ t - 1 \in from .. to
      <4>1. ~Jumps(frame[t - 1], frame[t])
        BY <1>6, <2>2, <3>3, TradableFrame DEF frame, from, to
      <4> QED BY <2>7, <3>3, <4>1
    <3>4. CASE t - 1 \in D /\ t - 1 < from
      <4>1. t \in D
        <5>1. CASE t \in from .. to
          <6>1. t = from
            BY <2>5, <3>2, <3>4, <5>1
          <6> QED BY <2>3, <3>1, <6>1
        <5> QED BY <2>8, <5>1
      <4>2. ~Jumps(stored[t - 1], stored[t])
        BY <3>1, <3>4, <4>1, Zenon DEF StoreInv, NoJumpStored, D
      <4>3. stored'[t].open = stored[t].open
        <5>1. CASE t \in from .. to
          BY <2>2, <2>4, <2>7, <4>1, <5>1 DEF frame, from, to, D
        <5>2. CASE t < from
          BY <2>7, <4>1, <5>2
        <5> QED BY <2>8, <5>1, <5>2
      <4>4. stored'[t - 1] = stored[t - 1]
        BY <2>7, <3>4
      <4> QED BY <4>2, <4>3, <4>4, JumpsIsOfOpens
    <3>5. CASE t - 1 \in from .. to /\ t \notin from .. to
      BY <2>5, <2>8, <3>2, <3>5
    <3> QED BY <2>8, <3>3, <3>4, <3>5
  <2> QED BY <1>4, <2>10, <2>11, <2>12 DEF StoreInv
<1> QED BY <1>5, <1>6

LEMMA Narrower ==
    ASSUME NEW from, NEW to, NEW n \in Nat, to \in 1 .. n, from \in 1 .. to
    PROVE  \A t \in from .. to - 1 : t \in from .. to
OBVIOUS

\* A call whose answer or count of failures is set.
LEMMA RecordChanges ==
    ASSUME NEW record, NEW value,
           record = [start |-> record.start, from |-> record.from, to |-> record.to,
                     failed |-> record.failed, frame |-> record.frame]
    PROVE  /\ [record EXCEPT !.frame = value]
                = [start |-> record.start, from |-> record.from, to |-> record.to,
                   failed |-> record.failed, frame |-> value]
           /\ [record EXCEPT !.failed = value]
                = [start |-> record.start, from |-> record.from, to |-> record.to,
                   failed |-> value, frame |-> record.frame]
<1> DEFINE a == record.start
           b == record.from
           c == record.to
           d == record.failed
           e == record.frame
<1>1. record = [start |-> a, from |-> b, to |-> c, failed |-> d, frame |-> e]
  OBVIOUS
<1> HIDE DEF a, b, c, d, e
<1>2. /\ [record EXCEPT !.frame = value]
            = [start |-> a, from |-> b, to |-> c, failed |-> d, frame |-> value]
      /\ [record EXCEPT !.failed = value]
            = [start |-> a, from |-> b, to |-> c, failed |-> value, frame |-> e]
  BY <1>1
<1> QED BY <1>2 DEF a, b, c, d, e

\* The call goes on, with an answer that is right or with none.
LEMMA SameUpdate ==
    ASSUME NEW failed, NEW frame, UNCHANGED <<stored, feedvars>>,
           call.start \in Nat \ {0}, call.from = FetchStart(call.start),
           call.from \in 1 .. call.to, call.to \in 1 .. Now,
           call' = [start |-> call.start, from |-> call.from, to |-> call.to,
                    failed |-> failed, frame |-> frame],
           frame # None =>
              /\ DOMAIN frame = call.from .. call.to
              /\ \A t \in call.from .. call.to : frame[t].open = bars[t].open
              /\ \A t \in call.from .. call.to - 1 : frame[t] = bars[t]
    PROVE  UpdateInv'
<1>1. /\ call'.start = call.start /\ call'.from = call.from /\ call'.to = call.to
      /\ call'.failed = failed /\ call'.frame = frame
      /\ call' = [start |-> call'.start, from |-> call'.from, to |-> call'.to,
                  failed |-> call'.failed, frame |-> call'.frame]
  OBVIOUS
<1>2. FetchStart(call.start)' = FetchStart(call.start)
  BY <1>1, Zenon DEF FetchStart
<1>3. Now' = Now /\ bars' = bars
  BY DEF Now, feedvars
<1> QED BY <1>1, <1>2, <1>3 DEF UpdateInv

LEMMA StoreMoves ==
    ASSUME FeedInv, StoreInv, StoreNext, UNCHANGED feedvars
    PROVE  StoreInv'
<1> USE DEF feedvars
<1>1. Now' = Now
  BY DEF Now
<1>2. ASSUME UNCHANGED <<stored, begun>>, UpdateInv' PROVE StoreInv'
  <2>1. TableInv'
    BY <1>1, <1>2 DEF StoreInv, TableInv
  <2>2. FinalBehindNewest' /\ NoJumpStored'
    BY <1>2 DEF StoreInv, FinalBehindNewest, NoJumpStored
  <2> QED BY <1>2, <2>1, <2>2 DEF StoreInv
<1>3. ASSUME UNCHANGED <<stored, begun>> PROVE \A s : FetchStart(s)' = FetchStart(s)
  BY <1>3 DEF FetchStart
<1>4. CASE BeginUpdate
  <2>1. PICK start \in Starts :
            /\ FetchStart(start) <= Now
            /\ call' = [start |-> start, from |-> FetchStart(start), to |-> Now,
                        failed |-> 0, frame |-> None]
    BY <1>4 DEF BeginUpdate
  <2>2. UNCHANGED <<stored, begun>>
    BY <1>4 DEF BeginUpdate
  <2>3. start \in Nat \ {0}
    BY StoreAssumption
  <2>4. FetchStart(start) \in Nat \ {0} /\ Now \in Nat \ {0}
    BY <2>3, FetchStartIs DEF StoreInv, FeedInv
  <2>5. FetchStart(start) \in 1 .. Now /\ Now \in 1 .. Now
    BY <2>1, <2>4
  <2>6. FetchStart(start)' = FetchStart(start)
    BY <1>3, <2>2
  <2>7. UpdateInv'
    BY <1>1, <2>1, <2>3, <2>5, <2>6 DEF UpdateInv
  <2> QED BY <1>2, <2>2, <2>7
<1>5. CASE Answer
  <2>1. /\ call # None
        /\ call' = [call EXCEPT !.frame = [t \in call.from .. call.to |-> bars[t]]]
        /\ UNCHANGED <<stored, begun>>
    BY <1>5 DEF Answer, Fetching
  <2>2. /\ call = [start |-> call.start, from |-> call.from, to |-> call.to,
                   failed |-> call.failed, frame |-> call.frame]
        /\ call.start \in Nat \ {0} /\ call.from = FetchStart(call.start)
        /\ call.from \in 1 .. call.to /\ call.to \in 1 .. Now
    BY <2>1 DEF StoreInv, UpdateInv
  <2> DEFINE answer == [t \in call.from .. call.to |-> bars[t]]
  <2>3. /\ DOMAIN answer = call.from .. call.to
        /\ \A t \in call.from .. call.to : answer[t].open = bars[t].open
        /\ \A t \in call.from .. call.to - 1 : answer[t] = bars[t]
    <3>1. Now \in Nat
      BY DEF FeedInv
    <3>2. \A t \in call.from .. call.to - 1 : t \in call.from .. call.to
      BY <2>2, <3>1, Narrower
    <3> QED BY <3>2
  <2>4. call' = [call EXCEPT !.frame = answer]
    BY <2>1
  <2> HIDE DEF answer
  <2>5. call' = [start |-> call.start, from |-> call.from, to |-> call.to,
                 failed |-> call.failed, frame |-> answer]
    BY <2>2, <2>4, RecordChanges
  <2>6. UpdateInv'
    BY <1>1, <1>3, <2>1, <2>2, <2>3, <2>5, SameUpdate
  <2> QED BY <1>2, <2>1, <2>6
<1>6. CASE FetchFails
  <2>1. UNCHANGED <<stored, begun>>
    BY <1>6 DEF FetchFails
  <2>2. CASE call' = None
    BY <1>2, <2>1, <2>2 DEF UpdateInv
  <2>3. CASE call' = [call EXCEPT !.failed = @ + 1]
    <3>1. call # None /\ call.frame = None
      BY <1>6 DEF FetchFails, Fetching
    <3>2. /\ call = [start |-> call.start, from |-> call.from, to |-> call.to,
                     failed |-> call.failed, frame |-> call.frame]
          /\ call.start \in Nat \ {0} /\ call.from = FetchStart(call.start)
          /\ call.from \in 1 .. call.to /\ call.to \in 1 .. Now
      BY <3>1 DEF StoreInv, UpdateInv
    <3>3. call' = [start |-> call.start, from |-> call.from, to |-> call.to,
                   failed |-> call.failed + 1, frame |-> None]
      BY <2>3, <3>1, <3>2, RecordChanges
    <3>4. UpdateInv'
      BY <2>1, <3>2, <3>3, SameUpdate
    <3> QED BY <1>2, <2>1, <3>4
  <2> QED BY <1>6, <2>2, <2>3 DEF FetchFails
<1>7. CASE Store
  BY <1>7, StoreKeepsStore
<1>8. CASE RollBack
  <2>1. UNCHANGED <<stored, begun>> /\ call' = None
    BY <1>8 DEF RollBack
  <2>2. UpdateInv'
    BY <2>1 DEF UpdateInv
  <2> QED BY <1>2, <2>1, <2>2
<1> QED BY <1>4, <1>5, <1>6, <1>7, <1>8 DEF StoreNext
-----------------------------------------------------------------------------
(* The page. *)

Values == Prices \cup {None}

\* Nothing was shown later than now, and what is shown now is shown now.
ShownInv ==
    /\ shown \in [Values -> Int]
    /\ \A v \in Values : shown[v] <= Now
    /\ shown[Feed] = Now

\* The market has shown a produced value after the question, a cached one after
\* its time stamp.
RequestsInv ==
    /\ request = [th \in Threads |-> request[th]]
    /\ \A th \in Threads :
          request[th] # None =>
              /\ request[th] = Request(request[th].asked, request[th].stage,
                                      request[th].value)
              /\ request[th].asked \in Int
              /\ request[th].asked <= Now
              /\ request[th].stage \in {"produced", "answered"} =>
                    request[th].value \in Values
              /\ request[th].stage = "produced" =>
                    shown[request[th].value] >= request[th].asked
              /\ request[th].stage = "answered" =>
                    shown[request[th].value] >= request[th].asked - Ttl

CacheInv ==
    cache # None =>
        /\ cache.stamp \in Int
        /\ cache.value \in Values
        /\ shown[cache.value] >= cache.stamp

PageInv == ShownInv /\ RequestsInv /\ CacheInv

LEMMA FeedIsValue == FeedInv => Feed \in Values
BY DEF FeedInv, Feed, Values, Last

LEMMA PageInitially == FeedInit /\ PageInit => PageInv
<1> SUFFICES ASSUME FeedInit, PageInit PROVE PageInv
  OBVIOUS
<1>1. FeedInv /\ Now = 1 /\ Feed \in Values /\ Ttl \in Nat \ {0}
  BY FeedInitially, FeedIsValue, TtlAssumption
<1>2. ShownInv
  BY <1>1 DEF PageInit, ShownInv, Values
<1>3. RequestsInv
  BY DEF PageInit, RequestsInv
<1>4. CacheInv
  BY DEF PageInit, CacheInv
<1> QED BY <1>2, <1>3, <1>4 DEF PageInv

\* The market moves on and is watched: everything is shown as late as before or
\* later.
LEMMA PageFeedStep ==
    ASSUME FeedInv, PageInv, FeedNext, Watch, UNCHANGED <<cache, request>>
    PROVE  PageInv'
<1> DEFINE now == Now
           next == Now'
           new == Feed'
<1>1. FeedInv' /\ now \in Nat /\ next \in Nat /\ now <= next
  BY FeedStep DEF FeedInv
<1>2. Feed \in Values /\ new \in Values
  <2>1. Feed' \in Values
    BY <1>1 DEF FeedInv, Feed, Values, Last
  <2> QED BY <2>1, FeedIsValue
<1>3. /\ shown \in [Values -> Int] /\ \A v \in Values : shown[v] <= now
      /\ shown' = [[shown EXCEPT ![Feed] = now] EXCEPT ![new] = next]
  BY DEF PageInv, ShownInv, Watch
<1> HIDE DEF now, next, new
<1>4. /\ shown' \in [Values -> Int]
      /\ \A v \in Values : shown'[v] <= next /\ shown[v] <= shown'[v]
      /\ shown'[new] = next
  BY <1>1, <1>2, <1>3
<1>5. ShownInv'
  BY <1>4 DEF ShownInv, next, new, Values
<1>6. RequestsInv'
  <2> SUFFICES ASSUME NEW th \in Threads, request[th] # None
               PROVE  /\ request[th].asked \in Int
                      /\ request[th].asked <= Now'
                      /\ request[th].stage = "produced" =>
                            shown'[request[th].value] >= request[th].asked
                      /\ request[th].stage = "answered" =>
                            shown'[request[th].value] >= request[th].asked - Ttl
    BY DEF RequestsInv, PageInv, Request
  <2> DEFINE a == request[th].asked
             v == request[th].value
             s == request[th].stage
  <2>1. /\ a \in Int /\ a <= now
        /\ s \in {"produced", "answered"} => v \in Values
        /\ s = "produced" => shown[v] >= a
        /\ s = "answered" => shown[v] >= a - Ttl
    BY DEF PageInv, RequestsInv, now
  <2> HIDE DEF a, v, s
  <2>2. v \in Values => shown[v] <= shown'[v] /\ shown[v] \in Int /\ shown'[v] \in Int
    BY <1>3, <1>4
  <2>3. Ttl \in Int
    BY TtlAssumption
  <2>4. /\ a \in Int /\ a <= next
        /\ s = "produced" => shown'[v] >= a
        /\ s = "answered" => shown'[v] >= a - Ttl
    BY <1>1, <2>1, <2>2, <2>3
  <2> QED BY <2>4 DEF a, v, s, next
<1>7. CacheInv'
  <2> SUFFICES ASSUME cache # None PROVE CacheInv'
    BY DEF CacheInv
  <2>1. cache.stamp \in Int /\ cache.value \in Values /\ shown[cache.value] >= cache.stamp
    BY DEF PageInv, CacheInv
  <2>2. shown'[cache.value] >= cache.stamp
    <3> DEFINE v == cache.value
               s == cache.stamp
    <3>1. v \in Values /\ s \in Int /\ shown[v] >= s
      BY <2>1
    <3> HIDE DEF v, s
    <3>2. shown'[v] >= s
      BY <1>3, <1>4, <3>1
    <3> QED BY <3>2 DEF v, s
  <2> QED BY <2>1, <2>2 DEF CacheInv, Values
<1> QED BY <1>5, <1>6, <1>7 DEF PageInv

\* What the invariant says of one request.
RequestIsSound(r) ==
    r # None =>
        /\ r = Request(r.asked, r.stage, r.value)
        /\ r.asked \in Int
        /\ r.asked <= Now
        /\ r.stage \in {"produced", "answered"} => r.value \in Values
        /\ r.stage = "produced" => shown[r.value] >= r.asked
        /\ r.stage = "answered" => shown[r.value] >= r.asked - Ttl

\* A step of one thread that leaves its request sound, and the cache.
LEMMA ThreadStep ==
    ASSUME FeedInv, PageInv, NEW th \in Threads, NEW r,
           UNCHANGED <<feedvars, shown>>, request' = [request EXCEPT ![th] = r],
           RequestIsSound(r), CacheInv'
    PROVE  PageInv'
<1>1. Now' = Now /\ Feed' = Feed
  BY DEF Now, Feed, Last, feedvars
<1>2. ShownInv'
  BY <1>1 DEF PageInv, ShownInv
<1>3. RequestsInv'
  <2>1. request = [other \in Threads |-> request[other]]
        /\ \A other \in Threads : RequestIsSound(request[other])
    BY DEF PageInv, RequestsInv, RequestIsSound
  <2>2. \A other \in Threads :
            request'[other] = IF other = th THEN r ELSE request[other]
    BY <2>1
  <2>3. request' = [other \in Threads |-> request'[other]]
    BY <2>1
  <2>4. \A other \in Threads : RequestIsSound(request'[other])
    BY <2>1, <2>2
  <2> QED BY <1>1, <2>3, <2>4 DEF RequestsInv, RequestIsSound
<1> QED BY <1>2, <1>3 DEF PageInv

LEMMA PageMoves ==
    ASSUME FeedInv, PageInv, PageNext, UNCHANGED feedvars
    PROVE  PageInv'
<1>1. PICK th \in Threads : Ask(th) \/ LookUp(th) \/ Produce(th) \/ Put(th) \/ Respond(th)
  BY DEF PageNext
<1> DEFINE r == request[th]
<1>2. RequestIsSound(r) /\ request = [other \in Threads |-> request[other]]
  BY DEF PageInv, RequestsInv, RequestIsSound
<1>3. Now \in Int /\ Ttl \in Nat
  BY TtlAssumption DEF FeedInv
<1>4. ASSUME UNCHANGED <<cache, shown>> PROVE CacheInv'
  BY <1>4 DEF PageInv, CacheInv
<1>5. CASE Ask(th)
  <2>1. request' = [request EXCEPT ![th] = Request(Now, "asked", None)]
        /\ UNCHANGED <<cache, shown>>
    BY <1>5 DEF Ask
  <2>2. RequestIsSound(Request(Now, "asked", None))
    BY <1>3 DEF RequestIsSound, Request
  <2> QED BY <1>4, <2>1, <2>2, ThreadStep
<1>6. CASE LookUp(th)
  <2>1. /\ r # None /\ UNCHANGED <<cache, shown>>
        /\ request' = [request EXCEPT ![th] =
                          IF Fresh(r.asked)
                          THEN Request(r.asked, "answered", cache.value)
                          ELSE Request(r.asked, "missed", None)]
    BY <1>2, <1>6 DEF LookUp
  <2>2. r.asked \in Int /\ r.asked <= Now
    BY <1>2, <2>1 DEF RequestIsSound
  <2>3. CASE Fresh(r.asked)
    <3> DEFINE a == r.asked
               s == cache.stamp
               v == cache.value
    <3>1. /\ s \in Int /\ v \in Values /\ shown[v] >= s
          /\ a - s < Ttl /\ shown[v] \in Int
      BY <2>3 DEF Fresh, PageInv, CacheInv, ShownInv
    <3>2. a \in Int /\ a <= Now
      BY <2>2
    <3> HIDE DEF a, s, v
    <3>3. shown[v] >= a - Ttl
      BY <1>3, <3>1, <3>2
    <3>4. RequestIsSound(Request(a, "answered", v))
      BY <3>1, <3>2, <3>3 DEF RequestIsSound, Request
    <3>5. request' = [request EXCEPT ![th] = Request(a, "answered", v)]
      BY <2>1, <2>3 DEF a, v
    <3> QED BY <1>4, <2>1, <3>4, <3>5, ThreadStep
  <2>4. CASE ~Fresh(r.asked)
    <3>1. RequestIsSound(Request(r.asked, "missed", None))
      BY <2>2 DEF RequestIsSound, Request
    <3> QED BY <1>4, <2>1, <2>4, <3>1, ThreadStep
  <2> QED BY <2>3, <2>4
<1>7. CASE Produce(th)
  <2>1. /\ r # None /\ UNCHANGED <<cache, shown>>
        /\ request' = [request EXCEPT ![th] = Request(r.asked, "produced", Feed)]
    BY <1>2, <1>7 DEF Produce
  <2>2. r.asked \in Int /\ r.asked <= Now
    BY <1>2, <2>1 DEF RequestIsSound
  <2>3. Feed \in Values /\ shown[Feed] = Now
    BY FeedIsValue DEF PageInv, ShownInv
  <2>4. RequestIsSound(Request(r.asked, "produced", Feed))
    BY <1>3, <2>2, <2>3 DEF RequestIsSound, Request
  <2> QED BY <1>4, <2>1, <2>4, ThreadStep
<1>8. CASE Put(th)
  <2>1. /\ r # None /\ r.stage = "produced" /\ UNCHANGED shown
        /\ cache' = [stamp |-> r.asked, value |-> r.value]
        /\ request' = [request EXCEPT ![th].stage = "answered"]
    BY <1>8 DEF Put
  <2>2. /\ r = Request(r.asked, r.stage, r.value)
        /\ r.asked \in Int /\ r.asked <= Now
        /\ r.value \in Values /\ shown[r.value] >= r.asked
        /\ shown[r.value] \in Int
    BY <1>2, <2>1 DEF RequestIsSound, PageInv, ShownInv
  <2>3. CacheInv'
    BY <2>1, <2>2 DEF CacheInv, Values
  <2>4. RequestIsSound(Request(r.asked, "answered", r.value))
    <3> DEFINE a == r.asked
               v == r.value
    <3>1. a \in Int /\ a <= Now /\ v \in Values /\ shown[v] >= a /\ shown[v] \in Int
      BY <2>2
    <3> HIDE DEF a, v
    <3>2. shown[v] >= a - Ttl
      BY <1>3, <3>1
    <3>3. RequestIsSound(Request(a, "answered", v))
      BY <3>1, <3>2 DEF RequestIsSound, Request
    <3> QED BY <3>3 DEF a, v
  <2>5. request' = [request EXCEPT ![th] = Request(r.asked, "answered", r.value)]
    <3>1. request' = [request EXCEPT ![th] = [r EXCEPT !.stage = "answered"]]
      BY <2>1
    <3>2. [r EXCEPT !.stage = "answered"] = Request(r.asked, "answered", r.value)
      <4> DEFINE a == r.asked
                 v == r.value
                 s == r.stage
      <4>1. r = [asked |-> a, stage |-> s, value |-> v]
        BY <2>2 DEF Request
      <4> HIDE DEF a, v, s, r
      <4>2. [r EXCEPT !.stage = "answered"]
              = [asked |-> a, stage |-> "answered", value |-> v]
        BY <4>1
      <4> QED BY <4>2 DEF a, v, Request
    <3> QED BY <3>1, <3>2
  <2> QED BY <2>1, <2>3, <2>4, <2>5, ThreadStep
<1>9. CASE Respond(th)
  <2>1. request' = [request EXCEPT ![th] = None] /\ UNCHANGED <<cache, shown>>
    BY <1>9 DEF Respond
  <2>2. RequestIsSound(None)
    BY DEF RequestIsSound
  <2> QED BY <1>4, <2>1, <2>2, ThreadStep
<1> QED BY <1>1, <1>5, <1>6, <1>7, <1>8, <1>9
-----------------------------------------------------------------------------
(* The theorems. *)

\* The store is sound whoever is at work; the page rests while the store works.
MarketInv ==
    /\ FeedInv
    /\ StoreInv
    /\ part = "store" => request = [th \in Threads |-> None]
    /\ part # "store" => PageInv

\* The invariant of the market and its two readers (market_data/historical.py,
\* api/routers/dashboard.py).
THEOREM MarketInvariant == MDSpec => []MarketInv
<1> USE DEF feedvars, storevars, pagevars
<1>1. MDInit => MarketInv
  BY FeedInitially, StoreInitially, PageInitially DEF MDInit, MarketInv, PageInit
<1>2. ASSUME MarketInv, [MDNext]_<<feedvars, storevars, pagevars, part>> PROVE MarketInv'
  <2>1. CASE StoreSteps /\ FeedNext /\ UNCHANGED storevars /\ UNCHANGED part
    <3>1. FeedInv' /\ StoreInv'
      BY <1>2, <2>1, FeedStep, StoreFeedStep DEF MarketInv
    <3> QED BY <1>2, <2>1, <3>1 DEF MarketInv, StoreSteps
  <2>2. CASE StoreSteps /\ StoreNext /\ UNCHANGED feedvars /\ UNCHANGED part
    <3>1. StoreInv'
      BY <1>2, <2>2, StoreMoves DEF MarketInv
    <3>2. FeedInv'
      BY <1>2, <2>2 DEF MarketInv, FeedInv, Now
    <3> QED BY <1>2, <2>2, <3>1, <3>2 DEF MarketInv, StoreSteps
  <2>3. CASE PageSteps /\ FeedNext /\ Watch /\ UNCHANGED <<cache, request>>
             /\ UNCHANGED part
    <3>1. UNCHANGED storevars /\ part = "page"
      BY <2>3 DEF PageSteps
    <3>2. FeedInv' /\ StoreInv'
      BY <1>2, <2>3, <3>1, FeedStep, StoreFeedStep DEF MarketInv
    <3>3. PageInv'
      BY <1>2, <2>3, <3>1, PageFeedStep DEF MarketInv
    <3> QED BY <2>3, <3>1, <3>2, <3>3 DEF MarketInv
  <2>4. CASE PageSteps /\ PageNext /\ UNCHANGED feedvars /\ UNCHANGED part
    <3>1. UNCHANGED storevars /\ part = "page"
      BY <2>4 DEF PageSteps
    <3>2. PageInv'
      BY <1>2, <2>4, <3>1, PageMoves DEF MarketInv
    <3>3. FeedInv' /\ StoreInv'
      BY <1>2, <2>4, <3>1 DEF MarketInv, FeedInv, StoreInv, Now, TableInv, UpdateInv,
         FetchStart, FinalBehindNewest, NoJumpStored
    <3> QED BY <2>4, <3>1, <3>2, <3>3 DEF MarketInv
  <2>5. CASE UNCHANGED <<feedvars, storevars, pagevars, part>>
    BY <1>2, <2>5 DEF MarketInv, FeedInv, StoreInv, Now, TableInv, UpdateInv,
       FetchStart, FinalBehindNewest, NoJumpStored, PageInv, ShownInv, RequestsInv,
       CacheInv, Feed, Last
  <2> QED BY <1>2, <2>1, <2>2, <2>3, <2>4, <2>5 DEF MDNext, StoreSteps, PageSteps
<1> QED BY <1>1, <1>2, PTL DEF MDSpec

\* Whatever is stored behind the newest bar is final (update_symbol fetches the
\* newest bar again), but for a bar that a caller started past.
THEOREM StoredIsFinal == MDSpec => []FinalBehindNewest
<1>1. MarketInv => FinalBehindNewest
  BY DEF MarketInv, StoreInv
<1> QED BY <1>1, MarketInvariant, PTL

\* No two neighbours in the table are a jump apart, although validate() only
\* ever sees one answer.
THEOREM StoredWithoutJumps == MDSpec => []NoJumpStored
<1>1. MarketInv => NoJumpStored
  BY DEF MarketInv, StoreInv
<1> QED BY <1>1, MarketInvariant, PTL

\* No page of the dashboard is older than the time to live of _TTLCache,
\* whatever the threads and the producers do.
THEOREM PagesAreFresh == MDSpec => []PageIsFresh
<1>1. MarketInv => PageIsFresh
  <2> SUFFICES ASSUME MarketInv, NEW th \in Threads, request[th] # None,
                      request[th].stage = "answered"
               PROVE  shown[request[th].value] >= request[th].asked - Ttl
    BY DEF PageIsFresh
  <2> QED BY DEF MarketInv, PageInv, RequestsInv
<1> QED BY <1>1, MarketInvariant, PTL
-----------------------------------------------------------------------------
(* The news. *)

\* An item is in one place at most: published, queued or left out, in each case
\* seen; and a poll begins with an empty queue.
NewsInv ==
    /\ published \in [NewsItems -> {0, 1}]
    /\ seen \subseteq NewsItems
    /\ queue \subseteq seen
    /\ dropped \subseteq seen
    /\ queue \cap dropped = {}
    /\ \A i \in NewsItems : published[i] = 1 => i \in seen \ (queue \cup dropped)
    /\ \A i \in seen \cap Important :
          published[i] = 1 \/ i \in queue \/ i \in dropped
    /\ pollTask \in {"fetching", "sleeping"} => queue = {}

LEMMA NewsInitially == NPInit => NewsInv
BY DEF NPInit, NewsInv

LEMMA PollKeepsNews ==
    ASSUME NewsInv, PollNext
    PROVE  NewsInv'
<1>1. ASSUME NEW alpaca \in SUBSET AlpacaItems, NEW rss \in SUBSET RssItems,
             FetchDone(alpaca, rss)
      PROVE  NewsInv'
  <2> DEFINE fresh == FreshItems(alpaca, rss)
  <2>1. fresh \subseteq NewsItems /\ fresh \cap seen = {}
    BY DEF FreshItems, NewsItems
  <2> HIDE DEF fresh
  <2>2. /\ pollTask = "fetching" /\ pollTask' = "publishing"
        /\ seen' = seen \cup fresh
        /\ published' = published
    BY <1>1 DEF FetchDone, fresh
  <2>3. PICK old \in SUBSET fresh :
            LET young == fresh \ old
                size  == Min({PollLimit, Cardinality(young)})
            IN  \E kept \in kSubset(size, young) :
                  /\ queue' = kept \cap Important
                  /\ dropped' = dropped \cup ((fresh \ kept) \cap Important)
    BY <1>1 DEF FetchDone, fresh
  <2>4. PICK kept \in SUBSET (fresh \ old) :
            /\ queue' = kept \cap Important
            /\ dropped' = dropped \cup ((fresh \ kept) \cap Important)
    BY <2>3, Zenon DEF kSubset
  <2>5. queue = {}
    BY <2>2 DEF NewsInv
  <2>6. queue' \cap dropped' = {}
    BY <2>1, <2>4 DEF NewsInv
  <2>7. \A i \in NewsItems : published'[i] = 1 => i \in seen' \ (queue' \cup dropped')
    BY <2>1, <2>2, <2>4 DEF NewsInv
  <2>8. \A i \in seen' \cap Important :
            published'[i] = 1 \/ i \in queue' \/ i \in dropped'
    BY <2>1, <2>2, <2>4, <2>5 DEF NewsInv
  <2>9. /\ published' \in [NewsItems -> {0, 1}] /\ seen' \subseteq NewsItems
        /\ queue' \subseteq seen' /\ dropped' \subseteq seen'
    BY <2>1, <2>2, <2>4 DEF NewsInv
  <2> QED BY <2>2, <2>6, <2>7, <2>8, <2>9 DEF NewsInv
<1>2. ASSUME NEW rss \in SUBSET RssItems, FetchRaises(rss) PROVE NewsInv'
  BY <1>2 DEF FetchRaises, NewsInv
<1>3. ASSUME NEW i \in NewsItems, Publish(i) PROVE NewsInv'
  <2>1. /\ i \in queue /\ queue' = queue \ {i} /\ pollTask = "publishing"
        /\ published' = [published EXCEPT ![i] = @ + 1]
        /\ UNCHANGED <<pollTask, seen, dropped>>
    BY <1>3 DEF Publish
  <2>2. published[i] = 0
    BY <2>1 DEF NewsInv
  <2>3. /\ published' \in [NewsItems -> {0, 1}]
        /\ \A j \in NewsItems : published'[j] = IF j = i THEN 1 ELSE published[j]
    BY <2>1, <2>2 DEF NewsInv
  <2>4. \A j \in NewsItems : published'[j] = 1 => j \in seen' \ (queue' \cup dropped')
    BY <2>1, <2>3 DEF NewsInv
  <2>5. \A j \in seen' \cap Important :
            published'[j] = 1 \/ j \in queue' \/ j \in dropped'
    BY <2>1, <2>3 DEF NewsInv
  <2> QED BY <2>1, <2>3, <2>4, <2>5 DEF NewsInv
<1>4. CASE PollEnds
  BY <1>4 DEF PollEnds, NewsInv
<1>5. CASE PollAgain
  BY <1>5 DEF PollAgain, NewsInv
<1> QED BY <1>1, <1>2, <1>3, <1>4, <1>5 DEF PollNext
-----------------------------------------------------------------------------
(* The reviews. *)

ReviewRecords == [kind : {"daily", "weekly"}, date : Nat, marked : Nat]

\* The mark is the newest date a review of its kind was marked with, which is not
\* in the future.
Marks(log, utc, kind, last) ==
    \/ /\ last = NoDate
       /\ \A i \in DOMAIN log : log[i].kind # kind
    \/ /\ last \in Nat
       /\ last <= utc
       /\ \A i \in DOMAIN log : log[i].kind = kind => log[i].marked <= last
       /\ \E i \in DOMAIN log : log[i].kind = kind /\ log[i].marked = last

Before(last, day) == last = NoDate \/ (last \in Nat /\ last < day)

\* The review under way is of a day that the marks allowed, and that has come.
UnderWay ==
    /\ pc = "dailyReview" =>
          reviewDay \in Nat /\ reviewDay <= date /\ Before(lastDaily, reviewDay)
    /\ pc = "weeklyReview" =>
          /\ reviewDay \in Nat /\ reviewDay <= date /\ Before(lastWeekly, reviewDay)
          /\ reviewDay \in Fridays /\ lastDaily = reviewDay

MarkedLater == \A i \in DOMAIN reviews : reviews[i].date <= reviews[i].marked

SessionInv ==
    /\ date \in Nat
    /\ time \in Instants
    /\ reviews \in Seq(ReviewRecords)
    /\ MarkedLater
    /\ Marks(reviews, UtcDate, "daily", lastDaily)
    /\ Marks(reviews, UtcDate, "weekly", lastWeekly)
    /\ UnderWay
    /\ ReviewOrder

LoopInv ==
    /\ NewsInv
    /\ SessionInv
    /\ pc = "new" => queue = {} /\ ~polling /\ pollTask = "none"

\* It is as late in UTC as in New York or a day later.
LEMMA UtcIs ==
    ASSUME date \in Nat, time \in Instants
    PROVE  UtcDate \in Nat /\ date <= UtcDate
BY ClockAssumption DEF UtcDate

\* The date in UTC moves on with the clock.
LEMMA UtcMoves ==
    ASSUME NEW d \in Nat, NEW e \in Nat, NEW t \in Nat, NEW u \in Nat,
           d < e \/ (e = d /\ t <= u)
    PROVE  LET Utc(day, instant) == IF instant >= UtcMidnight THEN day + 1 ELSE day
           IN  Utc(e, u) \in Nat /\ Utc(d, t) <= Utc(e, u)
BY ClockAssumption

\* The review window is the half hour after the close, on the same day in both
\* time zones.
LEMMA ReviewDate ==
    ASSUME time \in Instants, CurrentPhase = "REVIEW"
    PROVE  UtcDate = date
<1>1. time \in 0 .. 47 /\ UtcMidnight \in {38, 40}
  BY ClockAssumption
<1>2. time < ReviewEnd
  BY <1>1 DEF CurrentPhase, PhaseAt, PremarketOpen, Open, Close, ReviewEnd, AfterClose
<1> QED BY <1>1, <1>2 DEF UtcDate, ReviewEnd, Close

LEMMA LoopInitially == PTInit => LoopInv
<1> SUFFICES ASSUME PTInit PROVE LoopInv
  OBVIOUS
<1>1. Instants \in SUBSET Nat /\ Instants # {}
  BY ClockAssumption
<1>2. time \in Instants
  BY <1>1, MinChosen DEF PTInit
<1>3. SessionInv
  BY <1>2 DEF PTInit, SessionInv, Marks, MarkedLater, UnderWay, ReviewOrder
<1>4. NewsInv
  BY NewsInitially DEF PTInit
<1> QED BY <1>3, <1>4 DEF LoopInv, PTInit, NPInit

\* A review of one kind, of a day that its mark lies before, joins the others.
LEMMA ReviewAdded ==
    ASSUME SessionInv, NEW kind \in {"daily", "weekly"}, NEW last,
           Marks(reviews, UtcDate, kind, last), Before(last, reviewDay),
           reviewDay \in Nat, reviewDay <= date,
           reviews' = Append(reviews, Reviewed(kind)),
           kind = "weekly" => reviewDay \in Fridays /\ lastDaily = reviewDay
    PROVE  /\ Reviewed(kind) \in ReviewRecords
           /\ reviews' \in Seq(ReviewRecords)
           /\ MarkedLater'
           /\ ReviewOrder'
<1> DEFINE n == Len(reviews)
           new == Reviewed(kind)
           utc == UtcDate
<1>1. /\ reviews \in Seq(ReviewRecords) /\ ReviewOrder /\ MarkedLater
      /\ Marks(reviews, utc, "daily", lastDaily)
      /\ Marks(reviews, utc, kind, last)
  BY DEF SessionInv
<1>2. utc \in Nat /\ reviewDay <= utc
  BY UtcIs DEF SessionInv
<1>3. new.kind = kind /\ new.date = reviewDay /\ new.marked = utc /\ new \in ReviewRecords
  BY <1>2 DEF Reviewed, ReviewRecords
<1> HIDE DEF new, utc
<1>4. n \in Nat /\ DOMAIN reviews = 1 .. n /\ \A i \in 1 .. n : reviews[i] \in ReviewRecords
  BY <1>1
<1>5. /\ reviews' \in Seq(ReviewRecords)
      /\ DOMAIN reviews' = 1 .. n + 1
      /\ \A i \in 1 .. n : reviews'[i] = reviews[i]
      /\ reviews'[n + 1] = new
  BY <1>1, <1>3, <1>4 DEF new
<1>6. \A i \in 1 .. n + 1 : i \in 1 .. n \/ i = n + 1
  BY <1>4
<1>7. MarkedLater'
  BY <1>1, <1>2, <1>3, <1>4, <1>5, <1>6 DEF MarkedLater
<1>8. \A j \in 1 .. n : reviews[j].kind = kind =>
          reviews[j].date < reviewDay /\ reviews[j].marked < utc
  <2> SUFFICES ASSUME NEW j \in 1 .. n, reviews[j].kind = kind
               PROVE  reviews[j].date < reviewDay /\ reviews[j].marked < utc
    OBVIOUS
  <2>1. reviews[j].date \in Nat /\ reviews[j].marked \in Nat
    BY <1>4 DEF ReviewRecords
  <2>2. reviews[j].date <= reviews[j].marked
    BY <1>1, <1>4 DEF MarkedLater
  <2>3. last \in Nat /\ reviews[j].marked <= last /\ last < reviewDay
    BY <1>1, <1>4, ClockAssumption DEF Marks, Before
  <2> QED BY <1>2, <2>1, <2>2, <2>3
<1>9. ReviewOrder'
  <2> SUFFICES ASSUME NEW i \in 1 .. n + 1
               PROVE  /\ \A j \in 1 .. i - 1 :
                            \/ reviews'[j].kind # reviews'[i].kind
                            \/ /\ reviews'[j].date < reviews'[i].date
                               /\ reviews'[j].marked < reviews'[i].marked
                      /\ reviews'[i].kind = "weekly" =>
                            /\ reviews'[i].date \in Fridays
                            /\ \E j \in 1 .. i - 1 :
                                  /\ reviews'[j].kind = "daily"
                                  /\ reviews'[j].date <= reviews'[i].date
                                  /\ reviews'[j].marked = reviews'[i].date
    BY <1>5 DEF ReviewOrder
  <2>1. CASE i = n + 1
    <3>1. \A j \in 1 .. i - 1 : j \in 1 .. n
      BY <1>4, <2>1
    <3>2. \A j \in 1 .. n : j \in 1 .. i - 1
      BY <1>4, <2>1
    <3>3. ASSUME kind = "weekly"
          PROVE  \E j \in 1 .. n : /\ reviews[j].kind = "daily"
                                   /\ reviews[j].date <= reviewDay
                                   /\ reviews[j].marked = reviewDay
      <4>1. lastDaily = reviewDay
        BY <3>3
      <4>2. PICK j \in 1 .. n : reviews[j].kind = "daily" /\ reviews[j].marked = reviewDay
        BY <1>1, <1>4, <4>1, ClockAssumption DEF Marks
      <4>3. reviews[j].date <= reviewDay
        BY <1>1, <1>4, <4>2 DEF MarkedLater
      <4> QED BY <4>2, <4>3
    <3> QED BY <1>3, <1>5, <1>8, <2>1, <3>1, <3>2, <3>3
  <2>2. CASE i \in 1 .. n
    <3>1. \A j \in 1 .. i - 1 : j \in 1 .. n
      BY <1>4, <2>2
    <3>2. reviews'[i] = reviews[i] /\ \A j \in 1 .. i - 1 : reviews'[j] = reviews[j]
      BY <1>5, <2>2, <3>1
    <3> QED BY <1>1, <1>4, <2>2, <3>2 DEF ReviewOrder
  <2> QED BY <1>6, <2>1, <2>2
<1> QED BY <1>3, <1>5, <1>7, <1>9 DEF new

\* The marks once a review is added: that of its kind is the date it was marked
\* with.
LEMMA MarksMove ==
    ASSUME NEW log \in Seq(ReviewRecords), NEW utc \in Nat,
           NEW new \in ReviewRecords, new.marked = utc, NEW other, NEW last,
           Marks(log, utc, other, last)
    PROVE  /\ other # new.kind => Marks(Append(log, new), utc, other, last)
           /\ other = new.kind => Marks(Append(log, new), utc, other, utc)
<1> DEFINE n == Len(log)
           longer == Append(log, new)
<1>1. /\ n \in Nat /\ DOMAIN log = 1 .. n
      /\ \A i \in 1 .. n : log[i] \in ReviewRecords
  OBVIOUS
<1>2. /\ DOMAIN longer = 1 .. n + 1 /\ longer[n + 1] = new
      /\ \A i \in 1 .. n : longer[i] = log[i]
  BY <1>1
<1>3. /\ \A i \in 1 .. n + 1 : i \in 1 .. n \/ i = n + 1
      /\ \A i \in 1 .. n : i \in 1 .. n + 1
      /\ n + 1 \in 1 .. n + 1
  BY <1>1
<1> HIDE DEF n, longer
<1>4. ASSUME other # new.kind PROVE Marks(longer, utc, other, last)
  <2>1. CASE last = NoDate /\ \A i \in DOMAIN log : log[i].kind # other
    BY <1>1, <1>2, <1>3, <1>4, <2>1 DEF Marks
  <2>2. CASE /\ last \in Nat /\ last <= utc
             /\ \A i \in DOMAIN log : log[i].kind = other => log[i].marked <= last
             /\ \E i \in DOMAIN log : log[i].kind = other /\ log[i].marked = last
    <3>1. \A i \in DOMAIN longer : longer[i].kind = other => longer[i].marked <= last
      BY <1>1, <1>2, <1>3, <1>4, <2>2
    <3>2. \E i \in DOMAIN longer : longer[i].kind = other /\ longer[i].marked = last
      BY <1>1, <1>2, <1>3, <2>2
    <3> QED BY <2>2, <3>1, <3>2 DEF Marks
  <2> QED BY <2>1, <2>2 DEF Marks
<1>5. ASSUME other = new.kind PROVE Marks(longer, utc, other, utc)
  <2>1. \A i \in 1 .. n : log[i].kind = other => log[i].marked <= utc
    <3>1. CASE last = NoDate /\ \A i \in DOMAIN log : log[i].kind # other
      BY <1>1, <3>1
    <3>2. CASE /\ last \in Nat /\ last <= utc
               /\ \A i \in DOMAIN log : log[i].kind = other => log[i].marked <= last
      <4> SUFFICES ASSUME NEW i \in 1 .. n, log[i].kind = other
                   PROVE  log[i].marked <= utc
        OBVIOUS
      <4>1. log[i].marked \in Nat
        BY <1>1 DEF ReviewRecords
      <4>2. log[i].marked <= last
        BY <1>1, <3>2
      <4> QED BY <3>2, <4>1, <4>2
    <3> QED BY <3>1, <3>2 DEF Marks
  <2>2. \A i \in DOMAIN longer : longer[i].kind = other => longer[i].marked <= utc
    BY <1>2, <1>3, <2>1
  <2>3. \E i \in DOMAIN longer : longer[i].kind = other /\ longer[i].marked = utc
    BY <1>2, <1>3, <1>5
  <2> QED BY <2>2, <2>3 DEF Marks
<1> QED BY <1>4, <1>5 DEF longer

\* A mark stays one while the days go by.
LEMMA MarksStay ==
    ASSUME NEW log, NEW utc \in Nat, NEW later \in Nat, utc <= later,
           NEW kind, NEW last, Marks(log, utc, kind, last)
    PROVE  Marks(log, later, kind, last)
BY DEF Marks

LEMMA SessionSteps ==
    ASSUME SessionInv, PTNext
    PROVE  SessionInv'
<1>1. /\ date \in Nat /\ time \in Instants
      /\ reviews \in Seq(ReviewRecords) /\ MarkedLater
      /\ Marks(reviews, UtcDate, "daily", lastDaily)
      /\ Marks(reviews, UtcDate, "weekly", lastWeekly)
      /\ UnderWay /\ ReviewOrder
  BY DEF SessionInv
<1>2. UtcDate \in Nat /\ date <= UtcDate
  BY <1>1, UtcIs
<1>3. ASSUME UNCHANGED <<date, time>> PROVE UtcDate' = UtcDate
  BY <1>3 DEF UtcDate
<1>4. ASSUME UNCHANGED <<date, time, session, reviews>>, UnderWay' PROVE SessionInv'
  BY <1>1, <1>3, <1>4 DEF SessionInv, MarkedLater, ReviewOrder, session
<1>5. ASSUME UNCHANGED <<clockvars, session, reviews, reviewDay>>,
             pc' = pc \/ pc' \notin {"dailyReview", "weeklyReview"}
      PROVE  SessionInv'
  <2>1. UnderWay'
    BY <1>1, <1>5 DEF UnderWay, Before, clockvars, session
  <2> QED BY <1>4, <1>5, <2>1 DEF clockvars
<1>6. CASE TestDaily
  <2>1. UNCHANGED <<date, time, session, reviews>>
    BY <1>6 DEF TestDaily, clockvars
  <2>2. CASE ShouldRunDaily
    <3>1. UtcDate = date /\ lastDaily # date
      BY <1>1, <2>2, ReviewDate DEF ShouldRunDaily
    <3>2. Before(lastDaily, date)
      BY <1>1, <3>1, ClockAssumption DEF Marks, Before
    <3>3. pc' = "dailyReview" /\ reviewDay' = date /\ date' = date /\ lastDaily' = lastDaily
      BY <1>6, <2>1, <2>2 DEF TestDaily, session
    <3>4. UnderWay'
      BY <1>1, <3>2, <3>3 DEF UnderWay, Before
    <3> QED BY <1>4, <2>1, <3>4
  <2>3. CASE ~ShouldRunDaily
    BY <1>5, <1>6, <2>3 DEF TestDaily
  <2> QED BY <2>2, <2>3
<1>7. CASE TestWeekly
  <2>1. UNCHANGED <<date, time, session, reviews>>
    BY <1>7 DEF TestWeekly, clockvars
  <2>2. CASE ShouldRunWeekly
    <3>1. /\ UtcDate = date /\ lastWeekly # date
          /\ lastDaily = date /\ date \in Fridays
      BY <1>1, <2>2, ReviewDate DEF ShouldRunWeekly
    <3>2. Before(lastWeekly, date)
      BY <1>1, <3>1, ClockAssumption DEF Marks, Before
    <3>3. /\ pc' = "weeklyReview" /\ reviewDay' = date /\ date' = date
          /\ lastDaily' = lastDaily /\ lastWeekly' = lastWeekly
      BY <1>7, <2>1, <2>2 DEF TestWeekly, session
    <3>4. UnderWay'
      BY <1>1, <3>1, <3>2, <3>3 DEF UnderWay, Before
    <3> QED BY <1>4, <2>1, <3>4
  <2>3. CASE ~ShouldRunWeekly
    BY <1>5, <1>7, <2>3 DEF TestWeekly
  <2> QED BY <2>2, <2>3
<1>8. CASE DailyReview
  <2>1. /\ reviews' = Append(reviews, Reviewed("daily"))
        /\ lastDaily' = UtcDate /\ pc = "dailyReview" /\ pc' = "weekly"
        /\ UNCHANGED <<date, time, lastWeekly>>
    BY <1>8 DEF DailyReview, clockvars
  <2>2. reviewDay \in Nat /\ reviewDay <= date /\ Before(lastDaily, reviewDay)
    BY <1>1, <2>1 DEF UnderWay
  <2>3. /\ Reviewed("daily") \in ReviewRecords /\ reviews' \in Seq(ReviewRecords)
        /\ MarkedLater' /\ ReviewOrder'
    BY <1>1, <2>1, <2>2, ReviewAdded
  <2>4. Reviewed("daily").marked = UtcDate /\ Reviewed("daily").kind = "daily"
    BY DEF Reviewed
  <2>5. /\ Marks(reviews', UtcDate, "daily", UtcDate)
        /\ Marks(reviews', UtcDate, "weekly", lastWeekly)
    BY <1>1, <1>2, <2>1, <2>3, <2>4, MarksMove
  <2>6. UnderWay'
    BY <2>1 DEF UnderWay
  <2> QED BY <1>1, <1>3, <2>1, <2>3, <2>5, <2>6 DEF SessionInv
<1>9. CASE WeeklyReview
  <2>1. /\ reviews' = Append(reviews, Reviewed("weekly"))
        /\ lastWeekly' = UtcDate /\ pc = "weeklyReview" /\ pc' \in {"scan", "sleep"}
        /\ UNCHANGED <<date, time, lastDaily>>
    BY <1>9 DEF WeeklyReview, clockvars
  <2>2. /\ reviewDay \in Nat /\ reviewDay <= date /\ Before(lastWeekly, reviewDay)
        /\ reviewDay \in Fridays /\ lastDaily = reviewDay
    BY <1>1, <2>1 DEF UnderWay
  <2>3. /\ Reviewed("weekly") \in ReviewRecords /\ reviews' \in Seq(ReviewRecords)
        /\ MarkedLater' /\ ReviewOrder'
    BY <1>1, <2>1, <2>2, ReviewAdded
  <2>4. Reviewed("weekly").marked = UtcDate /\ Reviewed("weekly").kind = "weekly"
    BY DEF Reviewed
  <2>5. /\ Marks(reviews', UtcDate, "weekly", UtcDate)
        /\ Marks(reviews', UtcDate, "daily", lastDaily)
    BY <1>1, <1>2, <2>1, <2>3, <2>4, MarksMove
  <2>6. UnderWay'
    BY <2>1 DEF UnderWay
  <2> QED BY <1>1, <1>3, <2>1, <2>3, <2>5, <2>6 DEF SessionInv
<1>10. CASE Clock
  <2>1. UNCHANGED <<session, reviews, reviewDay, pc>>
    BY <1>10 DEF Clock, history
  <2>2. /\ date' \in Nat /\ date <= date' /\ time' \in Instants
        /\ date' = date => time <= time'
    <3>1. Instants \in SUBSET Nat /\ Instants # {}
      BY ClockAssumption
    <3>2. CASE Later # {}
      <4>1. Later \in SUBSET Nat /\ Later \subseteq Instants /\ \A t \in Later : t > time
        BY <3>1 DEF Later
      <4>2. Min(Later) \in Later
        BY <3>2, <4>1, MinChosen
      <4>3. date' = date /\ time' = Min(Later)
        BY <1>10, <3>2 DEF Clock
      <4>4. time' \in Instants
        BY <4>1, <4>2, <4>3, Zenon
      <4>5. date' \in Nat /\ date <= date'
        BY <1>1, <4>3
      <4>6. time <= time'
        <5>1. Min(Later) > time
          BY <4>1, <4>2, Zenon
        <5>2. time' > time
          BY <4>3, <5>1, Zenon
        <5>3. time \in Nat /\ time' \in Nat
          BY <1>1, <3>1, <4>4, Zenon
        <5> QED BY <5>2, <5>3
      <4> QED BY <4>4, <4>5, <4>6
    <3>3. CASE Later = {}
      <4>1. Min(Instants) \in Instants
        BY <3>1, MinChosen
      <4> QED BY <1>1, <1>10, <3>3, <4>1 DEF Clock
    <3> QED BY <3>2, <3>3
  <2>3. UtcDate' \in Nat /\ UtcDate <= UtcDate'
    <3>1. /\ time \in Nat /\ time' \in Nat
          /\ date \in Nat /\ date' \in Nat
          /\ date < date' \/ (date' = date /\ time <= time')
      BY <1>1, <2>2, ClockAssumption
    <3> QED BY <3>1, UtcMoves DEF UtcDate
  <2>4. /\ Marks(reviews, UtcDate', "daily", lastDaily)
        /\ Marks(reviews, UtcDate', "weekly", lastWeekly)
    BY <1>1, <1>2, <2>3, MarksStay
  <2>5. ReviewOrder' /\ MarkedLater'
    BY <1>1, <2>1 DEF ReviewOrder, MarkedLater
  <2>6. UnderWay'
    BY <1>1, <2>1, <2>2 DEF UnderWay, Before, session
  <2> QED BY <1>1, <2>1, <2>2, <2>4, <2>5, <2>6 DEF SessionInv, session
<1>11. CASE Run \/ RefuseRun \/ Stop \/ Cancel \/ SwitchTurns \/ Poll
  BY <1>5, <1>11 DEF Run, RefuseRun, Stop, Cancel, SwitchTurns, Poll, history
<1>12. CASE BeginTick \/ ReviewRaises \/ Scan \/ Wake \/ LeaveLoop \/ Finish
  BY <1>5, <1>12 DEF BeginTick, ReviewRaises, Scan, Wake, LeaveLoop, Finish, history
<1> QED BY <1>6, <1>7, <1>8, <1>9, <1>10, <1>11, <1>12 DEF PTNext, Loop

LEMMA NewsSteps ==
    ASSUME LoopInv, PTNext
    PROVE  NewsInv' /\ (pc' = "new" => queue' = {} /\ ~polling' /\ pollTask' = "none")
<1>1. NewsInv /\ (pc = "new" => queue = {} /\ ~polling /\ pollTask = "none")
  BY DEF LoopInv
<1>2. ASSUME UNCHANGED npvars, pc' = "new" => pc = "new"
      PROVE  NewsInv' /\ (pc' = "new" => queue' = {} /\ ~polling' /\ pollTask' = "none")
  BY <1>1, <1>2 DEF npvars, NewsInv
<1>3. CASE Run
  BY <1>1, <1>3 DEF Run, StartNews, NewsInv
<1>4. CASE Finish
  BY <1>1, <1>4 DEF Finish, StopNews, NewsInv
<1>5. CASE Poll
  <2>1. PollNext /\ pc' = pc
    BY <1>5 DEF Poll
  <2>2. NewsInv'
    BY <1>1, <2>1, PollKeepsNews
  <2>3. pollTask # "none"
    BY <2>1 DEF PollNext, FetchDone, FetchRaises, Publish, PollEnds, PollAgain
  <2> QED BY <1>1, <2>1, <2>2, <2>3
<1>6. CASE RefuseRun \/ BeginTick \/ TestDaily \/ DailyReview \/ TestWeekly
           \/ WeeklyReview \/ ReviewRaises \/ Scan \/ Wake \/ LeaveLoop
  <2>1. UNCHANGED npvars /\ pc' # "new"
    BY <1>6 DEF RefuseRun, BeginTick, TestDaily, DailyReview, TestWeekly, WeeklyReview,
       ReviewRaises, Scan, Wake, LeaveLoop
  <2> QED BY <1>2, <2>1
<1>7. CASE Stop \/ Cancel \/ Clock \/ SwitchTurns
  <2>1. UNCHANGED npvars /\ (pc' = "new" => pc = "new")
    BY <1>7 DEF Stop, Cancel, Clock, SwitchTurns
  <2> QED BY <1>2, <2>1
<1> QED BY <1>3, <1>4, <1>5, <1>6, <1>7 DEF PTNext, Loop

\* The invariant of the loop (orchestration/paper_trading_loop.py) and of the
\* news pipeline it owns (news/news_pipeline.py).
THEOREM LoopInvariant == PTSpec => []LoopInv
<1>1. ASSUME LoopInv, [PTNext]_ptvars PROVE LoopInv'
  <2>1. CASE PTNext
    BY <1>1, <2>1, SessionSteps, NewsSteps DEF LoopInv
  <2>2. CASE UNCHANGED ptvars
    <3>1. UNCHANGED <<clockvars, session, reviews, reviewDay, pc>> /\ UNCHANGED npvars
      BY <2>2 DEF ptvars, history
    <3>2. SessionInv' = SessionInv
      BY <3>1 DEF SessionInv, MarkedLater, Marks, UnderWay, Before, UtcDate, ReviewOrder,
         clockvars, session
    <3>3. NewsInv' = NewsInv
      BY <3>1 DEF NewsInv, npvars
    <3> QED BY <1>1, <3>1, <3>2, <3>3 DEF LoopInv, npvars
  <2> QED BY <1>1, <2>1, <2>2
<1> QED BY <1>1, LoopInitially, PTL DEF PTSpec

\* The aggregator's and the fetcher's memory (_seen, _seen_ids) publishes each
\* item once at most, and no important item is lost that the aggregator has
\* marked in _seen.
THEOREM NewsOnce == PTSpec => []NewsHandledOnce
<1>1. LoopInv => NewsHandledOnce
  BY DEF LoopInv, NewsInv, NewsHandledOnce
<1> QED BY <1>1, LoopInvariant, PTL

\* The session manager's two marks order the daily and the weekly reviews
\* (should_run_daily_review, should_run_weekly_review) for every calendar, however
\* long each review takes: none is repeated, and a weekly one rests on a daily
\* one that was marked with its date.
THEOREM ReviewsInOrder == PTSpec => []ReviewOrder
<1>1. LoopInv => ReviewOrder
  BY DEF LoopInv, SessionInv
<1> QED BY <1>1, LoopInvariant, PTL
-----------------------------------------------------------------------------
(* The strategies. *)

\* What a column holds.
LEMMA Column ==
    ASSUME NEW f, NEW columns, Has(f, columns), SoundRow(f), NEW k \in columns
    PROVE  f[k] \in Int
BY DEF Has, SoundRow

LEMMA QuotientIsInt ==
    ASSUME NEW n \in Int, NEW d \in Nat \ {0}
    PROVE  n \div d \in Int
OBVIOUS

\* The range is a positive even number, three halves of it are whole.
LEMMA RangeOf ==
    ASSUME NEW f, SoundRow(f)
    PROVE  \E k \in Nat \ {0} : Atr(f) = 2 * k /\ OneAndAHalf(Atr(f)) = 3 * k
<1>1. f.close \in Int /\ f.close > 0 /\ f.close % 200 = 0
  BY DEF SoundRow
<1>2. \E k \in Nat \ {0} : Atr(f) = 2 * k
  <2>1. CASE Value(f, "atr_14", 0) = 0
    <3>1. Atr(f) = f.close \div 100
      BY <2>1 DEF Atr
    <3> DEFINE p == f.close
    <3>2. p \in Int /\ p > 0 /\ p % 200 = 0
      BY <1>1
    <3> HIDE DEF p
    <3>3. p = 200 * (p \div 200) /\ p \div 200 \in Int
      BY <3>2
    <3>4. p \div 100 = 2 * (p \div 200) /\ p \div 200 > 0
      BY <3>2, <3>3
    <3> QED BY <3>1, <3>3, <3>4 DEF p
  <2>2. CASE Value(f, "atr_14", 0) # 0
    <3>1. /\ "atr_14" \in DOMAIN f /\ Atr(f) = f.atr_14
          /\ f.atr_14 >= 0 /\ f.atr_14 % 2 = 0 /\ f.atr_14 # 0
      BY <2>2 DEF Atr, Value, Has, SoundRow
    <3>2. f.atr_14 \in Int
      BY <3>1 DEF SoundRow
    <3> DEFINE a == f.atr_14
    <3>3. a \in Int /\ a >= 0 /\ a % 2 = 0 /\ a # 0
      BY <3>1, <3>2
    <3> HIDE DEF a
    <3>4. a = 2 * (a \div 2) /\ a \div 2 \in Nat \ {0}
      BY <3>3
    <3> QED BY <3>1, <3>4 DEF a
  <2> QED BY <2>1, <2>2
<1>3. PICK k \in Nat \ {0} : Atr(f) = 2 * k
  BY <1>2
<1>4. (3 * (2 * k)) \div 2 = 3 * k
  OBVIOUS
<1>5. OneAndAHalf(Atr(f)) = 3 * k
  BY <1>3, <1>4 DEF OneAndAHalf
<1> QED BY <1>3, <1>5

\* The four strategies that are admitted where there is no trend.
LEMMA WithoutTrend ==
    ASSUME NEW name \in Names,
           NEW market \in {"RANGE_BOUND", "CHOPPY"}, market \in AllowedRegimes[name]
    PROVE  name \in {"bb_reversion", "rsi_reversion", "vwap_reversion",
                     "spy_qqq_relationship"}
BY DEF Names, AllowedRegimes, Trends, StrongTrends

\* A score is a number, and validation only ever discards a degenerate signal.
SoundSignal(s) ==
    /\ s.score \in Int
    /\ Accepted(s) \/ s.entry \in {s.stop, s.target}

\* Stop and target are on the two sides of the close.
LEMMA AroundIsSound ==
    ASSUME NEW f, f.close \in Int, NEW stop \in Nat \ {0}, NEW target \in Nat \ {0},
           NEW score \in Int
    PROVE  /\ SoundSignal(Around(f, stop, target, score).long)
           /\ SoundSignal(Around(f, stop, target, score).short)
BY DEF SoundSignal, Around, Accepted, Long, Short, Signal

LEMMA SketchIsSound ==
    ASSUME NEW f, SoundRow(f), DOMAIN f \subseteq FeatureColumns \cup Measured,
           NEW name \in Names, NEW s \in Sketch(name, f)
    PROVE  SoundSignal(s)
<1> USE DEF Sided, SoundSignal
<1>1. /\ \A columns : Has(f, columns) => \A k \in columns : f[k] \in Int
      /\ f.close \in Int
  BY Column DEF SoundRow
<1>2. PICK k \in Nat \ {0} : Atr(f) = 2 * k /\ OneAndAHalf(Atr(f)) = 3 * k
  BY RangeOf
<1>3. CASE name = "consolidation_breakout"
  <2>1. s \in ConsolidationBreakout(f)
    BY <1>3 DEF Sketch
  <2>2. Has(f, {"bb_bandwidth", "resistance", "support"})
    BY <2>1 DEF ConsolidationBreakout
  <2>3. f.resistance \in Int /\ f.support \in Int /\ f.support <= f.close
    BY <1>1, <2>2 DEF SoundRow, Has
  <2> QED BY <1>1, <1>2, <2>1, <2>2, <2>3
          DEF ConsolidationBreakout, Accepted, Long, Short, Signal
<1>4. CASE name = "high_low_breakout"
  <2>1. s \in HighLowBreakout(f)
    BY <1>4 DEF Sketch
  <2>2. Has(f, {"prev_high", "prev_low"})
    BY <2>1 DEF HighLowBreakout
  <2>3. f.prev_high \in Int /\ f.prev_low \in Int /\ f.prev_low <= f.prev_high
    BY <1>1, <2>2 DEF SoundRow, Has
  <2> QED BY <1>1, <1>2, <2>1, <2>2, <2>3
          DEF HighLowBreakout, Accepted, Long, Short, Signal
<1>5. CASE name \in {"orb", "momentum_orb"}
  <2>1. s \in OpeningRange(f)
    BY <1>5 DEF Sketch, MomentumOpeningRange
  <2>2. ~Has(f, {"orb_high", "orb_low"})
    BY DEF Has, FeatureColumns, Measured
  <2> QED BY <2>1, <2>2 DEF OpeningRange
<1>6. CASE name = "volume_breakout"
  <2>1. s \in VolumeBreakout(f)
    BY <1>6 DEF Sketch
  <2>2. s \in {Around(f, 2 * Atr(f), 4 * Atr(f), 78).long,
               Around(f, 2 * Atr(f), 4 * Atr(f), 78).short}
    BY <2>1 DEF VolumeBreakout
  <2> QED BY <1>1, <1>2, <2>2, AroundIsSound
<1>7. CASE name = "bb_reversion"
  <2>1. s \in BBReversion(f)
    BY <1>7 DEF Sketch
  <2>2. Has(f, {"bb_upper", "bb_lower", "bb_mid"})
    BY <2>1 DEF BBReversion
  <2>3. /\ f.bb_upper \in Int /\ f.bb_lower \in Int /\ f.bb_mid \in Int
        /\ f.bb_lower <= f.bb_mid /\ f.bb_mid <= f.bb_upper
    BY <1>1, <2>2 DEF SoundRow, Has
  <2> QED BY <1>1, <1>2, <2>1, <2>2, <2>3
          DEF BBReversion, Accepted, Long, Short, Signal
<1>8. CASE name = "rsi_reversion"
  <2>1. s \in RSIReversion(f)
    BY <1>8 DEF Sketch
  <2> DEFINE score == 72 + AtMost(18, Distance(50, f.rsi_14) - 20)
  <2>2. Has(f, {"rsi_14"})
    BY <2>1 DEF RSIReversion
  <2>3. score \in Int
    BY <1>1, <2>2 DEF AtMost, Distance
  <2>4. s \in {Around(f, OneAndAHalf(Atr(f)), 2 * Atr(f), score).long,
               Around(f, OneAndAHalf(Atr(f)), 2 * Atr(f), score).short}
    BY <2>1 DEF RSIReversion
  <2> HIDE DEF score
  <2> QED BY <1>1, <1>2, <2>3, <2>4, AroundIsSound
<1>9. CASE name = "volatility_reversion"
  <2>1. s \in VolatilityReversion(f)
    BY <1>9 DEF Sketch
  <2>2. Has(f, {"bb_bandwidth", "bb_mid"})
    BY <2>1 DEF VolatilityReversion
  <2>3. f.bb_mid \in Int
    BY <1>1, <2>2
  <2> QED BY <1>1, <1>2, <2>1, <2>2, <2>3
          DEF VolatilityReversion, Accepted, Long, Short, Signal
<1>10. CASE name = "vwap_reversion"
  <2>1. s \in VWAPReversion(f)
    BY <1>10 DEF Sketch
  <2>2. Has(f, {"vwap"})
    BY <2>1 DEF VWAPReversion
  <2>3. f.vwap \in Int
    BY <1>1, <2>2
  <2> QED BY <1>1, <1>2, <2>1, <2>2, <2>3
          DEF VWAPReversion, Accepted, Long, Short, Signal
<1>11. CASE name = "momentum_breakout"
  <2>1. s \in MomentumBreakout(f)
    BY <1>11 DEF Sketch
  <2>2. s \in {Around(f, 2 * Atr(f), 4 * Atr(f), 76).long,
               Around(f, 2 * Atr(f), 4 * Atr(f), 76).short}
    BY <2>1 DEF MomentumBreakout
  <2> QED BY <1>1, <1>2, <2>2, AroundIsSound
<1>12. CASE name = "multi_tf_momentum"
  <2>1. s \in MultiTFMomentum(f)
    BY <1>12 DEF Sketch
  <2>2. s \in {Around(f, 2 * Atr(f), 3 * Atr(f), 72).long,
               Around(f, 2 * Atr(f), 3 * Atr(f), 72).short}
    BY <2>1 DEF MultiTFMomentum
  <2> QED BY <1>1, <1>2, <2>2, AroundIsSound
<1>13. CASE name = "relvol_momentum"
  <2>1. s \in RelVolMomentum(f)
    BY <1>13 DEF Sketch
  <2> DEFINE score == 70 + AtMost(25, f.rel_volume - 15)
  <2>2. Has(f, {"rel_volume", "roc_12"})
    BY <2>1 DEF RelVolMomentum
  <2>3. score \in Int
    BY <1>1, <2>2 DEF AtMost
  <2>4. s \in {Around(f, OneAndAHalf(Atr(f)), 3 * Atr(f), score).long,
               Around(f, OneAndAHalf(Atr(f)), 3 * Atr(f), score).short}
    BY <2>1 DEF RelVolMomentum
  <2> HIDE DEF score
  <2> QED BY <1>1, <1>2, <2>3, <2>4, AroundIsSound
<1>14. CASE name = "adx_trend"
  <2>1. s \in ADXTrend(f)
    BY <1>14 DEF Sketch
  <2> DEFINE score == 70 + AtMost(25, f.adx - 25)
  <2>2. Has(f, {"adx", "plus_di", "minus_di"})
    BY <2>1 DEF ADXTrend
  <2>3. score \in Int
    BY <1>1, <2>2 DEF AtMost
  <2>4. s \in {Around(f, 2 * Atr(f), 4 * Atr(f), score).long,
               Around(f, 2 * Atr(f), 4 * Atr(f), score).short}
    BY <2>1 DEF ADXTrend
  <2> HIDE DEF score
  <2> QED BY <1>1, <1>2, <2>3, <2>4, AroundIsSound
<1>15. CASE name = "ema_crossover"
  <2>1. s \in EMACrossover(f)
    BY <1>15 DEF Sketch
  <2> DEFINE score == 70 + AtMost(20, (Distance(f.ema_9, f.ema_21) * 10) \div Atr(f))
  <2>2. Has(f, {"ema_9", "ema_21"})
    BY <2>1 DEF EMACrossover
  <2>3. score \in Int
    <3>1. Distance(f.ema_9, f.ema_21) * 10 \in Int /\ Atr(f) \in Nat \ {0}
      BY <1>1, <1>2, <2>2 DEF Distance
    <3>2. (Distance(f.ema_9, f.ema_21) * 10) \div Atr(f) \in Int
      BY <3>1, QuotientIsInt
    <3> QED BY <3>2 DEF AtMost
  <2>4. s \in {Around(f, 2 * Atr(f), 3 * Atr(f), score).long,
               Around(f, 2 * Atr(f), 3 * Atr(f), score).short}
    BY <2>1 DEF EMACrossover
  <2> HIDE DEF score
  <2> QED BY <1>1, <1>2, <2>3, <2>4, AroundIsSound
<1>16. CASE name = "trend_pullback"
  <2>1. s \in TrendPullback(f)
    BY <1>16 DEF Sketch
  <2> DEFINE score == 75 + AtMost(15, 45 - f.rsi_14)
  <2>2. Has(f, {"sma_20", "sma_50", "rsi_14"})
    BY <2>1 DEF TrendPullback
  <2>3. score \in Int
    BY <1>1, <2>2 DEF AtMost
  <2>4. s = Around(f, OneAndAHalf(Atr(f)), 3 * Atr(f), score).long
    BY <2>1 DEF TrendPullback
  <2> HIDE DEF score
  <2> QED BY <1>1, <1>2, <2>3, <2>4, AroundIsSound
<1>17. CASE name = "vwap_continuation"
  <2>1. s \in VWAPContinuation(f)
    BY <1>17 DEF Sketch
  <2>2. Has(f, {"vwap"})
    BY <2>1 DEF VWAPContinuation
  <2> DEFINE score == 72 + AtMost(18, (Distance(f.close, f.vwap) * 8) \div Atr(f))
  <2>3. f.vwap \in Int
    BY <1>1, <2>2
  <2>4. score \in Int
    <3>1. Distance(f.close, f.vwap) * 8 \in Int /\ Atr(f) \in Nat \ {0}
      BY <1>1, <1>2, <2>3 DEF Distance
    <3>2. (Distance(f.close, f.vwap) * 8) \div Atr(f) \in Int
      BY <3>1, QuotientIsInt
    <3> QED BY <3>2 DEF AtMost
  <2>5. Atr(f) \div 2 = k /\ (5 * Atr(f)) \div 2 = 5 * k
    <3>1. (2 * k) \div 2 = k /\ (5 * (2 * k)) \div 2 = 5 * k
      OBVIOUS
    <3> QED BY <1>2, <3>1
  <2>6. s \in IF f.close > f.vwap
              THEN {Long(f, f.vwap - k, f.close + 5 * k, score)}
              ELSE {Short(f, f.vwap + k, f.close - 5 * k, score)}
    BY <2>1, <2>2, <2>5 DEF VWAPContinuation
  <2> HIDE DEF score
  <2> QED BY <1>1, <2>3, <2>4, <2>6 DEF Accepted, Long, Short, Signal
<1>18. CASE name = "spy_qqq_relationship"
  <2>1. s \in SPYQQQRelationship(f)
    BY <1>18 DEF Sketch
  <2> DEFINE score ==
          72 + AtMost(18, (6 * (Distance(f.spread_z, 0) - 20)) \div 10)
  <2>2. Has(f, {"spread_z"})
    BY <2>1 DEF SPYQQQRelationship
  <2>3. score \in Int
    <3>1. 6 * (Distance(f.spread_z, 0) - 20) \in Int
      BY <1>1, <2>2 DEF Distance
    <3>2. (6 * (Distance(f.spread_z, 0) - 20)) \div 10 \in Int
      BY <3>1, QuotientIsInt
    <3> QED BY <3>2 DEF AtMost
  <2>4. s \in {Around(f, 2 * Atr(f), 2 * Atr(f), score).long,
               Around(f, 2 * Atr(f), 2 * Atr(f), score).short}
    BY <2>1 DEF SPYQQQRelationship
  <2> HIDE DEF score
  <2> QED BY <1>1, <1>2, <2>3, <2>4, AroundIsSound
<1> QED BY <1>3, <1>4, <1>5, <1>6, <1>7, <1>8, <1>9, <1>10, <1>11, <1>12, <1>13,
           <1>14, <1>15, <1>16, <1>17, <1>18 DEF Names, AllowedRegimes

\* Where the market trends strongly, the direction the classifier names is that
\* of the greater of the two indicators.
LEMMA StrongTrendIs ==
    ASSUME NEW f, SoundRow(f), Has(f, {"plus_di", "minus_di"}),
           Classify(f) \in StrongTrends
    PROVE  Classify(f) = "STRONG_UPTREND" <=> f.plus_di >= f.minus_di
<1> DEFINE adx == Value(f, "adx", 0)
<1>1. f.bars \in Int /\ f.vol_pct \in Int /\ f.plus_di \in Int /\ f.minus_di \in Int
  BY Column DEF SoundRow
<1>2. adx \in Int
  BY DEF SoundRow, Value, Has
<1>3. Value(f, "plus_di", 0) = f.plus_di /\ Value(f, "minus_di", 0) = f.minus_di
  BY DEF Value, Has
<1> HIDE DEF adx
<1>4. Classify(f) =
          CASE f.bars < 50 -> "CHOPPY"
            [] f.bars >= 50 /\ adx < 25 /\ f.vol_pct >= 75 -> "HIGH_VOLATILITY"
            [] f.bars >= 50 /\ adx < 25 /\ f.vol_pct <= 25 -> "LOW_VOLATILITY"
            [] f.bars >= 50 /\ adx >= 35 ->
                 IF f.plus_di >= f.minus_di THEN "STRONG_UPTREND" ELSE "STRONG_DOWNTREND"
            [] f.bars >= 50 /\ adx >= 25 /\ adx < 35 ->
                 IF f.plus_di >= f.minus_di THEN "WEAK_UPTREND" ELSE "WEAK_DOWNTREND"
            [] f.bars >= 50 /\ adx < 25 /\ f.vol_pct > 25 /\ f.vol_pct < 75 ->
                 IF Value(f, "range_ratio", 5) < 5 THEN "RANGE_BOUND" ELSE "CHOPPY"
  BY <1>3, Zenon DEF Classify, adx
<1>5. \/ f.bars < 50
      \/ f.bars >= 50 /\ adx < 25 /\ f.vol_pct >= 75
      \/ f.bars >= 50 /\ adx < 25 /\ f.vol_pct <= 25
      \/ f.bars >= 50 /\ adx >= 35
      \/ f.bars >= 50 /\ adx >= 25 /\ adx < 35
      \/ f.bars >= 50 /\ adx < 25 /\ f.vol_pct > 25 /\ f.vol_pct < 75
  BY <1>1, <1>2
<1>6. Classify(f) \in {"CHOPPY", "HIGH_VOLATILITY", "LOW_VOLATILITY", "WEAK_UPTREND",
                       "WEAK_DOWNTREND", "RANGE_BOUND"}
      \/ Classify(f) = IF f.plus_di >= f.minus_di THEN "STRONG_UPTREND"
                       ELSE "STRONG_DOWNTREND"
  BY <1>4, <1>5, Zenon
<1> QED BY <1>6 DEF StrongTrends

\* In that market the trend follower takes the same side, but on a tie.
LEMMA TrendFollowerAgrees ==
    ASSUME SoundRow(row), NEW s \in Contribution("adx_trend"),
           row.plus_di # row.minus_di
    PROVE  (s.direction = "LONG") = (regime = "STRONG_UPTREND")
<1>1. s \in ADXTrend(row) /\ regime \in StrongTrends
  BY DEF Contribution, GenerateSignal, Sketch, AllowedRegimes
<1>2. Has(row, {"adx", "plus_di", "minus_di"})
  BY <1>1 DEF ADXTrend
<1>3. row.plus_di \in Int /\ row.minus_di \in Int
  BY <1>2, Column
<1>4. regime = "STRONG_UPTREND" <=> row.plus_di >= row.minus_di
  BY <1>1, <1>2, StrongTrendIs DEF regime, Has
<1>5. IF row.plus_di > row.minus_di THEN s.direction = "LONG" ELSE s.direction = "SHORT"
  BY <1>1, <1>2 DEF ADXTrend, Sided, Around, Long, Short, Signal
<1> QED BY <1>3, <1>4, <1>5

LEMMA TooNear ==
    ASSUME NEW s, NEW reward \in Int, NEW risk \in Int, reward < risk,
           2 * Distance(s.target, s.entry) = reward,
           3 * Distance(s.entry, s.stop) = risk
    PROVE  RewardVerdicts(s) = {FALSE}
<1>1. reward # risk /\ (reward > risk) = FALSE
  OBVIOUS
<1> QED BY <1>1, Zenon DEF RewardVerdicts

\* What is signalled without a trend scores too little or aims too near.
LEMMA NoReward ==
    ASSUME SoundRow(row), DOMAIN row \subseteq FeatureColumns \cup Measured,
           NEW name \in Names, NEW s \in Contribution(name),
           regime \in {"RANGE_BOUND", "CHOPPY"}, MinQualified >= 75
    PROVE  RewardVerdicts(s) = {FALSE}
<1>1. /\ s \in Sketch(name, row) /\ regime \in AllowedRegimes[name]
      /\ s.score >= MinQualified
  BY DEF Contribution, GenerateSignal, Qualified
<1>2. name \in {"bb_reversion", "rsi_reversion", "vwap_reversion", "spy_qqq_relationship"}
  BY <1>1, WithoutTrend
<1>3. s.score >= 75
  <2>1. s.score \in Int /\ MinQualified \in Nat
    BY <1>1, SketchIsSound, ScanAssumption DEF SoundSignal
  <2> QED BY <1>1, <2>1
<1>4. PICK k \in Nat \ {0} : Atr(row) = 2 * k /\ OneAndAHalf(Atr(row)) = 3 * k
  BY RangeOf
<1>5. row.close \in Int
  BY DEF SoundRow
<1>6. CASE name = "bb_reversion"
  <2>1. s.score = 74
    BY <1>1, <1>6 DEF Sketch, BBReversion, Sided, Long, Short, Signal
  <2> QED BY <1>3, <2>1
<1>7. CASE name = "vwap_reversion"
  <2>1. s.score = 73
    BY <1>1, <1>7 DEF Sketch, VWAPReversion, Sided, Long, Short, Signal
  <2> QED BY <1>3, <2>1
<1>8. CASE name = "rsi_reversion"
  <2>1. /\ s.entry = row.close
        /\ \/ s.stop = row.close - 3 * k /\ s.target = row.close + 4 * k
           \/ s.stop = row.close + 3 * k /\ s.target = row.close - 4 * k
    <3>1. s \in RSIReversion(row)
      BY <1>1, <1>8 DEF Sketch
    <3> QED BY <1>4, <3>1 DEF RSIReversion, Sided, Around, Long, Short, Signal
  <2>2. 2 * Distance(s.target, s.entry) = 8 * k /\ 3 * Distance(s.entry, s.stop) = 9 * k
    BY <1>5, <2>1 DEF Distance
  <2>3. 8 * k \in Int /\ 9 * k \in Int /\ 8 * k < 9 * k
    OBVIOUS
  <2> QED BY <2>2, <2>3, TooNear
<1>9. CASE name = "spy_qqq_relationship"
  <2>1. /\ s.entry = row.close
        /\ \/ s.stop = row.close - 4 * k /\ s.target = row.close + 4 * k
           \/ s.stop = row.close + 4 * k /\ s.target = row.close - 4 * k
    <3>1. s \in SPYQQQRelationship(row)
      BY <1>1, <1>9 DEF Sketch
    <3> QED BY <1>4, <3>1 DEF SPYQQQRelationship, Sided, Around, Long, Short, Signal
  <2>2. 2 * Distance(s.target, s.entry) = 8 * k /\ 3 * Distance(s.entry, s.stop) = 12 * k
    BY <1>5, <2>1 DEF Distance
  <2>3. 8 * k \in Int /\ 12 * k \in Int /\ 8 * k < 12 * k
    OBVIOUS
  <2> QED BY <2>2, <2>3, TooNear
<1> QED BY <1>2, <1>6, <1>7, <1>8, <1>9
-----------------------------------------------------------------------------
(* The scan and the judgement. *)

\* The voices that the strategies may contribute on this row.
Voices ==
    UNION {{[strategy |-> name, signal |-> s] : s \in Contribution(name)} : name \in Names}

\* What Judge writes down.
VerdictIsJust ==
    /\ verdict.voice \in Voices
    /\ verdict.context \in Contexts
    /\ verdict.passed \in FilterVerdicts(verdict.voice, verdict.context)
    /\ \E voted \in VoteVerdicts(verdict.voice, verdict.context) :
          verdict.approved = (verdict.passed /\ voted)

PathInv ==
    /\ row \in Rows
    /\ position \in Nat \ {0}
    /\ signals \in Seq(Voices)
    /\ Judged => VerdictIsJust

\* What a voice says was signalled by an admitted strategy and scores enough.
LEMMA VoiceIs ==
    ASSUME row \in Rows, NEW v \in Voices
    PROVE  /\ v.strategy \in Names
           /\ v.signal \in Contribution(v.strategy)
           /\ regime \in AllowedRegimes[v.strategy]
           /\ v.signal.score \in Int
           /\ v.signal.score >= MinQualified
<1>1. PICK name \in Names : v \in {[strategy |-> name, signal |-> s] : s \in Contribution(name)}
  BY DEF Voices
<1>2. PICK s \in Contribution(name) : v = [strategy |-> name, signal |-> s]
  BY <1>1
<1>3. s \in Sketch(name, row) /\ regime \in AllowedRegimes[name] /\ s.score >= MinQualified
  BY DEF Contribution, GenerateSignal, Qualified
<1>4. s.score \in Int
  BY <1>3, SketchIsSound, ScanAssumption DEF SoundSignal
<1> QED BY <1>2, <1>3, <1>4

\* The invariant of the way from the rows (signals/signal_generator.py) to the
\* decision (validation/trade_quality_filter.py, orchestration/decision_loop.py).
THEOREM PathInvariant == PathSpec => []PathInv
<1>1. PathInit => PathInv
  BY DEF PathInit, ScanInit, PathInv, Judged
<1>2. ASSUME PathInv, [PathNext]_pathvars PROVE PathInv'
  <2>1. CASE RunStrategy /\ UNCHANGED verdict
    <3> DEFINE name == Registered[position]
    <3>1. row' = row /\ position' = position + 1 /\ position <= Len(Registered)
      BY <2>1 DEF RunStrategy, Scanning
    <3>2. Voices' = Voices /\ VerdictIsJust' = VerdictIsJust
      BY <2>1, <3>1 DEF Voices, VerdictIsJust, Contribution, GenerateSignal, regime,
         FilterVerdicts, FilterChecks, VoteVerdicts, Tally, RegimeAnalyst
    <3>3. name \in Names
      BY <1>2, <3>1, ScanAssumption DEF PathInv
    <3>4. signals' \in Seq(Voices)
      <4>1. CASE UNCHANGED signals
        BY <1>2, <4>1 DEF PathInv
      <4>2. CASE \E s \in Contribution(name) :
                    signals' = Append(signals, [strategy |-> name, signal |-> s])
        <5>1. PICK s \in Contribution(name) :
                  signals' = Append(signals, [strategy |-> name, signal |-> s])
          BY <4>2
        <5>2. [strategy |-> name, signal |-> s] \in Voices
          BY <3>3 DEF Voices
        <5> QED BY <1>2, <5>1, <5>2 DEF PathInv
      <4> QED BY <2>1, <4>1, <4>2 DEF RunStrategy
    <3> QED BY <1>2, <2>1, <3>1, <3>2, <3>4 DEF PathInv, Judged
  <2>2. CASE Judge
    <3>1. UNCHANGED <<row, position, signals>>
      BY <2>2 DEF Judge, scanvars
    <3>2. Voices' = Voices
      BY <3>1 DEF Voices, Contribution, GenerateSignal, regime
    <3>3. PICK i \in 1 .. Len(signals), c \in Contexts :
              \E passed \in FilterVerdicts(signals[i], c),
                 voted \in VoteVerdicts(signals[i], c) :
                 verdict' = [voice |-> signals[i], context |-> c, passed |-> passed,
                             approved |-> passed /\ voted]
      BY <2>2 DEF Judge
    <3>4. PICK passed \in FilterVerdicts(signals[i], c),
               voted \in VoteVerdicts(signals[i], c) :
              verdict' = [voice |-> signals[i], context |-> c, passed |-> passed,
                          approved |-> passed /\ voted]
      BY <3>3
    <3>5. signals[i] \in Voices
      BY <1>2 DEF PathInv
    <3>6. VerdictIsJust'
      <4>1. /\ verdict'.voice = signals[i] /\ verdict'.context = c
            /\ verdict'.passed = passed /\ verdict'.approved = (passed /\ voted)
        BY <3>4
      <4>2. \A v \in Voices : /\ FilterVerdicts(v, c)' = FilterVerdicts(v, c)
                              /\ VoteVerdicts(v, c)' = VoteVerdicts(v, c)
        BY <3>1 DEF FilterVerdicts, FilterChecks, VoteVerdicts, Tally, RegimeAnalyst, regime
      <4> QED BY <3>2, <3>4, <3>5, <4>1, <4>2 DEF VerdictIsJust
    <3> QED BY <1>2, <3>1, <3>2, <3>6 DEF PathInv
  <2>3. CASE UNCHANGED pathvars
    <3>1. UNCHANGED <<row, position, signals, verdict>>
      BY <2>3 DEF pathvars, scanvars
    <3>2. Voices' = Voices /\ VerdictIsJust' = VerdictIsJust
      BY <3>1 DEF Voices, VerdictIsJust, Contribution, GenerateSignal, regime,
         FilterVerdicts, FilterChecks, VoteVerdicts, Tally, RegimeAnalyst
    <3> QED BY <1>2, <3>1, <3>2 DEF PathInv, Judged
  <2> QED BY <1>2, <2>1, <2>2, <2>3 DEF PathNext
<1> QED BY <1>1, <1>2, PTL DEF PathSpec

\* What the properties use of a judgement.
LEMMA JudgementIs ==
    ASSUME PathInv, Judged
    PROVE  LET v == verdict.voice
               c == verdict.context
           IN  /\ row \in Rows /\ SoundRow(row)
               /\ DOMAIN row \subseteq FeatureColumns \cup Measured
               /\ v.strategy \in Names
               /\ v.signal \in Contribution(v.strategy)
               /\ regime \in AllowedRegimes[v.strategy]
               /\ v.signal.score \in Int /\ v.signal.score >= MinQualified
               /\ c \in Contexts
               /\ \E rewarded \in RewardVerdicts(v.signal) :
                     verdict.passed = (FilterChecks(v, c) /\ rewarded)
               /\ \E voted \in VoteVerdicts(v, c) :
                     verdict.approved = (verdict.passed /\ voted)
<1>1. row \in Rows /\ VerdictIsJust
  BY DEF PathInv
<1>2. verdict.passed \in {FilterChecks(verdict.voice, verdict.context) /\ rewarded :
                            rewarded \in RewardVerdicts(verdict.voice.signal)}
  BY <1>1 DEF VerdictIsJust, FilterVerdicts
<1> QED BY <1>1, <1>2, VoiceIs, ScanAssumption DEF VerdictIsJust

\* Validation discards degenerate signals only (BaseStrategy.generate_signal and
\* the checks of Signal.__post_init__), whatever the columns hold.
THEOREM OnlyDegenerate == PathSpec => []OnlyDegenerateDiscarded
<1>1. PathInv => OnlyDegenerateDiscarded
  <2> SUFFICES ASSUME PathInv, Scanning, NEW s \in Sketch(Registered[position], row)
               PROVE  Accepted(s) \/ s.entry \in {s.stop, s.target}
    BY DEF OnlyDegenerateDiscarded
  <2>1. Registered[position] \in Names
    BY ScanAssumption DEF PathInv, Scanning
  <2> QED BY <2>1, SketchIsSound, ScanAssumption DEF PathInv, SoundSignal
<1> QED BY <1>1, PathInvariant, PTL

\* The trend follower (adx_trend.py) and the classifier agree but for a tie.
THEOREM TrendsAgree == PathSpec => []TrendAgreesWithRegime
<1>1. PathInv => TrendAgreesWithRegime
  <2> SUFFICES ASSUME PathInv, NEW i \in 1 .. Len(signals),
                      signals[i].strategy = "adx_trend", row.plus_di # row.minus_di
               PROVE  (signals[i].signal.direction = "LONG") = (regime = "STRONG_UPTREND")
    BY DEF TrendAgreesWithRegime
  <2>1. row \in Rows /\ signals[i] \in Voices
    BY DEF PathInv
  <2>2. signals[i].signal \in Contribution("adx_trend") /\ SoundRow(row)
    BY <2>1, VoiceIs, ScanAssumption
  <2> QED BY <2>2, TrendFollowerAgrees
<1> QED BY <1>1, PathInvariant, PTL

\* With the configured score of 75 or a stricter one nothing trades without a
\* trend, a quiet or a wild market (signal_scorer.py, trade_quality_filter.py).
THEOREM NoTradesInARange ==
    ASSUME MinQualified >= 75
    PROVE  PathSpec => []NothingTradesInARange
<1>1. PathInv => NothingTradesInARange
  <2> SUFFICES ASSUME PathInv, Judged, regime \in {"RANGE_BOUND", "CHOPPY"}
               PROVE  ~verdict.approved
    BY DEF NothingTradesInARange
  <2> DEFINE s == verdict.voice.signal
  <2>1. RewardVerdicts(s) = {FALSE}
    BY JudgementIs, NoReward
  <2>2. PICK rewarded \in RewardVerdicts(s) :
            verdict.passed = (FilterChecks(verdict.voice, verdict.context) /\ rewarded)
    BY JudgementIs
  <2>3. ~rewarded
    BY <2>1, <2>2
  <2>4. ~verdict.passed
    BY <2>2, <2>3
  <2> QED BY <2>4, JudgementIs
<1> QED BY <1>1, PathInvariant, PTL
-----------------------------------------------------------------------------
(* The calendar. *)

\* The event that decides is the first of those within the hour.
LEMMA FirstEvent ==
    ASSUME NEW events, \A e \in events : e.at \in Int, Near(events) # {}
    PROVE  \E first \in Near(events) : \A other \in Near(events) : first.at <= other.at
<1> DEFINE T == {e.at + 60 : e \in Near(events)}
<1>1. \A e \in Near(events) : e.at \in Int /\ e.at + 60 \in Nat
  <2> SUFFICES ASSUME NEW e \in Near(events) PROVE e.at \in Int /\ e.at + 60 \in Nat
    OBVIOUS
  <2>1. e.at \in Int /\ Distance(e.at, 0) <= 60
    BY DEF Near
  <2> QED BY <2>1 DEF Distance
<1>2. T \in SUBSET Nat /\ T # {}
  BY <1>1
<1>3. PICK n \in T : \A m \in T : n <= m
  <2> HIDE DEF T
  <2> QED BY <1>2, LeastElement
<1>4. PICK first \in Near(events) : n = first.at + 60
  OBVIOUS
<1>5. ASSUME NEW other \in Near(events) PROVE first.at <= other.at
  <2>1. first.at + 60 <= other.at + 60
    BY <1>3, <1>4
  <2> QED BY <1>1, <2>1
<1> QED BY <1>5

LEMMA OnlyEarlierMasks ==
    ASSUME NEW events, \A e \in events : e.at \in Int, NEW e \in Near(events),
           Distance(e.at, 0) <= 15, RiskState(events) # "blackout"
    PROVE  \E other \in Near(events) : other.at < e.at /\ Distance(other.at, 0) > 15
<1> DEFINE first == CHOOSE f \in Near(events) :
                        \A other \in Near(events) : f.at <= other.at
<1>1. Near(events) # {}
  OBVIOUS
<1>2. first \in Near(events) /\ \A other \in Near(events) : first.at <= other.at
  BY <1>1, FirstEvent, Zenon
<1>3. RiskState(events) = IF Distance(first.at, 0) <= 15 THEN "blackout" ELSE "elevated"
  BY <1>1, Zenon DEF RiskState
<1> HIDE DEF first
<1>4. ~(Distance(first.at, 0) <= 15)
  BY <1>3
<1>5. first.at \in Int /\ e.at \in Int /\ first.at <= e.at
  BY <1>2 DEF Near
<1>6. first.at # e.at
  BY <1>4
<1>7. first.at < e.at /\ Distance(first.at, 0) > 15
  BY <1>4, <1>5, <1>6 DEF Distance
<1> QED BY <1>2, <1>7

\* risk_state() in economic_calendar.py overlooks an event within a quarter of an
\* hour only behind an earlier one, whatever the calendar holds.
THEOREM BlackoutMasked == PathSpec => []BlackoutOnlyMasked
<1>1. PathInv => BlackoutOnlyMasked
  <2> SUFFICES ASSUME PathInv, Judged, NEW events, events = verdict.context.events,
                      NEW e \in Near(events), Distance(e.at, 0) <= 15
               PROVE  \/ RiskState(events) = "blackout"
                      \/ \E other \in Near(events) :
                            other.at < e.at /\ Distance(other.at, 0) > 15
    BY DEF BlackoutOnlyMasked
  <2>1. \A other \in events : other.at \in Int
    BY JudgementIs, ContextAssumption
  <2> QED BY <2>1, OnlyEarlierMasks
<1> QED BY <1>1, PathInvariant, PTL
-----------------------------------------------------------------------------
(* Better news. *)

Always == {"is_trading_allowed", "restricted", "events", "impact", "sentiment"}

\* The better context b says of one key what the best does, else what c says.
IsBetter(b, c, key) ==
    /\ key \in DOMAIN Best
    /\ \A k, default : Value(b, k, default) = IF k = key THEN Best[k] ELSE Value(c, k, default)
    /\ \A k \in Always : b[k] = IF k = key THEN Best[k] ELSE c[k]

LEMMA ImprovedIsBetter ==
    ASSUME NEW c, Always \subseteq DOMAIN c, NEW key \in DOMAIN Best
    PROVE  IsBetter(Improved(c, key), c, key)
<1> DEFINE b == Improved(c, key)
<1>1. /\ DOMAIN b = DOMAIN c \cup {key}
      /\ \A k \in DOMAIN b : b[k] = IF k = key THEN Best[key] ELSE c[k]
  BY DEF Improved
<1> HIDE DEF b
<1>2. ASSUME NEW k, NEW default
      PROVE  Value(b, k, default) = IF k = key THEN Best[k] ELSE Value(c, k, default)
  <2>1. CASE k = key
    BY <1>1, <2>1 DEF Value, Has
  <2>2. CASE k # key
    <3>1. k \in DOMAIN b <=> k \in DOMAIN c
      BY <1>1, <2>2
    <3> QED BY <1>1, <2>2, <3>1 DEF Value, Has
  <2> QED BY <2>1, <2>2
<1>3. \A k \in Always : b[k] = IF k = key THEN Best[k] ELSE c[k]
  BY <1>1
<1> QED BY <1>2, <1>3, Zenon DEF IsBetter, b

\* What passed the checks of the filter still passes.
LEMMA FilterIsMonotone ==
    ASSUME NEW v, NEW c, NEW b, NEW key, IsBetter(b, c, key), FilterChecks(v, c)
    PROVE  FilterChecks(v, b)
<1>1. \A k, default :
          Value(b, k, default) = Best[k] \/ Value(b, k, default) = Value(c, k, default)
  BY Zenon DEF IsBetter
<1>2. /\ Best["data_quality"] = "CLEAN" /\ Best["avg_volume"] = MinVolume
      /\ Best["spread_pct"] = 10 /\ Best["strategy_status"] = "ACTIVE"
      /\ Best["strategy_validated"] = TRUE /\ Best["is_trading_allowed"] = TRUE
      /\ Best["risk_approved"] = TRUE
  BY DEF Best
<1>3. /\ Value(c, "data_quality", "UNKNOWN") = "CLEAN"
      /\ Value(c, "avg_volume", 0) >= MinVolume
      /\ Value(c, "strategy_status", "UNDER_RESEARCH") \in {"ACTIVE", "WATCH"}
      /\ Value(c, "strategy_validated", FALSE)
      /\ c.is_trading_allowed
      /\ Value(c, "risk_approved", FALSE)
  BY Zenon DEF FilterChecks
<1>4. Value(b, "data_quality", "UNKNOWN") = "CLEAN"
  BY <1>1, <1>2, <1>3, Zenon
<1>5. Value(b, "avg_volume", 0) >= MinVolume
  <2>1. MinVolume >= MinVolume
    BY DEF MinVolume
  <2> QED BY <1>1, <1>2, <1>3, <2>1, Zenon
<1>6. Value(b, "spread_pct", NoSpread) <= MaxSpread
  <2>1. 10 <= MaxSpread
    BY DEF MaxSpread
  <2>2. Value(c, "spread_pct", NoSpread) <= MaxSpread
    BY Zenon DEF FilterChecks
  <2> QED BY <1>1, <1>2, <2>1, <2>2, Zenon
<1>7. Value(b, "strategy_status", "UNDER_RESEARCH") \in {"ACTIVE", "WATCH"}
  BY <1>1, <1>2, <1>3, Zenon
<1>8. Value(b, "strategy_validated", FALSE)
  BY <1>1, <1>2, <1>3, Zenon
<1>9. Value(b, "risk_approved", FALSE)
  BY <1>1, <1>2, <1>3, Zenon
<1>10. b.is_trading_allowed
  <2>1. b["is_trading_allowed"] = Best["is_trading_allowed"]
        \/ b["is_trading_allowed"] = c["is_trading_allowed"]
    BY Zenon DEF IsBetter, Always
  <2> QED BY <1>2, <1>3, <2>1, Zenon
<1>11. regime \in AllowedRegimes[v.strategy] /\ v.signal.score >= MinQualified
  BY Zenon DEF FilterChecks
<1> QED BY <1>4, <1>5, <1>6, <1>7, <1>8, <1>9, <1>10, <1>11, Zenon DEF FilterChecks

\* Only the calendar makes a blackout.
LEMMA BlackoutIs ==
    ASSUME NEW c
    PROVE  TradeRisk(c) = "blackout" <=> RiskState(c.events) = "blackout"
BY DEF TradeRisk

LEMMA QuietCalendar == RiskState({}) = "normal"
BY DEF RiskState, Near

\* No agent says less of a signal.
LEMMA AgentsAreMonotone ==
    ASSUME NEW v, NEW c, NEW b, NEW key, IsBetter(b, c, key),
           regime \in AllowedRegimes[v.strategy]
    PROVE  /\ MarketScanner(b) \in Int /\ MarketScanner(c) \in Int
           /\ MarketScanner(c) <= MarketScanner(b)
           /\ RegimeAnalyst(v, b) \in Int /\ RegimeAnalyst(v, c) \in Int
           /\ RegimeAnalyst(v, c) <= RegimeAnalyst(v, b)
           /\ NewsAnalyst(v, b) \in Int /\ NewsAnalyst(v, c) \in Int
           /\ NewsAnalyst(v, c) <= NewsAnalyst(v, b)
           /\ BacktestingAgent(b) \in Int /\ BacktestingAgent(c) \in Int
           /\ BacktestingAgent(c) <= BacktestingAgent(b)
           /\ ExecutionAgent(b) \in Int /\ ExecutionAgent(c) \in Int
           /\ ExecutionAgent(c) <= ExecutionAgent(b)
<1>1. \A k, default : Value(b, k, default) = IF k = key THEN Best[k] ELSE Value(c, k, default)
  BY Zenon DEF IsBetter
<1>2. /\ Best["candidates"] = 1 /\ Best["restricted"] = TRUE /\ Best["events"] = {}
      /\ Best["sentiment"] = "neutral" /\ Best["edge"] = TRUE
      /\ Best["trading_allowed"] = TRUE /\ Best["quantity"] = 1
  BY DEF Best
<1>3. MarketScanner(c) = 60 => MarketScanner(b) = 60
  <2> SUFFICES ASSUME Value(c, "candidates", 0) > 0 PROVE Value(b, "candidates", 0) > 0
    BY DEF MarketScanner
  <2>1. CASE key = "candidates"
    <3>1. Value(b, "candidates", 0) = 1
      BY <1>1, <1>2, <2>1, Zenon
    <3> QED BY <3>1
  <2>2. CASE key # "candidates"
    <3>1. Value(b, "candidates", 0) = Value(c, "candidates", 0)
      BY <1>1, <2>2, Zenon
    <3> QED BY <3>1
  <2> QED BY <2>1, <2>2
<1>4. RegimeAnalyst(v, c) = 70 => RegimeAnalyst(v, b) = 70
  <2>1. c.restricted => b.restricted
    BY <1>2, Zenon DEF IsBetter, Always
  <2> QED BY <2>1 DEF RegimeAnalyst
<1>5. /\ TradeRisk(b) = "blackout" => TradeRisk(c) = "blackout"
      /\ Contrary(v.signal.direction, b.sentiment) =>
            Contrary(v.signal.direction, c.sentiment)
  <2>1. b.events = {} \/ b.events = c.events
    BY <1>2, Zenon DEF IsBetter, Always
  <2>2. b.sentiment = "neutral" \/ b.sentiment = c.sentiment
    BY <1>2, Zenon DEF IsBetter, Always
  <2>3. RiskState(b.events) = "blackout" => RiskState(c.events) = "blackout"
    BY <2>1, QuietCalendar
  <2> QED BY <2>2, <2>3, BlackoutIs DEF Contrary
<1>6. BacktestingAgent(c) = 60 => BacktestingAgent(b) = 60
  <2>1. Value(c, "edge", FALSE) => Value(b, "edge", FALSE)
    BY <1>1, <1>2, Zenon
  <2> QED BY <2>1 DEF BacktestingAgent
<1>7. Value(c, "trading_allowed", FALSE) => Value(b, "trading_allowed", FALSE)
  BY <1>1, <1>2, Zenon
<1>8. Value(c, "quantity", 0) > 0 => Value(b, "quantity", 0) > 0
  <2>1. CASE key = "quantity"
    <3>1. Value(b, "quantity", 0) = 1
      BY <1>1, <1>2, <2>1, Zenon
    <3> QED BY <3>1
  <2>2. CASE key # "quantity"
    <3>1. Value(b, "quantity", 0) = Value(c, "quantity", 0)
      BY <1>1, <2>2, Zenon
    <3> QED BY <3>1
  <2> QED BY <2>1, <2>2
<1>9. /\ MarketScanner(b) \in {0, 60} /\ MarketScanner(c) \in {0, 60}
      /\ RegimeAnalyst(v, b) \in {50, 70} /\ RegimeAnalyst(v, c) \in {50, 70}
      /\ NewsAnalyst(v, b) \in {-90, -60, 55} /\ NewsAnalyst(v, c) \in {-90, -60, 55}
      /\ BacktestingAgent(b) \in {-30, 60} /\ BacktestingAgent(c) \in {-30, 60}
      /\ ExecutionAgent(b) \in {-100, 0, 70} /\ ExecutionAgent(c) \in {-100, 0, 70}
  BY DEF MarketScanner, RegimeAnalyst, NewsAnalyst, BacktestingAgent, ExecutionAgent
<1>10. NewsAnalyst(v, c) <= NewsAnalyst(v, b)
  BY <1>5 DEF NewsAnalyst
<1>11. ExecutionAgent(c) <= ExecutionAgent(b)
  <2>1. \/ ExecutionAgent(c) = -100
        \/ ExecutionAgent(c) = 0 /\ ExecutionAgent(b) \in {0, 70}
        \/ ExecutionAgent(c) = 70 /\ ExecutionAgent(b) = 70
    BY <1>7, <1>8, Zenon DEF ExecutionAgent
  <2> QED BY <1>9, <2>1
<1> QED BY <1>3, <1>4, <1>6, <1>9, <1>10, <1>11

\* The tally is not less either, and no veto appears.
LEMMA VoteIsMonotone ==
    ASSUME NEW v, NEW c, NEW b, NEW key, IsBetter(b, c, key),
           regime \in AllowedRegimes[v.strategy], v.signal.score \in Int,
           NEW voted \in VoteVerdicts(v, c), voted
    PROVE  TRUE \in VoteVerdicts(v, b)
<1>1. ~RiskVeto(c) /\ ~GovernorVeto(c)
  BY Zenon DEF VoteVerdicts
<1>2. ~RiskVeto(b) /\ ~GovernorVeto(b)
  <2>1. /\ Best["risk_decision"] = TRUE /\ Best["strategy_status"] = "ACTIVE"
        /\ \A k, default :
              Value(b, k, default) = IF k = key THEN Best[k] ELSE Value(c, k, default)
    BY DEF Best, IsBetter
  <2> QED BY <1>1, <2>1, Zenon DEF RiskVeto, GovernorVeto
<1> DEFINE before == Tally(v, c)
           after == Tally(v, b)
<1>3. before \in Int /\ after \in Int /\ before <= after
  <2>1. QuantResearcher(v) \in Int
    BY DEF QuantResearcher, AtMost
  <2> DEFINE m(x) == MarketScanner(x)
             r(x) == RegimeAnalyst(v, x)
             n(x) == NewsAnalyst(v, x)
             t(x) == BacktestingAgent(x)
             e(x) == ExecutionAgent(x)
             q == QuantResearcher(v)
  <2>2. /\ m(b) \in Int /\ m(c) \in Int /\ m(c) <= m(b)
        /\ r(b) \in Int /\ r(c) \in Int /\ r(c) <= r(b)
        /\ n(b) \in Int /\ n(c) \in Int /\ n(c) <= n(b)
        /\ t(b) \in Int /\ t(c) \in Int /\ t(c) <= t(b)
        /\ e(b) \in Int /\ e(c) \in Int /\ e(c) <= e(b)
    BY AgentsAreMonotone
  <2>3. /\ before = m(c) + r(c) + n(c) + q + t(c) + 90 + e(c) + 90
        /\ after = m(b) + r(b) + n(b) + q + t(b) + 90 + e(b) + 90
        /\ q \in Int
    BY <2>1 DEF Tally
  <2> HIDE DEF m, r, n, t, e, q, before, after
  <2> QED BY <2>2, <2>3
<1> HIDE DEF before, after
<1>4. VoteVerdicts(v, c) = IF before = 400 THEN BOOLEAN ELSE {before > 400}
  BY <1>1, Zenon DEF VoteVerdicts, before
<1>5. VoteVerdicts(v, b) = IF after = 400 THEN BOOLEAN ELSE {after > 400}
  BY <1>2, Zenon DEF VoteVerdicts, after
<1>6. before = 400 \/ before > 400
  BY <1>4, Zenon
<1>7. after = 400 \/ (after # 400 /\ (after > 400) = TRUE)
  BY <1>3, <1>6
<1> QED BY <1>5, <1>7, Zenon

\* Better news never cost a trade: neither a check of the filter nor an agent's
\* vote is lost when one fact of the context improves.
THEOREM BetterNewsHelp == PathSpec => []Monotone
<1>1. PathInv => Monotone
  <2> SUFFICES ASSUME PathInv, Judged, verdict.approved,
                      NEW v, NEW c, v = verdict.voice, c = verdict.context,
                      NEW key \in DOMAIN Best, NEW b, b = Improved(c, key)
               PROVE  TRUE \in FilterVerdicts(v, b) /\ TRUE \in VoteVerdicts(v, b)
    BY Zenon DEF Monotone
  <2>1. /\ regime \in AllowedRegimes[v.strategy]
        /\ v.signal.score \in Int
        /\ c \in Contexts
        /\ \E rewarded \in RewardVerdicts(v.signal) :
              verdict.passed = (FilterChecks(v, c) /\ rewarded)
        /\ \E voted \in VoteVerdicts(v, c) : verdict.approved = (verdict.passed /\ voted)
    BY JudgementIs
  <2>2. PICK voted \in VoteVerdicts(v, c) : verdict.approved = (verdict.passed /\ voted)
    BY <2>1
  <2>3. PICK rewarded \in RewardVerdicts(v.signal) :
            verdict.passed = (FilterChecks(v, c) /\ rewarded)
    BY <2>1
  <2>4. voted /\ rewarded /\ FilterChecks(v, c)
    BY <2>2, <2>3
  <2>5. Always \subseteq DOMAIN c
    BY <2>1, ContextAssumption DEF Always
  <2>6. IsBetter(b, c, key)
    BY <2>5, ImprovedIsBetter
  <2>7. TRUE \in FilterVerdicts(v, b)
    <3>1. FilterChecks(v, b)
      BY <2>4, <2>6, FilterIsMonotone
    <3>2. TRUE \in RewardVerdicts(v.signal)
      BY <2>4, Zenon DEF RewardVerdicts
    <3>3. TRUE = (FilterChecks(v, b) /\ TRUE)
      BY <3>1
    <3> QED BY <3>2, <3>3, Zenon DEF FilterVerdicts
  <2>8. TRUE \in VoteVerdicts(v, b)
    BY <2>1, <2>4, <2>6, VoteIsMonotone
  <2> QED BY <2>7, <2>8
<1> QED BY <1>1, PathInvariant, PTL
=============================================================================
