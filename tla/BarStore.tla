------------------------------ MODULE BarStore ------------------------------
(***************************************************************************)
(* HistoricalDataService.update_symbol (market_data/historical.py) over    *)
(* the bar table (database/repositories/market_data.py), one symbol and    *)
(* one timeframe, one caller at a time.                                    *)
(*                                                                         *)
(* A call reads the newest stored time stamp, asks for the bars from there *)
(* up to now, validates the answer and writes it in one transaction, while *)
(* the market moves on.                                                    *)
(***************************************************************************)
EXTENDS MarketFeed

CONSTANT
    Starts       \* the start times that callers ask for

ASSUME StoreAssumption == Starts \subseteq Nat \ {0}

Attempts == 3

VARIABLES
    stored,    \* the table: bars by time stamp
    call,      \* the call under way, or None
    begun      \* the starts whose call stored something

storevars == <<stored, call, begun>>

-----------------------------------------------------------------------------
\* The open is more than half away from the close before it.
Jumps(before, bar) ==
    LET gap == IF bar.open < before.close THEN before.close - bar.open
               ELSE bar.open - before.close
    IN  2 * gap > before.close

FaultyTradable(frame, spoilt) == ~spoilt

\* validate(): empty, spoilt (a price that is null, not positive or outside
\* the bar, a time stamp that is double or out of order, a negative volume) or
\* with a jump.  A warning does not count.
Tradable(frame, spoilt) ==
    /\ DOMAIN frame # {}
    /\ ~spoilt
    /\ \A t \in DOMAIN frame : t - 1 \in DOMAIN frame => ~Jumps(frame[t - 1], frame[t])

StoreInit == stored = [t \in {} |-> Bar(1, 1)] /\ call = None /\ begun = {}

FaultyFetchStart(start) ==
    IF DOMAIN stored = {} THEN start ELSE Max({start, Max(DOMAIN stored) + 1})

\* From the newest stored bar, which may have been forming, or a later start.
FetchStart(start) ==
    IF DOMAIN stored = {} THEN start ELSE Max({start, Max(DOMAIN stored)})

\* What the table is asked before the fetch.  Nothing happens when it is up to
\* date.
BeginUpdate ==
    /\ call = None
    /\ \E start \in Starts :
          /\ FetchStart(start) <= Now
          /\ call' = [start |-> start, from |-> FetchStart(start), to |-> Now,
                      failed |-> 0, frame |-> None]
    /\ UNCHANGED <<stored, begun>>

Fetching == call # None /\ call.frame = None

\* The bars asked for, as they are when the service answers.
Answer ==
    /\ Fetching
    /\ up
    /\ call' = [call EXCEPT !.frame = [t \in call.from .. call.to |-> bars[t]]]
    /\ UNCHANGED <<stored, begun>>

\* _retry(): after the third failure the error goes to the caller and the
\* transaction is rolled back.
FetchFails ==
    /\ Fetching
    /\ ~up
    /\ call' = IF call.failed + 1 < Attempts
               THEN [call EXCEPT !.failed = @ + 1] ELSE None
    /\ UNCHANGED <<stored, begun>>

Upsert(frame) ==
    [t \in DOMAIN stored \cup DOMAIN frame |->
        IF t \in DOMAIN frame THEN frame[t] ELSE stored[t]]

\* Frames that do not validate are dropped as a whole.
Store ==
    /\ call # None
    /\ call.frame # None
    /\ \E spoilt \in BOOLEAN :
          IF Tradable(call.frame, spoilt)
          THEN stored' = Upsert(call.frame) /\ begun' = begun \cup {call.start}
          ELSE UNCHANGED <<stored, begun>>
    /\ call' = None

\* The database raises, before or at the commit.
RollBack ==
    /\ call # None
    /\ call.frame # None
    /\ call' = None
    /\ UNCHANGED <<stored, begun>>

StoreNext == BeginUpdate \/ Answer \/ FetchFails \/ Store \/ RollBack
-----------------------------------------------------------------------------
(* Properties *)

\* Every stored bar but the newest is the final bar of the market: the newest
\* one was perhaps still forming when it was stored and is fetched again, and
\* no bar is left behind half formed, but for one that a caller started past.
FinalBehindNewest ==
    \A t \in DOMAIN stored :
        LET later == {u \in DOMAIN stored : u > t}
        IN  later # {} /\ Min(later) \notin begun => stored[t] = bars[t]

\* No two neighbours in the table are a jump apart, although every call only
\* validates its own answer, but where a caller started between them.
NoJumpStored ==
    \A t \in DOMAIN stored :
        t - 1 \in DOMAIN stored /\ t \notin begun => ~Jumps(stored[t - 1], stored[t])
=============================================================================
