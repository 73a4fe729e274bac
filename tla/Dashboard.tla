----------------------------- MODULE Dashboard -----------------------------
(***************************************************************************)
(* The cached pages of the operator dashboard (api/routers/dashboard.py):  *)
(* routes run in a pool of threads and share _TTLCache, whose lock is not  *)
(* held while a value is produced.  The page here is the market overview,  *)
(* which shows the last price, or nothing when the service does not        *)
(* answer: _guard turns the error into a value, and the cache keeps it.    *)
(*                                                                         *)
(* The clock is that of the bars.                                          *)
(***************************************************************************)
EXTENDS MarketFeed

CONSTANTS
    Threads,    \* the threads that serve the page
    Ttl         \* how long a value is served

ASSUME TtlAssumption == Ttl \in Nat \ {0}

VARIABLES
    cache,    \* the entry of the page and when it was asked for, or None
    request,  \* the request each thread works on, or None
    shown     \* when the market last showed each value

pagevars == <<cache, request, shown>>

\* What the page would show now.
Feed == IF up THEN Last ELSE None
-----------------------------------------------------------------------------
PageInit ==
    /\ cache = None
    /\ request = [th \in Threads |-> None]
    /\ shown = [v \in Prices \cup {None} |-> IF v = Feed THEN Now ELSE -Ttl]

Request(asked, stage, value) == [asked |-> asked, stage |-> stage, value |-> value]

Fresh(asked) == cache # None /\ asked - cache.stamp < Ttl

\* A request arrives, and the clock is read before the lock is taken.
Ask(th) ==
    /\ request[th] = None
    /\ request' = [request EXCEPT ![th] = Request(Now, "asked", None)]
    /\ UNCHANGED <<cache, shown>>

\* Under the lock: a fresh entry is the answer, otherwise the value is
\* produced without the lock.
LookUp(th) ==
    /\ request[th] # None
    /\ request[th].stage = "asked"
    /\ request' = [request EXCEPT ![th] =
                      IF Fresh(@.asked)
                      THEN Request(@.asked, "answered", cache.value)
                      ELSE Request(@.asked, "missed", None)]
    /\ UNCHANGED <<cache, shown>>

\* The producer reads the market; it may take any time before and after.
Produce(th) ==
    /\ request[th] # None
    /\ request[th].stage = "missed"
    /\ request' = [request EXCEPT ![th] = Request(@.asked, "produced", Feed)]
    /\ UNCHANGED <<cache, shown>>

FaultyPut(th) ==
    /\ request[th] # None
    /\ request[th].stage = "produced"
    /\ cache' = [stamp |-> Now, value |-> request[th].value]
    /\ request' = [request EXCEPT ![th].stage = "answered"]
    /\ UNCHANGED shown

\* The entry carries the time of the question, not that of the answer.
Put(th) ==
    /\ request[th] # None
    /\ request[th].stage = "produced"
    /\ cache' = [stamp |-> request[th].asked, value |-> request[th].value]
    /\ request' = [request EXCEPT ![th].stage = "answered"]
    /\ UNCHANGED shown

Respond(th) ==
    /\ request[th] # None
    /\ request[th].stage = "answered"
    /\ request' = [request EXCEPT ![th] = None]
    /\ UNCHANGED <<cache, shown>>

PageNext ==
    \E th \in Threads :
        Ask(th) \/ LookUp(th) \/ Produce(th) \/ Put(th) \/ Respond(th)

\* What a step of the market shows, and what it showed until then.
Watch ==
    shown' = [[shown EXCEPT ![Feed] = Now] EXCEPT ![Feed'] = Now']
-----------------------------------------------------------------------------
(* Properties *)

\* A page never shows what the market last showed longer ago than the time to
\* live before the question: neither a slow producer nor a cached outage, nor
\* an old value written over a newer one, makes an answer older than that.
PageIsFresh ==
    \A th \in Threads :
        request[th] # None /\ request[th].stage = "answered" =>
            shown[request[th].value] >= request[th].asked - Ttl
=============================================================================
