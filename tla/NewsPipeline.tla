---------------------------- MODULE NewsPipeline ----------------------------
(***************************************************************************)
(* The news pipeline: a background task that polls the feeds, drops what   *)
(* has been seen before and publishes the items that matter                *)
(* (news/news_pipeline.py, news_aggregator.py, rss_fetcher.py).            *)
(*                                                                         *)
(* The feeds are external: a poll finds any subset of the items in them.   *)
(* Headlines, sentiment and relevance are abstracted to which items have   *)
(* an impact or relevance that is published, and the ranking to an         *)
(* arbitrary choice of the items that pass the limit.  _recent_items only  *)
(* informs trades and is left out.                                         *)
(***************************************************************************)
EXTENDS Integers, FiniteSetsExt

CONSTANTS
    AlpacaItems,    \* the items of the Alpaca news API
    RssItems,       \* the items of the RSS feeds
    Important,      \* those with a high impact or a high relevance
    PollLimit       \* limit of fetch_and_classify

NewsItems == AlpacaItems \cup RssItems

ASSUME NewsAssumption ==
    /\ AlpacaItems \cap RssItems = {}
    /\ Important \subseteq NewsItems
    /\ PollLimit \in Nat

VARIABLES
    polling,     \* _running
    pollTask,    \* where _task is: none, fetching, publishing or sleeping
    queue,       \* high_impact: the items this poll still has to publish
    rssSeen,     \* RSSFetcher._seen_ids
    seen,        \* NewsAggregator._seen
    published,   \* history: how often each item was published
    dropped      \* history: important items left out as too old or beyond the limit

npvars == <<polling, pollTask, queue, rssSeen, seen, published, dropped>>
-----------------------------------------------------------------------------
(* Definitions named Faulty... are not the code: each is a plausible bug in    *)
(* the definition after it.                                                    *)

NPInit ==
    /\ polling = FALSE /\ pollTask = "none"
    /\ queue = {}
    /\ rssSeen = {} /\ seen = {}
    /\ published = [i \in NewsItems |-> 0]
    /\ dropped = {}

\* start(): the task runs its first poll at once.
StartNews ==
    IF polling THEN UNCHANGED npvars
    ELSE /\ polling' = TRUE
         /\ pollTask' = "fetching"
         /\ UNCHANGED <<queue, rssSeen, seen, published, dropped>>

FaultyFreshItems(alpaca, rss) == alpaca \cup (rss \ rssSeen)

\* What the two deduplications let through.
FreshItems(alpaca, rss) == (alpaca \cup (rss \ rssSeen)) \ seen

\* _poll_once up to the publishing: old items are marked as seen, too, and of
\* the others the most relevant pass the limit.
FetchDone(alpaca, rss) ==
    /\ pollTask = "fetching"
    /\ rssSeen' = rssSeen \cup rss
    /\ seen' = seen \cup FreshItems(alpaca, rss)
    /\ \E old \in SUBSET FreshItems(alpaca, rss) :
         LET young == FreshItems(alpaca, rss) \ old
             size  == Min({PollLimit, Cardinality(young)})
         IN  \E kept \in kSubset(size, young) :
               /\ queue' = kept \cap Important
               /\ dropped' = dropped \cup ((FreshItems(alpaca, rss) \ kept) \cap Important)
    /\ pollTask' = "publishing"
    /\ UNCHANGED <<polling, published>>

FaultyFetchRaises(rss) ==
    /\ pollTask = "fetching"
    /\ Cardinality(rss \ rssSeen) >= 2
    /\ rssSeen' = rssSeen \cup rss
    /\ pollTask' = "none"
    /\ UNCHANGED <<polling, queue, seen, published, dropped>>

\* Two new RSS items, one dated with and one without a time zone, cannot be
\* sorted: the poll fails after the fetcher has marked them, and the loop's
\* except clause swallows it.
FetchRaises(rss) ==
    /\ pollTask = "fetching"
    /\ Cardinality(rss \ rssSeen) >= 2
    /\ rssSeen' = rssSeen \cup rss
    /\ pollTask' = "sleeping"
    /\ UNCHANGED <<polling, queue, seen, published, dropped>>

\* The bus swallows what the handlers raise.
Publish(i) ==
    /\ pollTask = "publishing"
    /\ i \in queue
    /\ queue' = queue \ {i}
    /\ published' = [published EXCEPT ![i] = @ + 1]
    /\ UNCHANGED <<polling, pollTask, rssSeen, seen, dropped>>

PollEnds ==
    /\ pollTask = "publishing" /\ queue = {}
    /\ pollTask' = "sleeping"
    /\ UNCHANGED <<polling, queue, rssSeen, seen, published, dropped>>

PollAgain ==
    /\ pollTask = "sleeping"
    /\ pollTask' = "fetching"
    /\ UNCHANGED <<polling, queue, rssSeen, seen, published, dropped>>

\* stop() cancels the task at the await it is in and waits until it is gone.
\* The thread of a fetch runs on; nobody reads what it marks, as the loop that
\* stops the pipeline does not start it again.
StopNews ==
    /\ polling' = FALSE
    /\ pollTask' = "none"
    /\ UNCHANGED <<queue, rssSeen, seen, published, dropped>>

PollNext ==
    \/ \E alpaca \in SUBSET AlpacaItems, rss \in SUBSET RssItems : FetchDone(alpaca, rss)
    \/ \E rss \in SUBSET RssItems : FetchRaises(rss)
    \/ \E i \in NewsItems : Publish(i)
    \/ PollEnds
    \/ PollAgain
-----------------------------------------------------------------------------
(* Properties *)

\* However often the feeds repeat an item, in one feed or in several polls, it
\* is published at most once, and never after it was left out; and an important
\* item the aggregator has marked as seen was published, is about to be, or was
\* left out on purpose: none is lost between two polls.
NewsHandledOnce ==
    /\ \A i \in NewsItems : published[i] <= 1
    /\ \A i \in dropped : published[i] = 0
    /\ \A i \in seen \cap Important :
          published[i] = 1 \/ i \in queue \/ i \in dropped

\* While the pipeline runs it keeps polling, although polls fail.
KeepsPolling == polling ~> (pollTask = "fetching" \/ ~polling)
=============================================================================
