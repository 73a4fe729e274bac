--------------------------- MODULE ShadowTrading ---------------------------
(***************************************************************************)
(* Shadow trading: the engine that records orders nobody sends and         *)
(* compares them with the market (execution/shadow_engine.py), and the     *)
(* asyncio loop that drives it (orchestration/shadow_trading_loop.py).     *)
(*                                                                         *)
(* A tick awaits the signal function and the price function; while it      *)
(* waits, and while the loop sleeps, time passes, the session opens and    *)
(* closes, and other threads trip or re-arm the kill switch, which is      *)
(* taken from its abstract specification.  Both functions are external:    *)
(* they return anything or raise.  Quantities are 1; the paper book is     *)
(* reduced to the net position it mirrors.                                 *)
(***************************************************************************)
EXTENDS Integers, Sequences, Functions, KillSwitch

CONSTANTS
    Symbols,      \* the instruments the strategy trades
    Prices,       \* the positive prices seen in the market
    Delay,        \* reconcile_delay_seconds, in units of time
    Window,       \* observation_window_seconds, in units of time
    MaxOrders,    \* bound on the number of shadow orders
    None          \* no price: the market offered no liquidity

Sides == {"BUY", "SELL"}

\* A price function may also answer with a price that is not positive.
Answers == Prices \cup {0, None}

ASSUME ShadowAssumption ==
    /\ Prices \subseteq Nat \ {0}
    /\ Delay \in Nat /\ Window \in Nat /\ MaxOrders \in Nat
    /\ None \notin Int

VARIABLES
    running,     \* _running
    regular,     \* session.current_phase() is REGULAR
    pc,          \* where the loop is
    asked,       \* pending_symbols, the instruments the prices were asked for
    orders,      \* the engine's orders, oldest first
    position,    \* net quantity of each instrument in the paper book
    paperPnl,    \* _paper_pnl
    shadowPnl    \* _shadow_pnl

books == <<orders, position, paperPnl, shadowPnl>>
control == <<running, pc, asked>>
stvars == <<ksvars, regular, control, books>>
-----------------------------------------------------------------------------
(* Shadow orders.  Definitions named Faulty... are not the code: each is a     *)
(* plausible bug in the definition after it.                                   *)

\* The age of an order stops counting when it is resolved.
NewOrder(i) ==
    [symbol |-> i.symbol, side |-> i.side, intended |-> i.price,
     status |-> "PENDING", observed |-> None, age |-> 0]

Sign(o) == IF o.side = "BUY" THEN 1 ELSE -1

Pending == {k \in 1 .. Len(orders) : orders[k].status = "PENDING"}

IsPrice(p) == p # None /\ p > 0

\* observe_market of a pending order.
Observed(o, p) ==
    IF IsPrice(p) THEN [o EXCEPT !.status = "MATCHED", !.observed = p]
    ELSE [o EXCEPT !.status = "UNFILLABLE"]

\* expire_stale, for one order.
Expired(o) ==
    IF o.status = "PENDING" /\ o.age > Window
    THEN [o EXCEPT !.status = "EXPIRED"] ELSE o

FaultyDueAtOnce(prices) ==
    {k \in Pending : orders[k].symbol \in DOMAIN prices}

\* The pending orders a reconciliation with these prices observes.
Due(prices) ==
    {k \in Pending : orders[k].age >= Delay /\ orders[k].symbol \in DOMAIN prices}

\* The sum over the orders in S of a leg, for a price per order: what the order cost, as the book sees it.
Legs(price, S) == SumFunction([k \in S |-> -Sign(orders[k]) * price[k]])

FaultyReconcile(prices) ==
    LET due == Due(prices)
    IN  /\ orders' = [k \in 1 .. Len(orders) |->
                         Expired(IF k \in due
                                 THEN Observed(orders[k], prices[orders[k].symbol])
                                 ELSE orders[k])]
        /\ LET matched == {k \in due : IsPrice(prices[orders[k].symbol])}
           IN  /\ paperPnl' = paperPnl + Legs([k \in due |-> orders[k].intended], due)
               /\ shadowPnl' = shadowPnl
                     + Legs([k \in matched |-> prices[orders[k].symbol]], matched)

\* reconcile(): observe what is due, account for what matched, then expire.
Reconcile(prices) ==
    LET due == Due(prices)
        matched == {k \in due : IsPrice(prices[orders[k].symbol])}
    IN  /\ orders' = [k \in 1 .. Len(orders) |->
                         Expired(IF k \in due
                                 THEN Observed(orders[k], prices[orders[k].symbol])
                                 ELSE orders[k])]
        /\ paperPnl' = paperPnl + Legs([k \in matched |-> orders[k].intended], matched)
        /\ shadowPnl' = shadowPnl + Legs([k \in matched |-> prices[orders[k].symbol]], matched)
-----------------------------------------------------------------------------
(* The loop. *)

STInit ==
    /\ KSInit
    /\ running = TRUE
    /\ regular \in BOOLEAN
    /\ pc = "awake"
    /\ asked = {}
    /\ orders = <<>>
    /\ position = [s \in Symbols |-> 0]
    /\ paperPnl = 0
    /\ shadowPnl = 0

Go(label) == pc' = label /\ asked' = {} /\ UNCHANGED <<ksvars, regular, running>>

\* The top of run(): leave the loop, skip the tick, or ask for signals.
BeginTick ==
    /\ pc = "awake"
    /\ CASE ~running            -> Go("finished")
         [] running /\ (tripped \/ ~regular) -> Go("asleep")
         [] running /\ ~tripped /\ regular   -> Go("awaiting_signals")
    /\ UNCHANGED books

\* The signals arrive: each intent becomes a shadow order and is mirrored in
\* the paper book.  If the answer, or an intent after these, is unusable the
\* tick ends there, with the intents before it recorded.
RecordIntents(intents, fails) ==
    /\ pc = "awaiting_signals"
    /\ Len(orders) + Len(intents) <= MaxOrders
    /\ orders' = orders \o [k \in 1 .. Len(intents) |-> NewOrder(intents[k])]
    /\ position' = [s \in Symbols |-> position[s]
                      + SumFunction([k \in {j \in 1 .. Len(intents) : intents[j].symbol = s}
                                        |-> Sign(intents[k])])]
    /\ IF fails THEN Go("asleep") ELSE Go("recorded")
    /\ UNCHANGED <<paperPnl, shadowPnl>>

FaultyAskPrices ==
    /\ pc = "recorded"
    /\ asked' = {orders[k].symbol : k \in {j \in Pending : orders[j].age < Delay}}
    /\ pc' = IF asked' = {} THEN "asleep" ELSE "awaiting_prices"
    /\ UNCHANGED <<ksvars, regular, running, books>>

\* Prices are asked for the instruments of the pending orders, if there are any.
AskPrices ==
    /\ pc = "recorded"
    /\ asked' = {orders[k].symbol : k \in Pending}
    /\ pc' = IF asked' = {} THEN "asleep" ELSE "awaiting_prices"
    /\ UNCHANGED <<ksvars, regular, running, books>>

\* Prices arrive, for some of the instruments asked for.
PricesArrive ==
    /\ pc = "awaiting_prices"
    /\ \E got \in SUBSET asked \ {{}} : \E prices \in [got -> Answers] :
          Reconcile(prices)
    /\ Go("asleep")
    /\ UNCHANGED position

\* The price function raises, or answers with nothing.
NoPricesArrive ==
    /\ pc = "awaiting_prices"
    /\ Go("asleep")
    /\ UNCHANGED books

Wake == pc = "asleep" /\ Go("awake") /\ UNCHANGED books

Stop ==
    /\ running
    /\ running' = FALSE
    /\ UNCHANGED <<ksvars, regular, pc, asked, books>>

\* The world: the clock (an order is not followed beyond the window), the
\* session and the kill switch.
Elapse ==
    /\ \E k \in Pending : orders[k].age <= Window
    /\ orders' = [k \in 1 .. Len(orders) |->
                     IF k \in Pending /\ orders[k].age <= Window
                     THEN [orders[k] EXCEPT !.age = @ + 1] ELSE orders[k]]
    /\ UNCHANGED <<ksvars, regular, control, position, paperPnl, shadowPnl>>

SessionChanges ==
    /\ regular' = ~regular
    /\ UNCHANGED <<ksvars, control, books>>

Intents == [symbol : Symbols, side : Sides, price : Prices]

SignalsArrive(fails) ==
    \E n \in 0 .. 2 : \E intents \in [1 .. n -> Intents] :
        RecordIntents(intents, fails)

Loop ==
    \/ BeginTick
    \/ \E fails \in BOOLEAN : SignalsArrive(fails)
    \/ AskPrices
    \/ PricesArrive
    \/ NoPricesArrive
    \/ Wake

World ==
    \/ Stop
    \/ Elapse
    \/ SessionChanges
    \/ KSNext /\ UNCHANGED <<regular, control, books>>

STNext == Loop \/ World

STSpec == STInit /\ [][STNext]_stvars

\* The event loop resumes whatever is ready and time goes on.
LoopSpec == STSpec /\ WF_stvars(Loop) /\ WF_stvars(Elapse)

\* Moreover a strategy and a price source that are asked again and again give
\* a usable answer at last.
FeedSpec ==
    LoopSpec /\ SF_stvars(SignalsArrive(FALSE)) /\ SF_stvars(PricesArrive)
-----------------------------------------------------------------------------
(* Properties *)

\* The two profit figures handed to the divergence gate are taken over the
\* same orders, the matched ones, at intended and at observed prices.
PnlFromMatches ==
    LET matched == {k \in 1 .. Len(orders) : orders[k].status = "MATCHED"}
    IN  /\ paperPnl = Legs([k \in matched |-> orders[k].intended], matched)
        /\ shadowPnl = Legs([k \in matched |-> orders[k].observed], matched)

\* No order is compared with the market before the delay, and none is given up
\* before the window has passed, whatever ticks were skipped in between.
NotResolvedEarly ==
    \A k \in 1 .. Len(orders) :
        /\ orders[k].status \in {"MATCHED", "UNFILLABLE"} => orders[k].age >= Delay
        /\ orders[k].status = "EXPIRED" => orders[k].age > Window

Undisturbed == running /\ regular /\ ~tripped

\* In a session that stays open, with the loop running and no stop, every
\* pending order is resolved in the end, if the price source goes on answering.
\* It is not if the source stays silent: only a reconciliation expires orders.
OrdersGetResolved ==
    <>[]Undisturbed => \A k \in 1 .. MaxOrders : []<>(k \notin Pending)
=============================================================================
