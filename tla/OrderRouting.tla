---------------------------- MODULE OrderRouting ----------------------------
(***************************************************************************)
(* An order on its way to the paper book, the shadow log or the broker:    *)
(* OrderManager.place_order (execution/order_manager.py) and               *)
(* AlpacaExecutor.submit (execution/alpaca_executor.py).                   *)
(*                                                                         *)
(* Both read the mode and the permission to trade in two separate calls of *)
(* SystemState, and nothing holds the mode still while an order is placed: *)
(* the control-plane routes change it from other threads between any two   *)
(* steps.  One order is placed at a time.  Quantities, prices and payloads *)
(* are left out.  The broker is external: it either receives an order and  *)
(* answers, receives it while the answer is lost, or never receives it.    *)
(***************************************************************************)
EXTENDS SystemState, FiniteSets

CONSTANTS
    Symbols,       \* the instruments traded
    MaxTickets,    \* bound on the number of tickets
    None           \* no call in progress

ASSUME MaxTicketsAssumption == MaxTickets \in Nat
ASSUME NoneIsNotARecord == None \notin [symbol : Symbols]

Sides == {"BUY", "SELL"}
OpenStatuses == {"PENDING", "SUBMITTED"}

VARIABLES
    tickets,      \* _open: every ticket ever made, in order
    call,         \* the place_order in progress, or None
    executions    \* what came of the tickets: the paper fills, the shadow log
                  \* entries and the orders the broker received

orvars == <<ssvars, tickets, call, executions>>

Ticket(symbol, side, m) ==
    [symbol |-> symbol, side |-> side, mode |-> m, status |-> "PENDING"]

\* An execution remembers which modes the system was in during the call.
Execution(venue) ==
    [ticket |-> Len(tickets), venue |-> venue,
     modes |-> {history[k].to : k \in call.since .. Len(history)}]
-----------------------------------------------------------------------------
(* The operations.  Definitions named Faulty... are not the code: each is a    *)
(* plausible bug in the definition after it.                                   *)

ORInit == SSInit /\ tickets = <<>> /\ call = None /\ executions = {}

\* place_order reads the mode.
ReadMode(symbol, side) ==
    /\ call = None
    /\ Len(tickets) < MaxTickets
    /\ call' = [symbol |-> symbol, side |-> side, mode |-> mode,
                stage |-> "mode read", since |-> Len(history)]
    /\ UNCHANGED <<ssvars, tickets, executions>>

At(stage) == call # None /\ call.stage = stage

FaultyHasDuplicate(symbol, side) ==
    \E i \in 1 .. Len(tickets) :
        /\ tickets[i].symbol = symbol
        /\ tickets[i].side = side
        /\ tickets[i].status = "SUBMITTED"

HasDuplicate(symbol, side) ==
    \E i \in 1 .. Len(tickets) :
        /\ tickets[i].symbol = symbol
        /\ tickets[i].side = side
        /\ tickets[i].status \in OpenStatuses

\* The permission to trade and the duplicate check; a failure raises.  The
\* ticket carries the mode read earlier, which also chooses the route.
OpenTicket ==
    /\ At("mode read")
    /\ IF IsTradingAllowed /\ ~HasDuplicate(call.symbol, call.side)
       THEN /\ tickets' = Append(tickets, Ticket(call.symbol, call.side, call.mode))
            /\ call' = [call EXCEPT !.stage = IF call.mode = "PAPER"
                                              THEN "filling" ELSE "submitting"]
       ELSE /\ call' = None
            /\ UNCHANGED tickets
    /\ UNCHANGED <<ssvars, executions>>

Close(status) ==
    /\ tickets' = [tickets EXCEPT ![Len(tickets)].status = status]
    /\ call' = None
    /\ UNCHANGED ssvars

PaperFill ==
    /\ At("filling")
    /\ executions' = executions \cup {Execution("paper")}
    /\ Close("FILLED")

\* Without a next open price the entry price is parsed: a signal without a
\* usable one raises, and the ticket stays as it is.
PaperFillRaises ==
    /\ At("filling")
    /\ call' = None
    /\ UNCHANGED <<ssvars, tickets, executions>>

\* submit() reads the mode again, and with it the route it will take.
SubmitReadMode ==
    /\ At("submitting")
    /\ call' = [call EXCEPT !.mode = mode, !.stage = "mode reread"]
    /\ UNCHANGED <<ssvars, tickets, executions>>

SubmitCheck ==
    /\ At("mode reread")
    /\ IF IsTradingAllowed
       THEN /\ call' = [call EXCEPT !.stage = "routed"]
            /\ UNCHANGED <<ssvars, tickets>>
       ELSE Close("REJECTED")
    /\ UNCHANGED executions

ShadowLog ==
    /\ At("routed") /\ call.mode = "SHADOW"
    /\ executions' = executions \cup {Execution("shadow log")}
    /\ Close("SUBMITTED")

FaultySubmitToBroker ==
    /\ At("routed") /\ call.mode # "SHADOW"
    /\ executions' = executions \cup {Execution("broker")}
    /\ Close("SUBMITTED")

SubmitToBroker ==
    /\ At("routed") /\ call.mode = "LIVE"
    /\ executions' = executions \cup {Execution("broker")}
    /\ Close("SUBMITTED")

\* The broker has the order but the call raised: the result says not accepted.
AnswerLost ==
    /\ At("routed") /\ call.mode = "LIVE"
    /\ executions' = executions \cup {Execution("broker")}
    /\ Close("REJECTED")

\* Without the SDK, on an error before the order left, or in a mode that does
\* not route to the broker, the result says not accepted.
NotSent ==
    /\ At("routed") /\ call.mode # "SHADOW"
    /\ Close("REJECTED")
    /\ UNCHANGED executions

\* Everything but a fill, which the account behind it takes part in.
RouteNext ==
    \/ \E symbol \in Symbols, side \in Sides : ReadMode(symbol, side)
    \/ OpenTicket
    \/ PaperFillRaises
    \/ SubmitReadMode
    \/ SubmitCheck
    \/ ShadowLog
    \/ SubmitToBroker
    \/ AnswerLost
    \/ NotSent
    \/ SSNext /\ UNCHANGED <<tickets, call, executions>>

ORNext == RouteNext \/ PaperFill

ORSpec == ORInit /\ [][ORNext]_orvars
-----------------------------------------------------------------------------
(* Properties *)

Stages == {"mode read", "filling", "submitting", "mode reread", "routed"}

\* At no time are there two open tickets for the same instrument and side,
\* tickets abandoned half-way by an exception included.
NoDuplicateOpen ==
    \A i, j \in 1 .. Len(tickets) :
        /\ i # j
        /\ tickets[i].symbol = tickets[j].symbol
        /\ tickets[i].side = tickets[j].side
        => {tickets[i].status, tickets[j].status} \cap {"FILLED", "REJECTED"} # {}

\* However the mode moves while an order is placed, a venue is used only if
\* the system was in that venue's mode at some moment of the same call.
VenueMatchesMode ==
    \A x \in executions :
        /\ x.venue = "paper" => "PAPER" \in x.modes
        /\ x.venue = "shadow log" => "SHADOW" \in x.modes
        /\ x.venue = "broker" => "LIVE" \in x.modes

\* The order manager promises to prevent duplicate orders for an instrument and
\* side.  After a lost answer the ticket counts as rejected and the same order
\* can be sent again.
BrokerHasNoDuplicates ==
    \A x, y \in executions :
        /\ x.venue = "broker"
        /\ y.venue = "broker"
        /\ tickets[x.ticket].symbol = tickets[y.ticket].symbol
        /\ tickets[x.ticket].side = tickets[y.ticket].side
        => x.ticket = y.ticket
=============================================================================
