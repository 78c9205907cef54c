--------------------------- MODULE OrderPlacement ---------------------------
(***************************************************************************)
(* Placing orders: BrokerBuy2 and the commands of ftx.cpp that bear on it,  *)
(* the REST calls it makes, and the exchange as those calls see it.         *)
(*                                                                         *)
(* Zorro calls the plugin from one thread.  BrokerBuy2 posts an order under *)
(* a client id of its own making and then polls its status, half a second  *)
(* apart, until it is closed.  While it does, the exchange fills orders.    *)
(* Any request may fail before or after the exchange has acted on it.       *)
(***************************************************************************)
EXTENDS Integers

CONSTANTS
    MaxAttempts,    \* maxAttempts of BrokerBuy2
    Amounts,        \* |Amount|: lots per order
    OrderTypes,     \* values Zorro sets with SET_ORDERTYPE; 0 is the initial one
    Lots,           \* values of lotAmount, in the exchange's size increments
    MaxId,          \* bound on client ids, and on the clock they start from
    MaxCalls        \* bound on calls of BrokerBuy2

ASSUME OrderAssumption ==
    /\ MaxAttempts \in Nat \ {0}
    /\ 0 \in OrderTypes /\ OrderTypes \subseteq 0..2
    /\ Amounts \subseteq Nat \ {0}
    /\ Lots \subseteq Nat \ {0}
    /\ MaxId \in Nat
    /\ MaxCalls \in Nat

Ids      == 0..MaxId
Kinds    == {"market", "limit", "stop"}
Stages   == {"absent", "open", "closed"}
Outcomes == {"none", "trade", "notClosed", "error"}

VARIABLES
    now,            \* the clock at the last login, in seconds
    loggedIn,       \* ftxClient is there
    lastOrderId,    \* next client id
    orderType,      \* set by SET_ORDERTYPE: 0 FOK, 1 IOC, 2 GTC
    lotAmount,      \* set by SET_AMOUNT
    pc,             \* the call: "idle", "place", "poll", "check"
    calls,          \* calls made so far, and so the number of this call
    id,             \* client id of this call's order
    amount, asked,  \* its lots and its order type
    attemptNo,      \* polls made
    ack,            \* the last status polled: [status, filled]
    outcome,        \* how the last call ended
    fill,           \* what it stored through pFill
    status,         \* exchange: one of Stages, by client id
    kind,           \* exchange: order type
    size, filled,   \* exchange: ordered and filled size, in increments
    placedBy        \* exchange: the call that placed the order

session  == <<now, loggedIn, lastOrderId>>
settings == <<orderType, lotAmount>>
call     == <<calls, id, amount, asked>>
answer   == <<attemptNo, ack>>
ending   == <<outcome, fill>>
exchange == <<status, kind, size, filled, placedBy>>
vars     == <<session, settings, pc, call, answer, ending, exchange>>

TypeOK ==
    /\ now \in Ids
    /\ loggedIn \in BOOLEAN
    /\ lastOrderId \in 0..(MaxId + 1)
    /\ orderType \in OrderTypes
    /\ lotAmount \in Lots
    /\ pc \in {"idle", "place", "poll", "check"}
    /\ calls \in 0..MaxCalls
    /\ id \in Ids
    /\ amount \in Amounts
    /\ asked \in Kinds
    /\ attemptNo \in 0..MaxAttempts
    /\ ack \in [status : {"none"} \cup Stages, filled : Nat]
    /\ outcome \in Outcomes
    /\ fill \in Nat
    /\ status \in [Ids -> Stages]
    /\ kind \in [Ids -> Kinds]
    /\ size \in [Ids -> Nat]
    /\ filled \in [Ids -> Nat]
    /\ placedBy \in [Ids -> 0..MaxCalls]

Init ==
    /\ now = 0
    /\ loggedIn = FALSE
    /\ lastOrderId = 0
    /\ orderType = 0
    /\ lotAmount \in Lots
    /\ pc = "idle"
    /\ calls = 0
    /\ id = 0
    /\ amount \in Amounts
    /\ asked = "market"
    /\ attemptNo = 0
    /\ ack = [status |-> "none", filled |-> 0]
    /\ outcome = "none"
    /\ fill = 0
    /\ status = [i \in Ids |-> "absent"]
    /\ kind = [i \in Ids |-> "market"]
    /\ size = [i \in Ids |-> 0]
    /\ filled = [i \in Ids |-> 0]
    /\ placedBy = [i \in Ids |-> 0]

-----------------------------------------------------------------------------
(* Session and settings, between calls.                                    *)

\* A login without a client starts the client ids from the clock; with one it
\* only replaces the credentials.
Login ==
    /\ pc = "idle"
    /\ now' \in now..MaxId
    /\ loggedIn' = TRUE
    /\ lastOrderId' = IF loggedIn THEN lastOrderId ELSE now'
    /\ UNCHANGED <<settings, pc, call, answer, ending, exchange>>

Logout ==
    /\ pc = "idle"
    /\ loggedIn' = FALSE
    /\ UNCHANGED <<now, lastOrderId, settings, pc, call, answer, ending, exchange>>

SetOrderType(t) ==
    /\ pc = "idle"
    /\ orderType' = t
    /\ UNCHANGED <<session, lotAmount, pc, call, answer, ending, exchange>>

SetAmount(lot) ==
    /\ pc = "idle"
    /\ lotAmount' = lot
    /\ UNCHANGED <<session, orderType, pc, call, answer, ending, exchange>>

-----------------------------------------------------------------------------
(* BrokerBuy2.                                                             *)

\* A limit makes a limit order, else a stop distance that is neither 0 nor -1
\* a stop order, else a market order.
KindOf(limit, stopDist) ==
    IF limit > 0 THEN "limit"
    ELSE IF stopDist \notin {0, -1} THEN "stop" ELSE "market"

\* Slips of the two definitions below: no flag, and a fill that is truncated.
NeverIoc(k) == FALSE
Truncate(f, lot) == f \div lot

\* Only a market order is sent as immediate-or-cancel; orderType plays no part.
IsIoc(k) == k = "market"

\* *pFill: the filled size in lots, rounded to the nearest, halves up.
RoundToLots(f, lot) == (2 * f + lot) \div (2 * lot)

\* A slip of Buy: attemptNo is not reset.
BuyKeepsAttempts(lots, limit, stopDist) ==
    /\ pc = "idle" /\ calls < MaxCalls
    /\ IF loggedIn
       THEN /\ lastOrderId <= MaxId
            /\ pc' = "place"
            /\ calls' = calls + 1
            /\ id' = lastOrderId
            /\ lastOrderId' = lastOrderId + 1
            /\ amount' = lots
            /\ asked' = KindOf(limit, stopDist)
            /\ ack' = [status |-> "none", filled |-> 0]
            /\ outcome' = "none"
            /\ UNCHANGED attemptNo
       ELSE /\ outcome' = "error"
            /\ UNCHANGED <<lastOrderId, pc, call, answer>>
    /\ UNCHANGED <<now, loggedIn, settings, fill, exchange>>

\* A market order only if there is no limit and no stop, with the next client id.
Buy(lots, limit, stopDist) ==
    /\ pc = "idle" /\ calls < MaxCalls
    /\ IF loggedIn
       THEN /\ lastOrderId <= MaxId
            /\ pc' = "place"
            /\ calls' = calls + 1
            /\ id' = lastOrderId
            /\ lastOrderId' = lastOrderId + 1
            /\ amount' = lots
            /\ asked' = KindOf(limit, stopDist)
            /\ attemptNo' = 0
            /\ ack' = [status |-> "none", filled |-> 0]
            /\ outcome' = "none"
       ELSE /\ outcome' = "error"
            /\ UNCHANGED <<lastOrderId, pc, call, answer>>
    /\ UNCHANGED <<now, loggedIn, settings, fill, exchange>>

Fail(reason) == pc' = "idle" /\ outcome' = reason /\ UNCHANGED fill

\* placeOrder: the exchange takes an order under an unused id; an
\* immediate-or-cancel order is closed at once, with whatever it could fill.
\* The reply may be lost, and then the call fails although the order is there.
Accepted ==
    /\ pc = "place" /\ status[id] = "absent"
    /\ kind' = [kind EXCEPT ![id] = asked]
    /\ size' = [size EXCEPT ![id] = amount * lotAmount]
    /\ placedBy' = [placedBy EXCEPT ![id] = calls]
    /\ \E f \in 0..(amount * lotAmount) : filled' = [filled EXCEPT ![id] = f]
    /\ \E s \in IF IsIoc(asked) THEN {"closed"} ELSE {"open", "closed"} :
          status' = [status EXCEPT ![id] = s]
    /\ \/ pc' = "poll" /\ UNCHANGED ending
       \/ Fail("error")
    /\ UNCHANGED <<session, settings, call, answer>>

\* A slip of NotAccepted: the reply's error is not looked at.
NotAcceptedUnchecked ==
    /\ pc = "place"
    /\ pc' = "poll"
    /\ UNCHANGED <<session, settings, call, answer, ending, exchange>>

\* placeOrder throws and the exchange has taken nothing: the request was lost,
\* or refused (an id that is in use, a bad order).
NotAccepted ==
    /\ pc = "place"
    /\ Fail("error")
    /\ UNCHANGED <<session, settings, call, answer, exchange>>

\* A slip of Poll: the attempt is not counted.
PollUncounted ==
    /\ pc = "poll"
    /\ pc' = "check"
    /\ ack' = [status |-> status[id], filled |-> filled[id]]
    /\ UNCHANGED <<session, settings, call, attemptNo, ending, exchange>>

\* getOrderStatus by client id, and attemptNo++.
Poll ==
    /\ pc = "poll"
    /\ pc' = "check"
    /\ ack' = [status |-> status[id], filled |-> filled[id]]
    /\ attemptNo' = attemptNo + 1
    /\ UNCHANGED <<session, settings, call, ending, exchange>>

PollFails ==
    /\ pc = "poll"
    /\ Fail("error")
    /\ UNCHANGED <<session, settings, call, answer, exchange>>

\* The last attempt ends the call, whatever it brought ...
GiveUp ==
    /\ pc = "check" /\ attemptNo = MaxAttempts
    /\ Fail("notClosed")
    /\ UNCHANGED <<session, settings, call, answer, exchange>>

\* ... an earlier one sleeps, and polls again unless the order is closed.
PollAgain ==
    /\ pc = "check" /\ attemptNo # MaxAttempts /\ ack.status # "closed"
    /\ pc' = "poll"
    /\ UNCHANGED <<session, settings, call, answer, ending, exchange>>

\* A slip of Report: the status is not looked at.
ReportHasty ==
    /\ pc = "check" /\ attemptNo # MaxAttempts
    /\ pc' = "idle"
    /\ outcome' = "trade"
    /\ fill' = RoundToLots(ack.filled, lotAmount)
    /\ UNCHANGED <<session, settings, call, answer, exchange>>

\* The loop ends: price and fill are stored and the client id is returned.
Report ==
    /\ pc = "check" /\ attemptNo # MaxAttempts /\ ack.status = "closed"
    /\ pc' = "idle"
    /\ outcome' = "trade"
    /\ fill' = RoundToLots(ack.filled, lotAmount)
    /\ UNCHANGED <<session, settings, call, answer, exchange>>

-----------------------------------------------------------------------------
(* DO_CANCEL and the exchange.                                             *)

\* cancelOrder by client id: the exchange closes an open order.  What the
\* command returns is not kept: a cancellation changes nothing in the plugin.
Cancel(i) ==
    /\ pc = "idle" /\ loggedIn /\ status[i] = "open"
    /\ status' = [status EXCEPT ![i] = "closed"]
    /\ UNCHANGED <<session, settings, pc, call, answer, ending, kind, size,
                   filled, placedBy>>

\* An open order is filled further, is closed, or both.
ExchangeFills(i) ==
    /\ status[i] = "open"
    /\ \E f \in filled[i]..size[i] : filled' = [filled EXCEPT ![i] = f]
    /\ \E s \in {"open", "closed"} : status' = [status EXCEPT ![i] = s]
    /\ UNCHANGED <<session, settings, pc, call, answer, ending, kind, size, placedBy>>

-----------------------------------------------------------------------------
InCall ==
    Accepted \/ NotAccepted \/ Poll \/ PollFails \/ GiveUp \/ PollAgain \/ Report

Next ==
    \/ Login \/ Logout
    \/ \E t \in OrderTypes : SetOrderType(t)
    \/ \E lot \in Lots : SetAmount(lot)
    \/ \E lots \in Amounts, limit \in 0..1, stopDist \in -1..1 : Buy(lots, limit, stopDist)
    \/ InCall
    \/ \E i \in Ids : Cancel(i) \/ ExchangeFills(i)

\* A call that has begun goes on: each request returns or throws.
Spec == Init /\ [][Next]_vars /\ WF_vars(InCall)

-----------------------------------------------------------------------------
(* Properties.                                                             *)

\* A trade BrokerBuy2 reports is over at the exchange: nothing of it can still
\* be filled or cancelled after Zorro has booked it (lines 367-391).
ReportedIsClosed == outcome = "trade" => status[id] = "closed"

\* The order a call reports is the order it placed, although client ids start
\* from the clock at every login and may repeat (lines 103, 359).
ReportsOwnOrder == outcome = "trade" => placedBy[id] = calls

\* The fill Zorro books is the exchange's, to the nearest lot, and never more
\* than was ordered (line 385).
FillIsFaithful ==
    outcome = "trade" =>
        LET lot == size[id] \div amount
        IN  /\ fill <= amount
            /\ 2 * (fill * lot - filled[id]) \in (-lot)..lot

\* No market order rests at the exchange, even one whose call was told of an
\* error: a lost reply leaves at most a closed order behind (line 355).
MarketNeverRests ==
    \A i \in Ids : status[i] = "open" => kind[i] # "market"

\* BrokerBuy2 returns, whatever the exchange does with the order.
CallEnds == pc # "idle" ~> pc = "idle"

\* "order was not closed/filled" (ftx.cpp:373) is said only of such an order.
GivesUpOnOpenOrders == outcome = "notClosed" => ack.status # "closed"
=============================================================================
