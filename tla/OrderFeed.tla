------------------------------ MODULE OrderFeed ------------------------------
(***************************************************************************)
(* The order and fill lists of WSStreamManager (ftx_ws_stream_manager.cpp):*)
(* the callbacks of the two private channels append on the io thread, and  *)
(* readOrderData and readFillData take out on the caller's.                *)
(*                                                                         *)
(* An event carries the number m_id: on the orders channel the order's, on *)
(* the fills channel the fill's own.  Both readers compare it with the     *)
(* order's number and with its client id, which is a text: where it is     *)
(* empty std::stoll throws, and the lock was not taken by a guard object.  *)
(*                                                                         *)
(* Connections are those of WsClient.  One that is asked to stop before its *)
(* WebSocket handshake goes on all the same, and then its events arrive     *)
(* beside those of the connection that replaces it.                        *)
(***************************************************************************)
EXTENDS Integers, SequencesExt

CONSTANTS
    Orders,     \* orders, by the number the exchange gives them (m_id)
    ClientId,   \* the client id of each order, 0 where it has none
    FillIds,    \* numbers of fills, the i-th fill having the i-th
    Conns,      \* Conns[c]: bound on the connections of channel c at one time
    MaxEvents,  \* bound on the events of the exchange
    MaxTries    \* maxNumTries of the readers

\* A client id is not an order's number: the plugin's come from a clock of 32
\* bits, the exchange's are longer.
ASSUME OrderFeedAssumption ==
    /\ Orders \subseteq Nat \ {0}
    /\ ClientId \in [Orders -> Nat]
    /\ \A o, p \in Orders : ClientId[o] # p
    /\ MaxEvents \in Nat /\ MaxTries \in Nat
    /\ FillIds \in [1..MaxEvents -> Nat]

Channels == {"orders", "fills"}

VARIABLES
    made,       \* events the exchange has made
    state,      \* state[c][k]: of the connection k of channel c, see States
    wire,       \* wire[c][k]: events on their way over it
    haunted,    \* channels that had a connection stopped in vain
    data,       \* m_ordersData and m_fillsData
    locked,     \* locked[c]: the list's lock was left held by the caller's thread
    ioWaits,    \* the channel whose callback waits for a lock, or "none"
    call,       \* the reader's call: [of, order, tries], of = "none" between calls
    received,   \* received[c]: arrivals at the list, see Arrival
    taken       \* taken[c]: what the reader returned, [order, event] in turn

conns  == <<state, haunted>>
lists  == <<data, locked, ioWaits, received>>
reader == <<call, taken>>
vars   == <<made, wire, conns, lists, reader>>

\* "abandoned" and "ghost" as in WsClient; "connecting" includes the handshakes,
\* "closing" is a connection whose close has returned.
States == {"free", "connecting", "open", "closing", "abandoned", "ghost"}

\* No call is under way.
Idle == [of |-> "none", order |-> 0, tries |-> 0]

Init ==
    /\ made = 0
    /\ state = [c \in Channels |-> [k \in Conns[c] |-> "free"]]
    /\ wire = [c \in Channels |-> [k \in Conns[c] |-> <<>>]]
    /\ haunted = {}
    /\ data = [c \in Channels |-> <<>>]
    /\ locked = [c \in Channels |-> FALSE]
    /\ ioWaits = "none"
    /\ call = Idle
    /\ received = [c \in Channels |-> {}]
    /\ taken = [c \in Channels |-> <<>>]

-----------------------------------------------------------------------------
(* The exchange and the connections.                                       *)

\* The event of an order as the channel reports it over connection k:
\* Event::fromJson picks OrderData or FillData by the channel, and each has an
\* m_id of its own.
EventOf(c, o, k) ==
    [via |-> k, n |-> made + 1, order |-> o,
     id |-> IF c = "orders" THEN o ELSE FillIds[made + 1]]

\* An order changes or is filled in part; nobody sends again what was lost.
Happens(c, o) ==
    /\ made < MaxEvents
    /\ made' = made + 1
    /\ wire' = [wire EXCEPT ![c] = [k \in Conns[c] |->
                  IF state[c][k] \in {"open", "ghost"}
                  THEN Append(@[k], EventOf(c, o, k)) ELSE @[k]]]
    /\ UNCHANGED <<conns, lists, reader>>

\* The connections findStream finds: those the client has not stopped.
Up(c) == {k \in Conns[c] : state[c][k] \in {"connecting", "open"}}

\* What stop() makes of one: before the WebSocket handshake it only sets a flag.
Stopped(s) == IF s = "open" THEN {"closing"} ELSE {"closing", "abandoned"}

\* subscribeOrdersStream and subscribeFillsStream: a stream that is found stays,
\* or with force is stopped and replaced.
Subscribe(c, force) ==
    /\ call.of = "none"
    /\ \E new \in Conns[c] :
          /\ state[c][new] = "free"
          /\ \/ /\ Up(c) = {}
                /\ state' = [state EXCEPT ![c][new] = "connecting"]
                /\ UNCHANGED haunted
             \/ \E old \in Up(c) : \E s \in Stopped(state[c][old]) :
                /\ force
                /\ state' = [state EXCEPT ![c][old] = s, ![c][new] = "connecting"]
                /\ haunted' = IF s = "abandoned" THEN haunted \cup {c} ELSE haunted
    /\ UNCHANGED <<made, wire, lists, reader>>

\* A connection comes about, if the io thread is not stuck: a wanted one, after
\* the handlers that were ready when the one before it was closed, or one whose
\* flag nobody looks at.
Opens(c, k) ==
    /\ ioWaits = "none"
    /\ \/ /\ state[c][k] = "connecting"
          /\ \A l \in Conns[c] : state[c][l] = "closing" => wire[c][l] = <<>>
          /\ state' = [state EXCEPT ![c][k] = "open"]
       \/ /\ state[c][k] = "abandoned"
          /\ state' = [state EXCEPT ![c][k] = "ghost"]
    /\ UNCHANGED <<made, wire, haunted, lists, reader>>

\* A connection dies, and what was on its way with it; a stuck io thread does not
\* notice.
Drop(c, k) ==
    /\ state[c][k] # "free" /\ ioWaits = "none"
    /\ state' = [state EXCEPT ![c][k] = "free"]
    /\ wire' = [wire EXCEPT ![c][k] = <<>>]
    /\ UNCHANGED <<made, haunted, lists, reader>>

-----------------------------------------------------------------------------
(* The callbacks on the io thread.                                         *)

\* An event that came over a connection; two connections may bring the same one.
Arrival(e) == [via |-> e.via, n |-> e.n]

\* A slip of Callback: the list keeps one event of an order, as the price cache
\* keeps one price of a market.
CallbackReplaces(c, k) ==
    /\ ioWaits = "none" /\ wire[c][k] # <<>> /\ ~locked[c]
    /\ LET e == Head(wire[c][k])
       IN  /\ data' = [data EXCEPT ![c] = Append(SelectSeq(@, LAMBDA d : d.order # e.order), e)]
           /\ received' = [received EXCEPT ![c] = @ \cup {Arrival(e)}]
    /\ wire' = [wire EXCEPT ![c][k] = Tail(@)]
    /\ UNCHANGED <<made, conns, locked, ioWaits, reader>>

Callback(c, k) ==
    /\ ioWaits = "none" /\ wire[c][k] # <<>> /\ ~locked[c]
    /\ LET e == Head(wire[c][k])
       IN  /\ data' = [data EXCEPT ![c] = Append(@, e)]
           /\ received' = [received EXCEPT ![c] = @ \cup {Arrival(e)}]
    /\ wire' = [wire EXCEPT ![c][k] = Tail(@)]
    /\ UNCHANGED <<made, conns, locked, ioWaits, reader>>

\* The lock is never given back: the thread of every stream stands here for ever.
CallbackWaits(c, k) ==
    /\ ioWaits = "none" /\ wire[c][k] # <<>> /\ locked[c]
    /\ ioWaits' = c
    /\ UNCHANGED <<made, wire, conns, data, locked, received, reader>>

-----------------------------------------------------------------------------
(* The readers on the caller's thread.                                     *)

Read(c, o) ==
    /\ call.of = "none"
    /\ call' = [of |-> c, order |-> o, tries |-> 0]
    /\ UNCHANGED <<made, wire, conns, lists, taken>>

\* Slips of Matches: the order's own number is not looked at; an order without
\* a client id is taken to be any other.
MatchesClientId(e, o) == e.id = ClientId[o]
MatchesAny(e, o) == e.id = o \/ ClientId[o] = 0 \/ e.id = ClientId[o]

Matches(e, o) == e.id = o \/ (ClientId[o] # 0 /\ e.id = ClientId[o])

\* The first event is compared with a client id that is no number.
LookThrows ==
    /\ call.of # "none"
    /\ ClientId[call.order] = 0
    /\ data[call.of] # <<>> /\ ~Matches(Head(data[call.of]), call.order)
    /\ locked' = [locked EXCEPT ![call.of] = TRUE]
    /\ call' = Idle
    /\ UNCHANGED <<made, wire, conns, data, ioWaits, received, taken>>

Hits(c, o) == {i \in DOMAIN data[c] : Matches(data[c][i], o)}

\* A slip of LookFinds: the newest event is taken.
LookFindsLast ==
    /\ call.of # "none"
    /\ ClientId[call.order] # 0 \/ 1 \in Hits(call.of, call.order)
    /\ \E i \in Hits(call.of, call.order) :
          /\ \A k \in Hits(call.of, call.order) : i >= k
          /\ taken' = [taken EXCEPT ![call.of] =
                          Append(@, [order |-> call.order, event |-> data[call.of][i]])]
          /\ data' = [data EXCEPT ![call.of] = RemoveAt(@, i)]
    /\ call' = Idle
    /\ UNCHANGED <<made, wire, conns, locked, ioWaits, received>>

\* The oldest event that matches is taken out of the list and returned.
LookFinds ==
    /\ call.of # "none"
    /\ ClientId[call.order] # 0 \/ 1 \in Hits(call.of, call.order)
    /\ \E i \in Hits(call.of, call.order) :
          /\ \A k \in Hits(call.of, call.order) : i <= k
          /\ taken' = [taken EXCEPT ![call.of] =
                          Append(@, [order |-> call.order, event |-> data[call.of][i]])]
          /\ data' = [data EXCEPT ![call.of] = RemoveAt(@, i)]
    /\ call' = Idle
    /\ UNCHANGED <<made, wire, conns, locked, ioWaits, received>>

\* Nothing yet: another look later, or nothing at all.
LookMisses ==
    /\ call.of # "none" /\ Hits(call.of, call.order) = {}
    /\ ClientId[call.order] # 0 \/ data[call.of] = <<>>
    /\ call' = IF call.tries < MaxTries
               THEN [call EXCEPT !.tries = @ + 1]
               ELSE Idle
    /\ UNCHANGED <<made, wire, conns, lists, taken>>

-----------------------------------------------------------------------------
Next ==
    \/ \E c \in Channels :
          \/ \E o \in Orders : Happens(c, o) \/ Read(c, o)
          \/ \E force \in BOOLEAN : Subscribe(c, force)
          \/ \E k \in Conns[c] :
                Opens(c, k) \/ Drop(c, k) \/ Callback(c, k) \/ CallbackWaits(c, k)
    \/ LookThrows \/ LookFinds \/ LookMisses

Spec == Init /\ [][Next]_vars

-----------------------------------------------------------------------------
(* Properties.                                                             *)

Waiting(c) == {Arrival(data[c][i]) : i \in DOMAIN data[c]}
Returned(c) == {Arrival(taken[c][i].event) : i \in DOMAIN taken[c]}

\* An order update returned by readOrderData belongs to the order asked for,
\* by whichever of its two numbers it was found (line 253).
OwnUpdate ==
    \A i \in DOMAIN taken["orders"] :
        taken["orders"][i].event.order = taken["orders"][i].order

\* The updates of one order are returned in the order in which the exchange made
\* them and each once, however many wait and whatever connections come and go:
\* the search starts at the oldest and takes out what it returns (lines 250-258).
\* Where force replaced a stream that was still connecting, this holds only of the
\* updates that one connection brought: the replaced one brings them once more.
UpdatesInOrder ==
    \A i, j \in DOMAIN taken["orders"] :
        LET a == taken["orders"][i]
            b == taken["orders"][j]
        IN  i < j /\ a.order = b.order
                => \/ a.event.n < b.event.n
                   \/ "orders" \in haunted /\ a.event.via # b.event.via

\* What reached a list waits there until it is returned: events of the same
\* order do not displace each other, a read takes out no other event than the
\* one it returns, and a thrown read none (lines 124, 163, 225-234, 250-259).
\* An event that two connections bring is two arrivals, each returned once.
NothingIsLost ==
    \A c \in Channels :
        /\ Waiting(c) \cup Returned(c) = received[c]
        /\ Waiting(c) \cap Returned(c) = {}

\* readOrderData gives up on an order that has a client id only when no update of
\* it waits: at its last look the list holds none, so an update that came before
\* the reply to the order's placement is found as well (lines 246-264).  Without
\* a client id a look at a list that is not empty finds at once or throws.
NoFalseMiss ==
    [][/\ call.of = "orders" /\ ClientId[call.order] # 0
       /\ call'.of = "none" /\ taken' = taken
       => \A i \in DOMAIN data["orders"] : data["orders"][i].order # call.order]_vars
=============================================================================
