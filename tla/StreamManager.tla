---------------------------- MODULE StreamManager ----------------------------
(***************************************************************************)
(* WSStreamManager (ftx_ws_stream_manager.cpp) over WsClient: the price    *)
(* cache the ticker callbacks fill on the io thread and BrokerAsset        *)
(* (ftx.cpp) reads on the Zorro thread.                                    *)
(*                                                                         *)
(* BrokerAsset makes sure a ticker stream is subscribed and then polls the *)
(* cache until there is a price.  The cache is never cleared: what a dead  *)
(* connection left in it is still a price.                                 *)
(*                                                                         *)
(* The exchange numbers its quotes.  A connection carries them in order;   *)
(* two connections may carry the same quotes at different speeds.          *)
(***************************************************************************)
EXTENDS WsClient, Sequences

CONSTANTS
    MaxQuote,   \* bound on the quotes
    MaxTries    \* maxNumTries of readTickerData

ASSUME FeedAssumption == MaxQuote \in Nat /\ MaxTries \in Nat

VARIABLES
    quote,      \* the number of the exchange's last quote
    wire,       \* wire[a]: quotes on their way over the connection at a
    tickPrices, \* m_tickPrices, 0 where there is no entry
    asked,      \* BrokerAsset is under way, for the market in stream
    numTries,   \* looks into the cache that found nothing
    lost,       \* the io thread has ended a connection of that market since the
                \* call began, or was already ending the one the call found
    price       \* price[s]: what BrokerAsset last returned for s, or 0

reader == <<asked, numTries, lost, price>>
feed   == <<quote, wire, tickPrices, reader>>
all    == <<vars, feed>>

FeedInit ==
    /\ Init
    /\ quote = 0
    /\ wire = [a \in Addr |-> <<>>]
    /\ tickPrices = [s \in Streams |-> 0]
    /\ asked = FALSE
    /\ numTries = 0
    /\ lost = FALSE
    /\ price = [s \in Streams |-> 0]

-----------------------------------------------------------------------------
(* BrokerAsset on the Zorro thread.                                        *)

\* subscribeTickerStream; a missing stream takes the further steps of WsClient.
Ask(s, force) ==
    /\ ~asked
    /\ Subscribe(s, force)
    /\ asked' = TRUE
    /\ numTries' = 0
    /\ lost' = \E a \in valid \ Wanted : name[a] = s
    /\ UNCHANGED <<quote, wire, tickPrices, price>>

\* A slip of Read: a look is not counted.
ReadUncounted ==
    /\ asked /\ zPc = "idle"
    /\ IF tickPrices[stream] # 0
       THEN /\ asked' = FALSE
            /\ price' = [price EXCEPT ![stream] = tickPrices[stream]]
            /\ UNCHANGED numTries
       ELSE /\ asked' = (numTries <= MaxTries)
            /\ UNCHANGED <<numTries, price>>
    /\ UNCHANGED <<vars, quote, wire, tickPrices, lost>>

\* readTickerData: one look into the cache, under its lock; with nothing there
\* another one 10 ms later, or no price at all.
Read ==
    /\ asked /\ zPc = "idle"
    /\ IF tickPrices[stream] # 0
       THEN /\ asked' = FALSE
            /\ price' = [price EXCEPT ![stream] = tickPrices[stream]]
            /\ UNCHANGED numTries
       ELSE /\ numTries' = numTries + 1
            /\ asked' = (numTries' <= MaxTries)
            /\ UNCHANGED price
    /\ UNCHANGED <<vars, quote, wire, tickPrices, lost>>

\* The other steps of the Zorro thread; a login ends between calls.
ZorroGoesOn ==
    /\ zPc # "destroy"
    /\ Zorro
    /\ UNCHANGED feed

Logout ==
    /\ ~asked
    /\ UnsubscribeAll
    /\ UNCHANGED feed

LoggedOut ==
    /\ Destroy
    /\ wire' = [a \in Addr |-> <<>>]
    /\ UNCHANGED <<quote, tickPrices, reader>>

-----------------------------------------------------------------------------
(* The io thread and the exchange.                                         *)

Carrying(a) == phase[a] \in {"open", "closing", "ghost"}

\* The ticker callback: insert_or_assign under the cache's lock.
Tick(a) ==
    /\ Serving /\ Carrying(a) /\ wire[a] # <<>>
    /\ tickPrices' = [tickPrices EXCEPT ![name[a]] = Head(wire[a])]
    /\ wire' = [wire EXCEPT ![a] = Tail(@)]
    /\ UNCHANGED <<vars, quote, reader>>

\* A handler stops its socket; what is on its way may still be delivered.
Stops(a) ==
    /\ IoStops(a)
    /\ lost' = (lost \/ name[a] = stream)
    /\ UNCHANGED <<quote, wire, tickPrices, asked, numTries, price>>

\* A connection ends, and with it what was on its way.
Ends(a) ==
    /\ IoDies(a) \/ IoThrows(a)
    /\ wire' = [wire EXCEPT ![a] = <<>>]
    /\ lost' = (lost \/ name[a] = stream)
    /\ UNCHANGED <<quote, tickPrices, asked, numTries, price>>

IoGoesOn ==
    /\ IoControl \/ IoStopped \/ \E a \in Addr : IoConnected(a)
    /\ UNCHANGED feed

\* A quote goes out on some of the open connections: the exchange leaves out
\* what it has not yet subscribed, and what it conflates.
NewQuote ==
    /\ quote < MaxQuote
    /\ quote' = quote + 1
    /\ \E on \in SUBSET {a \in Addr : Carrying(a)} :
          wire' = [a \in Addr |-> IF a \in on THEN Append(wire[a], quote') ELSE wire[a]]
    /\ UNCHANGED <<vars, tickPrices, reader>>

-----------------------------------------------------------------------------
FeedNext ==
    \/ \E s \in Streams, force \in Forces : Ask(s, force)
    \/ Read \/ ZorroGoesOn \/ Logout \/ LoggedOut
    \/ \E a \in Addr : Tick(a) \/ Stops(a) \/ Ends(a)
    \/ IoGoesOn \/ NewQuote

\* The Zorro thread does not stop in the middle of BrokerAsset.
FeedSpec == FeedInit /\ [][FeedNext]_all /\ WF_all(Read)

-----------------------------------------------------------------------------
(* Properties.                                                             *)

\* The price Zorro sees of a market never goes back to an older quote, although
\* connections die and are replaced while their quotes are on the way: a new one
\* is made only when no old one can deliver any more (BrokerAsset asks without
\* force; stream manager lines 62-71, 90).
PriceNeverGoesBack ==
    [][\A s \in Streams : price'[s] >= price[s]]_price

\* BrokerAsset polls the cache only of a market that has a connection nobody
\* stopped.  The exception is a connection the io thread stopped during this very
\* call, or had stopped and not yet released when findStream found it.  An entry
\* a dead connection left in the client's map does not pass for a stream (client
\* lines 211-219, 324-337).
AskedIsServed ==
    asked /\ zPc = "idle" => lost \/ \E a \in Wanted : name[a] = stream

\* Polling ends, with or without a price (stream manager lines 195-215).
ReadEnds == (asked /\ zPc = "idle") ~> ~asked
=============================================================================
