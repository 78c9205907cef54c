# A TLA+ model of the FTX Zorro plugin

The plugin is a C++ library that lets the trading program Zorro buy, sell and read
prices at the FTX exchange. This directory models its logic in TLA+, checks the
models with TLC on small instances and proves the results that matter most with
TLAPS. File names below are relative to `src/` of the repository.

    tlc -config WsClient.cfg MCWsClient.tla      # a run; all are listed under "Runs"
    tlapm WsClientProofs.tla                     # the proofs of a module

## 1. The system

Two threads matter. Zorro calls the `Broker...` functions one at a time on its own
thread (the *Zorro thread*) and is blocked while they run. The *io thread*, started
by `WebSocketClient::run`, runs the completion handlers of all sockets one at a time.

| Part | State | Operations | Talks to |
|---|---|---|---|
| Plugin interface, `src/ftx.cpp` | REST client, stream manager, logger, next client id, order type, lot amount | `BrokerLogin` (and logout), `BrokerAsset`, `BrokerHistory2`, `BrokerBuy2`, `BrokerCommand`, and readers of one reply | calls the parts below |
| `RESTClient`, `HTTPSession` | credentials | one blocking HTTPS request per method; history by pages | the exchange |
| `WSStreamManager` | price cache, order and fill lists, a lock for each | subscribe a channel, read (poll with a time limit), callbacks that store | owns a `WebSocketClient`; callbacks run on the io thread, reads on the Zorro thread |
| `WebSocketClient` | map of sockets by address (weak pointers), io thread, flag `m_isRunning`, io_context | start a channel, find, unsubscribe one or all, `run` | owns the io thread; sockets are held by their pending handlers only |
| `WebSocket` | request queue, buffers, stop flag, ping timer, two time stamps | resolve, connect, two handshakes, read, write, ping, stop | the exchange; calls back into the client |
| Time conversions, `src/ftx_api/utils.cpp` | none | date text to seconds, date to variant time | used by history |
| JSON models, `src/ftx_api/ftx_models.cpp` | none | objects from and to JSON | used by all |

What is hard to test here:

- a completion handler can meet an unsubscribe of the Zorro thread at every stage of
  a connection, and errors can arrive for a read and a write at once;
- the synchronous close in `stop()` makes a thread wait for the peer;
- the two threads agree on who serves sockets by a flag that is written in three
  places, and a thread that ends looks like one that runs for a short while;
- the io thread has a socket before the map does, and stops and releases sockets at any
  moment, also while the Zorro thread looks for one;
- a stream stopped before its WebSocket handshake goes on beside the one that replaces it;
- a request may be lost before or after the exchange has acted on it;
- login makes three things (log, REST client, streams) and logout takes them away in
  three steps, while the io thread runs and logs; a second login changes one of them;
- a member missing in the exchange's JSON silently becomes a zero;
- orders are filled further while their status is being polled;
- paging walks back in time while the exchange adds candles;
- date arithmetic at leap years and turns of centuries.

What makes each part correct:

- *WebSocket*: its callback hears of at most one error and of no event after it; a
  private channel logs in before it subscribes; an open stream is watched by the ping
  timer, a well peer is never taken for dead, a silent one is found out; a close ends
  unless the peer has fallen silent.
- *WebSocketClient*: a live socket can be found and there is one per stream; the thread
  in `io_context::run` has the flag set; an exception does not end the service;
  logout ends.
- *WSStreamManager*: the price of a market does not go back; a market polled has a
  connection; what a connection brings of an order comes out once, in order, for the right
  order.
- *Session*: a call that reports success was carried out, once, under the credentials in
  force; nothing runs without the log or the streams it uses while logged in; no price or
  position is the default of a struct.
- *Orders*: what is reported as a trade is the call's own order, closed at the
  exchange, with its true fill.
- *History*: no candle twice, none missing, none out of order, none too many.

`PROJECT.json` lists the components and, line by line, the hazards.

## 2. Modules

| Module | Models | Proofs |
|---|---|---|
| `StreamContract` | what one socket promises its callback (abstract) | |
| `WebSocket` | `ftx_websocket.cpp` with the callback of `startChannel` | `WebSocketProofs` |
| `KeepAlive` | the ping/pong watch of one connection, in time | `KeepAliveProofs` |
| `WsClient`, `MCWsClient` | `ftx_ws_client.cpp` as the stream manager drives it | `WsClientProofs` |
| `StreamManager`, `MCStreamManager` | ticker cache and `BrokerAsset`, extending `WsClient` | `WsClientProofs` |
| `OrderFeed`, `MCOrderFeed` | order and fill lists and their readers | `OrderFeedProofs` |
| `OrderPlacement` | `BrokerBuy2`, login, settings, cancellation, and an exchange | `OrderPlacementProofs` |
| `History`, `MCHistory` | `BrokerHistory2` and `getHistoricalPrices` | `HistoryProofs` |
| `Calendar`, `MCCalendar` | `mkgmtime`, `systemTimeToVariantTimeMs` | `CalendarProofs` |
| `RestCall` | what a REST method promises its caller (abstract) | |
| `Models` | `readValue`, `readEnum` and the `fromJson` functions | |
| `Request` | one HTTPS request and the checks of its response, extending `Models`; refines `RestCall` | `SessionProofs` |
| `Session`, `MCSession` | login, logout and the calls that ask once, extending `Request` | `SessionProofs` |

How they fit: `WebSocket` takes one socket apart; `WsClient` has many of them with one
phase each (connecting, handshake, open, closing, and the two phases of a socket that was
stopped too early, abandoned and ghost) and keeps all steps of the two threads apart;
`StreamManager` adds the data that flows through them. `KeepAlive` looks at the time stamps
`WebSocket` leaves out, over its stages connecting, connected (TLS handshake), shaking
(WebSocket handshake) and open: a ping can be written from shaking on, and a control frame
is read once open. `OrderFeed` has the sockets of its two channels with the phases of
`WsClient`, the handshakes joined to connecting, since two connections may bring the same
event: what it counts are arrivals, an event together with its connection.
`Calendar` discharges what `History` takes for granted, that time texts become numbers.
`Session` drives `Request` stage by stage and knows of the streams only that they are
there, that the io thread may run and what quote the cache holds; `OrderPlacement` and
`History` take each request as one step that returns or throws, which is what `RestCall`
says of it and what `Session` is shown to implement.

The two abstract specifications are reached by refinement mappings: `WebSocket` gives the
phase of `StreamContract` by the operations still pending, and `Request` that of `RestCall`
by the stage it is in (any stage is "asked", an ended request is what its outcome says).

State corresponds to code by name: TLA+ variables have the names of the C++ members
and globals (`m_` dropped), or, for `pc`-like variables, the place of a thread in the
source. An action is one handler, or one access to state that the other thread shares;
`PROJECT.json` gives the lines of each definition.

*Slips.* Beside some definitions stand altered versions, introduced by a comment "A slip
of ...". They are plausible mistakes (a dropped guard, a missing reset). No
specification uses them; putting one in the place of its original makes TLC report
the property it is meant for, which shows that the property depends on that line.

### Points of interpretation

- `stop()` tests the `is_open` of the TCP socket. Up to the end of the TLS handshake the
  close finds a WebSocket stream that has not begun and returns at once, so only the flag
  is set, and no success path reads it. From the WebSocket handshake on the close sends a
  frame and waits for the peer, on the Zorro thread or on the io thread, which then runs
  no handler. A handshake that completes while the Zorro thread waits opens the stream.
- The ping timer's handler has a raw pointer. `WebSocket` lets it run after the object
  is gone (`TimerOrphan`) and takes it to do nothing visible; what it really does is
  undefined, and the model claims nothing beyond.
- In `WsClient` the close of the Zorro thread takes no time, and that of the io thread
  lasts from `IoStops` to `IoStopped`. A stopped socket is released later (`IoDies`), and
  until then `findStream` finds it. That a close ends is `CloseEnds` of `WebSocket`; with a
  peer that has fallen silent it need not, since the code sets no timeout.
- The exchange refuses a client id in use. Without that `ReportsOwnOrder` would be false,
  since ids start from the clock at every login.
- Sizes are whole numbers of the exchange's increment and prices are left out: rounding
  to lots (`RoundToLots`) is exact, the rounding of doubles before it is not modelled.
- `convertTime` and the variant time are pairs of a day and a remainder, exact where
  the code uses doubles.
- The log is spdlog's. `basic_logger_mt` throws for a name that is registered,
  `shutdown` drops all loggers, and logging through the default logger after it follows
  a null pointer. In `Session` such a call is the state "crashed". `basic_logger_mt` also
  throws when `./Log/ftx.log` cannot be opened; `opened` remembers how that went last.
- `Reject` of `History` leaves out the missing asset, array or client: the outcome is the same
  as that of the other rejected arguments. The product of ticks and resolution has 32 bits
  in the code; with the number of ticks `GET_MAXTICKS` tells Zorro, and bars of a month at
  most, it does not overflow. The upper bound of 30 days on a resolution, of which
  `ftx_rest_client.h:42` speaks, is not tested by the code; no property is about it.
- Of JSON, `Models` keeps the kinds of values its readers tell apart: absent or null, a
  zero, another number, a string the reader looks for, any other string. A struct member
  is then the kind it was read from, "default", or "throws".
- `json["result"]` and `json["positions"]` on a constant object without the member are
  undefined in the library; the exchange of `Session` always sends them.
- A written request may be acted on at any later time, also when its connection broke
  while it was being written. The exchange judges credentials when it acts.
- In `Session` the poll of `readTickerData` is one state, left at any time: how it ends is
  `StreamManager`'s subject. Orders and history are left to their own modules.
- In `OrderFeed` a client id is a number that is no order's number; 0 stands for none.
  A look at a list for an order without one throws with the lock held (`LookThrows`),
  and the io thread then waits for good (`CallbackWaits`). The plugin's own orders
  always have one, so this hurts a caller that reads for orders placed elsewhere.
- `readFillData` compares the order's numbers with the fill's own number instead of
  `m_orderId`. The model does the same, and so `OwnUpdate` and `NoFalseMiss` speak of
  the orders channel only; of fills both are false.

## 3. Runs

| Run | Instance | Shows |
|---|---|---|
| `websocket` | one connection, public or private, 2 frames of any kind | one error at most, login first, watched while open, refines `StreamContract`; closes end and subscriptions get across unless the peer is silent |
| `websocket_unsubscribe` | the same | *violated*: a stream unsubscribed before its WebSocket handshake delivers events later |
| `keepalive` | interval 3, delay 1, latency 2, 24 units of time | no false alarm, silence is bounded |
| `wsclient` | 2 streams, 3 addresses, with and without force | flag, map and uniqueness; exceptions are contained; logout ends |
| `wsclient_stranded` | 1 stream | *violated*: a stream subscribed as the thread leaves has no thread |
| `stream_manager` | 1 market, 2 addresses, 3 quotes, 3 looks | prices do not go back, a polled market has a connection, polling ends |
| `order_feed` | 2 orders, one without a client id; 2 connections of the orders channel, 1 of fills; 2 events | what a connection brings comes out once, in order, to its order, none is lost or overlooked |
| `orders` | 2 calls, 2 ids, 3 polls, lots of 2 and 3 | a reported trade is own, closed, rounded truly; market orders never rest; calls end |
| `orders_give_up` | 10 polls as in the code, 1 call | *violated*: the last poll's answer is thrown away |
| `history` | every set of 6 candles, pages of 2, one-minute candles and a length the exchange does not have, up to 5 slots | pages fit, nothing missing, array not overrun, paging ends |
| `session` | 2 requests; a known, an unknown and an empty account; a member of each type in a reply absent, null, zero, a number or a text | success is served once and for the right account, the log and the streams outlive their users, prices and positions are real, refines `RestCall` |
| `calendar` | every day of 1970 to 2101, four times of day | both conversions count the days |

Bounds, and why they are enough:

- `MaxMessages` 2: a frame that is accepted and one more that may be of another kind; no
  handler remembers more than the last. The queue of requests has its real length, 2.
- `Horizon` 24 with an interval of 3: eight pings, while a peer is forgotten after two.
- Three addresses: a stream being replaced, its successor, and an old socket that is
  still closing or connecting. Subscribing waits for a free address (`Live # Addr`).
- `MaxAttempts` 3 instead of 10 in `orders`: the first, a middle and the last poll differ,
  others do not. `MaxId` 1 is enough for a login to repeat an id that is in use.
- Lots of 2 and 3: a rounding up, a rounding down and an exact half.
- Pages of 2 with 6 candles: three full pages, or a last page that is not full; the
  window's ends lie on candle starts and between them.
- `MaxRequests` 2: one request still on the wire while another is under way, under the
  same or other credentials. Logins without a request, logouts, quotes and events are not
  bounded. Replies differ from a well-formed one in one member at a time, the ones the
  calls look at and one of each other type: a struct is read member by member, and one
  unreadable member is enough to throw.
- 1970 to 2101 has the leap century 2000 and the common one 2100.
- In `order_feed`, 2 events and 2 looks: two updates of one order or one of each, over one
  connection or over a replaced one and its successor, so four arrivals. A third event takes
  TLC beyond a few minutes; the proofs have no bound. Fills have one connection at a time,
  since nothing in what force does depends on the channel.

Most runs set `CHECK_DEADLOCK FALSE` because the system may stop: a connection that
has ended, a client that was destroyed, a bound that is reached.

### Fairness

- `WebSocket`: weak fairness of the read and write handlers of an established connection,
  of the return of a close whose answer has come or whose connection broke, of a pending
  handshake on a connection that is gone, and of the peer ending a connection that is
  closing. The last holds only while the peer is not `silent`: it may fall silent at any
  moment, the connection staying up, and the code has no timeout for that. Nothing is asked
  of the network while connecting.
- `WsClient`: weak fairness of the two threads' own steps, since both are scheduled, and
  strong fairness of the release of a socket that was stopped. The return of the io thread's
  close has none, since a silent peer can withhold it for ever; `LogoutEnds` has as its
  premise that the thread leaves such closes. Streams that are open need never end, and
  Zorro need never call again. Logout is also claimed only when no socket was stopped before
  its WebSocket handshake: such a socket may keep the thread, and with it the join, for as
  long as it likes.
- `StreamManager`, `OrderPlacement`, `History`: a call that has begun goes on (Zorro's
  thread is inside it, and each request returns or throws).

## 4. Findings

1. *Unsubscribing too early* (`websocket_unsubscribe`). `stop()` on a stream that is still
   resolving, connecting or in its TLS handshake sets a flag no success path reads; the
   stream opens, subscribes and delivers, although `ftx_ws_client.h:84` says
   "synchronously". Follow-ups: with `force` two connections of one stream may live side by
   side. Then TLC also refutes `PriceNeverGoesBack` (set `Forces` of `StreamManager.cfg` to
   both values), and an order update comes out once for each connection, which is the
   exception `haunted` of `UpdatesInOrder`. Logout may wait.
2. *A stream nobody serves* (`wsclient_stranded`). Between the return of `io_context::run`
   and the clearing of the flag, `isRunning()` is true and there is no thread.
3. *The tenth answer is lost* (`orders_give_up`). The attempt limit is tested before the
   status, so an order found closed by the last poll is reported as not closed.

Behaviour the models show and no run is devoted to, because no doc line speaks against it
or the line is about something else:

- the thread that ends clears the flag once more after `run()` may have claimed it, so a
  second `run()` can join a thread that is about to serve, although `ftx_ws_client.h:56`
  says that it returns immediately;
- a login without credentials leaves the logger registered, and the next login throws at
  Zorro until a logout; one that cannot open the log file throws too (`LoginEscapes`);
- a peer that falls silent while it is being closed keeps the thread that closes, and the
  io thread is that of all streams;
- a socket the io thread has stopped and not yet released is found, so a subscription made
  then keeps a stream that is ending (the exception `lost` of `AskedIsServed`);
- after a logout `BrokerAsset`, `BrokerAccount`, the Demo login and another logout log
  without a logger;
- a second login leaves the streams with the first credentials and takes empty ones;
- `GET_POSITION` gives 0 for a flat position and for a failed request alike, and
  `BrokerAccount` a balance of 0 for a reply without one.

## 5. Proofs

Each theorem holds for all values of the constants that satisfy the module's ASSUME.
All are of the form `Spec => []P`, with an invariant that is true initially and
preserved by each action.

- `WebSocketProofs`. `CallingInv`: at most one pending operation can call the callback, and
  none once an error was told. From it `OneErrorAtMost`, and `ImplementsContract`, that
  the connection refines `StreamContract`: its phase is read off the pending operations.
  `WatchInv` (from TCP connect on, unless stopped, the timer is armed) gives `OpenIsWatched`.
  `LoginInv` (on a private channel the first request sent is the login, and until one is
  sent it is the one being written) gives `LoginComesFirst`.
- `KeepAliveProofs`. `IInv` ties the timer's expiry to the last ping and the awaited answer
  to the ping it answers. `NeverFalseAlarm` needs that latency is below the interval and
  that the clock at the start is more than one interval from its epoch.
  `SilenceIsBounded` is the worst case as a formula in interval and delay.
- `WsClientProofs`. `ServingThreadHolds` needs only where the flag is set on the way into
  `io_context::run`. `WantedIsFound` and `StreamsAreUnique` are proved together, from an
  invariant about the sockets held: those the map can lock and the one that is created and
  not yet entered (`Held`). An entry that can be locked is a live socket (`ValidLive`), no
  two held sockets serve one stream (`NoDuplicateHeld`), and while a socket is made none of
  its stream is in the map (`StartInv`, `RegisterInv`).
  For `StreamManager`, whose steps are steps of the client that also touch the cache:
  `PollingIsServed` follows from `AskedInv`, that the market polled has a socket nobody
  stopped, or the io thread stopped the one it had during this call, or had stopped it
  before and not yet released it. `PricesGoForward` is about subscriptions
  without force, the only ones `BrokerAsset` makes (`ftx.cpp` never passes the argument):
  then only a logout takes sockets out of the map, after which none are made (`AllHeld`), a market
  has one socket at most (`OneSocket`), and the quotes on the wire to it never fall and are
  at least as new as the cache (`FreshInv`). With force the property is false, see finding 1.
- `OrderFeedProofs`. `ListsOK` (types); `ConnInv`: of each channel one connection at most is
  not stopped, and until one is stopped in vain one at most brings events. Arrivals come in
  the order `Before`: by number, except between the connections of a `haunted` channel.
  `SerialInv` (what is on the wires and in a list is in that order, and what is on a wire
  comes after what was received) and `KeptInv` give `NothingGetsLost`.
  `NumberInv` (an order event carries its order's number) gives `UpdateIsOwn`; with
  `TakenFirst` (an update returned comes before all of its order that wait)
  `UpdatesAreInOrder`. `MissesAreTrue` is an action property on top of them. Each step of
  the system touches a channel in one of four ways (`Rests`, `Sends`, `Stores`, `TakesAt`),
  and the invariants are shown for these. That a client id is no order's number is the
  module's assumption.
- `HistoryProofs`. `WalkInv`: all that is collected rises, and a page starts and ends before
  it. `CoverInv`: of the candles known when the call began, those after the walk's end
  are collected, and the rest is on the page or older than the page. `PageIsNewest` shows the
  latter of the exchange's answer, by counting: what is not among the newest has as many
  newer ones as a page takes. From these `PagesAlwaysFit`, `TicksAlwaysFit` and
  `NothingIsMissing`, for every page limit, every window and candles added at any moment.
  `WalkAlwaysGoesBack` is the safety half of `PagingEnds`: the end of the next page moves
  back by a resolution at least, and no page is taken from before the window.
- `OrderPlacementProofs`. `OrderInv` says what a call knows of its order at each stage:
  once polled it is the order this call placed, and a status polled as closed stays
  closed. With the arithmetic of rounding (`RoundIsNearest`, `RoundIsBounded`) it gives
  `TradesAreClosed`, `TradesAreOwn`, `MarketOrdersDoNotRest` and `FillsAreFaithful`.
- `CalendarProofs`. `VariantTimeIsLinear`: the Julian-day formula goes up by one every day,
  for every year from 1970 on. The parts of the formula for the year and for the month are
  treated apart. `SecondsAreCounted`: so do the loops of `mkgmtime`, which are functions
  defined by recursion. That such functions exist is shown without induction, by their
  closed forms: a table for the months, the Julian-day formula itself for the years
  (`YearDaysAreSums`). What is then needed is one turn of the loop per step.
- `SessionProofs`. `RequestInv`: requests on the wire are different and not
  acted on, and one whose reply says success was. Whatever program makes the requests
  (`RequestStep`), its steps are steps of `RestCall` or stutter (`StepKeepsCall`). On top,
  `SessionInv` says that client, streams and log exist together except inside a logout or
  after a login without credentials (`Together`), and what a call in progress is
  (`Calling`). From it: `CallsAreKept`, the refinement; `SuccessesAreServed`;
  `IoThreadLogs`, `NobodyDiesLoggedIn`, `EscapesAreEmpty` (with the logger there is a client
  or a login without credentials; else the file could not be opened). `FiguresAreTheExchanges` needs
  besides that what is looked at was read from the last message (`Reading`) and how one
  member is read (`ReadIsThere`, `PriceIsNumber`); it holds for every JSON value.

Every invariant and every action property of the runs is proved. Only model-checked is
liveness: `CloseEnds`, `SubscribesEventually`, `ExceptionContained`, `LogoutEnds`, `ReadEnds`,
`CallEnds` and `PagingEnds`, because the prover has no rule for fairness and none for
ENABLED. That the exchange of `History` has an answer for every window is not proved either:
the theorems hold of every answer that fits, and TLC finds one for each window.

Two definitions are written the way they are because of the proofs, with the same states in
TLC: a page (`Served`) is any rising sequence of the newest candles, of which there is
one, and a look at a list (`LookFinds`) takes an index below all others that match.

## 6. Not modelled

- TLS, HMAC signing and the syntax of HTTP and JSON.
- Writing JSON (`toJson`), and the reading of `Order` and `Candle`, whose values are taken
  as decoded; texts; what is logged (that something is logged is modelled in `Session`).
- `runBlocking`, `runFor`, `runBlockingFor`, the `markets` channel, `cancelAllOrders`:
  nothing in the plugin calls them. `BrokerOpen` returns a constant; what `SET_DELAY`,
  `SET_WAIT` and `SET_SYMBOL` store is read by no other call (`PlainCommand`).
- The order type: `SET_ORDERTYPE` stores it, no code reads it, and so limit orders stay on
  the book under every order type (`trading.h:1004` has 0 for fill-or-kill).
- `dllmain.cpp`, precompiled headers, `spimpl.h` and `zorro/trading.h` (third-party).

## 7. Plan

Done, in this order: the contract and the socket, the watch, the client with its threads,
orders, dates, history, the ticker cache, the order and fill lists, JSON and requests, the
session.

Next:

1. The fill reader's mistake and the leaked lock of `OrderFeed` as runs of their own.
2. Proofs: what a run claims and no theorem states is liveness only. Its safety half, a
   measure that every step of the caller lowers, is proved for `PagingEnds` and can be for
   `CallEnds` and `CloseEnds`.
3. An abstract client (a set of served streams) that `WsClient` implements up to the two
   findings about its thread.
4. `OrderPlacement` and `History` with their requests taken apart, as instances of
   `RestCall`; `Order` and `Candle` among the structs of `Models`.
