------------------------------- MODULE Session -------------------------------
(***************************************************************************)
(* A session of the plugin (ftx.cpp): the REST client, the stream manager   *)
(* and the log, which BrokerLogin makes and its logout destroys, and the    *)
(* functions that ask the exchange once and hand the figures to Zorro.     *)
(*                                                                         *)
(* Zorro calls from one thread; the io thread of the stream manager runs    *)
(* beside it, stores quotes and logs.  The log is spdlog's: shutdown leaves *)
(* no default logger, and whoever logs after it follows a null pointer; a   *)
(* name can be registered only once.                                       *)
(***************************************************************************)
EXTENDS Request

CONSTANTS
    Empty,      \* credentials with an empty user or password
    None,       \* no client, no stream manager
    Events      \* events the ticker stream may carry

ASSUME SessionAssumption ==
    /\ Empty \in Keys /\ Empty \notin Known
    /\ None \notin Keys

VARIABLES
    logger,     \* default logger: "console", "file" ("ftx_logger") or "null"
    client,     \* ftxClient: its credentials, or None
    http,       \* the copies its HTTPSession signs with
    streams,    \* streamManager: its credentials, or None
    io,         \* the io thread may run
    tick,       \* the asset's entry of the price cache
    source,     \* the event it was read from
    at,         \* where Zorro's thread is; "idle" between calls
    call,       \* the last call
    ret,        \* what it returned: "none", 0 is "failure", else "success"; or "escaped"
    lastLogin,  \* credentials of the last login that was given to a client
    emptied,    \* a login without credentials took the log since the last logout
    opened      \* the last login that was to make the log could open its file

logins  == <<client, http, streams>>
prices  == <<io, tick, source>>
history == <<lastLogin, emptied, opened>>
vars    == <<requestVars, logger, logins, prices, at, call, ret, history>>

Calls   == {"none", "login", "logout", "demo", "asset", "quote", "account",
            "position", "cancel", "command", "time"}
NoTick  == FromJson(TickerDataTable, <<>>)

\* The endpoint a call asks.
Endpoint ==
    [login |-> "account", asset |-> "market", account |-> "account",
     position |-> "positions", cancel |-> "cancel"]

Init ==
    /\ RequestInit
    /\ logger = "console"
    /\ client = None
    /\ http = None
    /\ streams = None
    /\ io = FALSE
    /\ tick = NoTick
    /\ source = <<>>
    /\ at = "idle"
    /\ call = "none"
    /\ ret = "none"
    /\ lastLogin = None
    /\ emptied = FALSE
    /\ opened = TRUE

-----------------------------------------------------------------------------
(* Parts of a call.                                                        *)

Begins(c) ==
    /\ at = "idle"
    /\ call' = c

\* The call returns to Zorro.
Returns(r) ==
    /\ at' = "idle"
    /\ ret' = r

\* A call that logs before it returns, or dies of it.
LogsAndReturns(r) ==
    IF logger = "null" THEN at' = "crashed" /\ ret' = "none" ELSE Returns(r)

\* The call asks its endpoint, over the client's HTTP session.
Asks(c, by) ==
    /\ at' = "request"
    /\ ret' = "none"
    /\ Ask(Endpoint[c], by)

\* The request of a call of kind c has ended.
Ended(c) ==
    /\ at = "request" /\ stage = "idle"
    /\ call = c
    /\ UNCHANGED call

-----------------------------------------------------------------------------
(* BrokerLogin.                                                            *)

Demo ==
    /\ Begins("demo")
    /\ LogsAndReturns("failure")
    /\ UNCHANGED <<requestVars, logger, logins, prices, history>>

\* Without a client the log is made first; basic_logger_mt throws, outside any
\* try, for a name that is registered and for a file it cannot open.
LoginEscapes ==
    /\ Begins("login")
    /\ client = None
    /\ opened' \in BOOLEAN
    /\ logger = "file" \/ ~opened'
    /\ Returns("escaped")
    /\ UNCHANGED <<requestVars, logger, logins, prices, lastLogin, emptied>>

\* The log is made.
MakesLog ==
    /\ client = None /\ logger # "file"
    /\ opened' = TRUE
    /\ logger' = "file"

LoginWithout ==
    /\ Begins("login")
    /\ MakesLog
    /\ emptied' = TRUE
    /\ Returns("failure")
    /\ UNCHANGED <<requestVars, logins, prices, lastLogin>>

LoginFirst(k) ==
    /\ Begins("login")
    /\ MakesLog
    /\ k # Empty
    /\ client' = k /\ http' = k
    /\ streams' = IF streams = None THEN k ELSE streams
    /\ lastLogin' = k
    /\ Asks("login", http')
    /\ UNCHANGED <<prices, emptied>>

\* setCredentials: the HTTP session is made anew, since it holds copies.
\* A slip of it: the session is kept.
SetOwnCredentials(k) == client' = k /\ UNCHANGED http
SetCredentials(k)    == client' = k /\ http' = k

\* With a client, whatever the credentials are; the streams keep the first ones.
LoginAgain(k) ==
    /\ Begins("login")
    /\ client # None
    /\ SetCredentials(k)
    /\ streams' = IF streams = None THEN k ELSE streams
    /\ lastLogin' = k
    /\ Asks("login", http')
    /\ UNCHANGED <<logger, prices, emptied, opened>>

\* A slip of LoginEnds: a login the exchange refused takes its client down.
LoginEndsClean ==
    /\ Ended("login")
    /\ LogsAndReturns(IF outcome = "returned" THEN "success" ELSE "failure")
    /\ client' = IF outcome = "returned" THEN client ELSE None
    /\ Drops
    /\ UNCHANGED <<logger, http, streams, prices, history>>

\* A login the exchange refused returns 0 and leaves client and streams.
LoginEnds ==
    /\ Ended("login")
    /\ LogsAndReturns(IF outcome = "returned" THEN "success" ELSE "failure")
    /\ Drops
    /\ UNCHANGED <<logger, logins, prices, history>>

-----------------------------------------------------------------------------
(* Logout: BrokerLogin without a user.                                     *)

\* A slip of Logout: the log goes before the streams have.
LogoutLogFirst ==
    /\ Begins("logout")
    /\ streams' = None
    /\ logger' = "null"
    /\ at' = "joining"
    /\ ret' = "none"
    /\ UNCHANGED <<requestVars, client, http, prices, history>>

\* streamManager.reset(): the pointer is null, its destructor joins the io thread.
Logout ==
    /\ Begins("logout")
    /\ streams' = None
    /\ at' = "joining"
    /\ ret' = "none"
    /\ UNCHANGED <<requestVars, logger, client, http, prices, history>>

Joined ==
    /\ at = "joining"
    /\ at' = "dropping"
    /\ io' = FALSE
    /\ tick' = NoTick
    /\ source' = <<>>
    /\ UNCHANGED <<requestVars, logger, logins, call, ret, history>>

\* A slip of LogoutEnds: the client stays.
LogoutKeepsClient ==
    /\ at = "dropping"
    /\ LogsAndReturns("success")
    /\ logger' = "null"
    /\ emptied' = FALSE
    /\ UNCHANGED <<requestVars, logins, prices, call, lastLogin, opened>>

\* ftxClient.reset(), a last line in the log, and spdlog::shutdown().
LogoutEnds ==
    /\ at = "dropping"
    /\ client' = None /\ http' = None
    /\ LogsAndReturns("success")
    /\ logger' = "null"
    /\ emptied' = FALSE
    /\ UNCHANGED <<requestVars, streams, prices, call, lastLogin, opened>>

-----------------------------------------------------------------------------
(* BrokerAsset, BrokerAccount, BrokerTime and BrokerCommand.               *)

\* Without a client BrokerAsset and BrokerAccount log that and return 0, and so
\* do the commands, which log before they look.
NoClient(c) ==
    /\ c \in {"asset", "quote", "account", "position", "cancel"}
    /\ Begins(c)
    /\ client = None
    /\ LogsAndReturns("failure")
    /\ UNCHANGED <<requestVars, logger, logins, prices, history>>

\* The functions that make one request; the commands log it first.
AskExchange(c) ==
    /\ c \in {"asset", "account", "position", "cancel"}
    /\ Begins(c)
    /\ client # None
    /\ IF c \in {"position", "cancel"} /\ logger = "null"
       THEN at' = "crashed" /\ ret' = "none" /\ UNCHANGED requestVars
       ELSE Asks(c, http)
    /\ UNCHANGED <<logger, logins, prices, history>>

\* A request that threw is logged, and the call returns 0.
AskFails ==
    /\ at = "request" /\ stage = "idle"
    /\ call # "login"
    /\ outcome = "threw"
    /\ LogsAndReturns("failure")
    /\ Drops
    /\ UNCHANGED <<logger, logins, prices, call, history>>

\* m_ask == 0.0 || m_bid == 0.0
\* A slip of it: && for ||.
BothZero(ask, bid) == ask \in {"zero", "default"} /\ bid \in {"zero", "default"}
IsZero(ask, bid)   == ask \in {"zero", "default"} \/ bid \in {"zero", "default"}

AssetEnds ==
    /\ Ended("asset")
    /\ outcome = "returned"
    /\ IF IsZero(answer.object["ask"], answer.object["bid"])
       THEN Returns("failure") ELSE Returns("success")
    /\ Drops
    /\ UNCHANGED <<logger, logins, prices, history>>

AccountEnds ==
    /\ Ended("account")
    /\ outcome = "returned"
    /\ Returns("success")
    /\ Drops
    /\ UNCHANGED <<logger, logins, prices, history>>

\* getPosition takes the first position of the symbol; without one its size is 0.
Found == {i \in DOMAIN answer.list : answer.list[i]["future"] = "word"}

PositionEnds ==
    /\ Ended("position")
    /\ outcome = "returned"
    /\ \/ Found = {} /\ Returns("failure")
       \/ \E i \in Found :
              /\ \A j \in Found : i <= j
              /\ Returns(IF answer.list[i]["openSize"] = "number"
                         THEN "success" ELSE "failure")
    /\ Drops
    /\ UNCHANGED <<logger, logins, prices, history>>

CancelEnds ==
    /\ Ended("cancel")
    /\ outcome = "returned"
    /\ Returns("success")
    /\ Drops
    /\ UNCHANGED <<logger, logins, prices, history>>

\* The commands that store or return a number log that they are called.
PlainCommand ==
    /\ Begins("command")
    /\ \E r \in {"failure", "success"} : LogsAndReturns(r)
    /\ UNCHANGED <<requestVars, logger, logins, prices, history>>

BrokerTime ==
    /\ Begins("time")
    /\ Returns(IF client = None THEN "failure" ELSE "success")
    /\ UNCHANGED <<requestVars, logger, logins, prices, history>>

-----------------------------------------------------------------------------
(* BrokerAsset on the streams.                                             *)

\* The stream manager is used without a look at its pointer.
Quote ==
    /\ Begins("quote")
    /\ client # None
    /\ IF streams = None
       THEN at' = "crashed" /\ UNCHANGED io
       ELSE at' = "quote" /\ io' = TRUE
    /\ ret' = "none"
    /\ UNCHANGED <<requestVars, logger, logins, tick, source, history>>

\* readTickerData has found an entry, or has given up.
QuoteEnds ==
    /\ at = "quote"
    /\ IF IsZero(tick["ask"], tick["bid"])
       THEN Returns("failure") ELSE Returns("success")
    /\ UNCHANGED <<requestVars, logger, logins, prices, call, history>>

\* An event with a price, and one with a price of the asset.
HasPrice(e) == ~EventThrows(e) /\ e.hasData /\ ChannelOf(e) = "ticker"
Prices(e) ==
    /\ HasPrice(e)
    /\ FromJson(ChannelSubscriptionResponseTable, e.own)["market"] = "word"

\* The io thread stores a price under its market, and logs an event that has none
\* or cannot be read.
EventArrives(e) ==
    /\ io /\ at # "crashed"
    /\ \/ Prices(e) /\ tick' = EventData(e) /\ source' = e.data
       \/ ~Prices(e) /\ UNCHANGED <<tick, source>>
    /\ at' = IF ~HasPrice(e) /\ logger = "null" THEN "crashed" ELSE at
    /\ UNCHANGED <<requestVars, logger, logins, io, call, ret, history>>

-----------------------------------------------------------------------------
sessionVars == <<logger, logins, prices, at, call, ret, history>>

Network ==
    /\ \/ at # "crashed" /\ ClientSteps
       \/ ExchangeSteps
    /\ UNCHANGED sessionVars

Next ==
    \/ Demo \/ LoginEscapes \/ LoginWithout \/ LoginEnds
    \/ \E k \in Keys : LoginFirst(k) \/ LoginAgain(k)
    \/ Logout \/ Joined \/ LogoutEnds
    \/ \E c \in Calls : NoClient(c) \/ AskExchange(c)
    \/ AskFails \/ AssetEnds \/ AccountEnds \/ PositionEnds \/ CancelEnds
    \/ PlainCommand \/ BrokerTime
    \/ Quote \/ QuoteEnds
    \/ \E e \in Events : EventArrives(e)
    \/ Network

Spec == Init /\ [][Next]_vars
-----------------------------------------------------------------------------
(* Properties.                                                             *)

\* What RESTClient promises its callers holds through logins, logouts and broken
\* connections: what returns was carried out, and nothing is carried out twice.
KeepsCall == Call!Spec

\* A call that reports success asked the right endpoint, with the credentials of
\* the last login (setCredentials makes the HTTP session anew, rest_client 95-96),
\* and the exchange carried that very request out.
SuccessIsServed ==
    at = "idle" /\ ret = "success" /\ call \in DOMAIN Endpoint =>
        acts[asked] = 1 /\ request = [to |-> Endpoint[call], by |-> lastLogin]

\* The io thread logs through spdlog's default logger whenever it likes: while it
\* may run the log is there (the order of the resets in the logout, lines 83-86).
IoThreadCanLog == io => logger = "file"

\* Nothing kills the plugin while it is logged in: no stream manager is missing
\* where BrokerAsset uses it unseen (line 182), no log where a call writes to it.
DiesOnlyLoggedOut ==
    at = "crashed" => client = None /\ streams = None /\ logger = "null"

\* BrokerLogin throws at Zorro (line 95) only when the log file cannot be opened or
\* after a login without credentials: a login the exchange refused can be repeated,
\* and a second login never makes the log again.
EscapesOnlyAfterEmpty == ret = "escaped" => emptied \/ ~opened

\* A price given to Zorro was in the exchange's message, ask and bid, and a position
\* is that of the symbol asked for: no default of a struct passes for a figure.
Priced(json) ==
    \A key \in {"ask", "bid"} : key \in DOMAIN json /\ json[key] = "number"

FiguresAreReal ==
    [][at # "idle" /\ at' = "idle" /\ ret' = "success" =>
        /\ call = "asset" => Priced(reply.result.members)
        /\ call = "quote" => Priced(source)
        /\ call = "position" =>
               \E i \in DOMAIN reply.result.list :
                   LET position == reply.result.list[i]
                   IN  /\ "future" \in DOMAIN position /\ position["future"] = "word"
                       /\ "openSize" \in DOMAIN position
                       /\ position["openSize"] = "number"]_vars
=============================================================================
