------------------------------- MODULE Models -------------------------------
(***************************************************************************)
(* How JSON from the exchange becomes the structs of ftx_models.h: the      *)
(* readers of utils.h and the member tables of the fromJson functions.     *)
(*                                                                         *)
(* Of a JSON value only its kind is kept, as far as a reader tells kinds    *)
(* apart: a zero is a number a struct could also hold by default, and a     *)
(* "word" is the string the reader looks for (a name of its enum, the       *)
(* symbol asked for), a "text" any other string.  A JSON object is a        *)
(* function from its keys to kinds; what is no object has no keys.          *)
(***************************************************************************)
EXTENDS Naturals, Sequences

Kinds == {"null", "true", "false", "zero", "number", "word", "text", "other"}

\* The kinds nlohmann's conversions take for a C++ type; int also takes booleans.
Accepted ==
    [bool   |-> {"true", "false"},
     int    |-> {"true", "false", "zero", "number"},
     int64  |-> {"zero", "number"},
     double |-> {"zero", "number"},
     string |-> {"word", "text"}]

Absent(json, key) == key \notin DOMAIN json \/ json[key] = "null"

\* A missing or null member keeps the struct's default, any other is converted.
ReadValue(type, json, key) ==
    IF Absent(json, key) THEN "default"
    ELSE IF json[key] \in Accepted[type] THEN json[key] ELSE "throws"

\* _from_string_nocase throws for a string that is no name of the enum.
ReadEnum(json, key) ==
    IF Absent(json, key) THEN "default"
    ELSE IF json[key] = "word" THEN "word" ELSE "throws"

-----------------------------------------------------------------------------
(* The members of the structs, by the type they are read as.               *)

PositionTable ==
    [double |-> {"cost", "entryPrice", "initialMarginRequirement", "longOrderSize",
                 "maintenanceMarginRequirement", "netSize", "openSize", "realizedPnl",
                 "shortOrderSize", "size", "unrealizedPnl", "cumulativeBuySize",
                 "cumulativeSellSize", "estimatedLiquidationPrice",
                 "recentAverageOpenPrice", "recentBreakEvenPrice", "recentPnl",
                 "collateralUsed"},
     string |-> {"future"},
     enum   |-> {"side"}]

AccountTable ==
    [bool   |-> {"backstopProvider", "liquidating"},
     double |-> {"collateral", "freeCollateral", "initialMarginRequirement", "leverage",
                 "maintenanceMarginRequirement", "makerFee", "marginFraction",
                 "openMarginFraction", "takerFee", "totalAccountValue",
                 "totalPositionSize"},
     string |-> {"username"}]

MarketTable ==
    [bool   |-> {"highLeverageFeeExempt", "enabled", "postOnly", "restricted"},
     double |-> {"quoteVolume24h", "change1h", "change24h", "changeBod",
                 "minProvideSize", "ask", "bid", "last", "price", "priceIncrement",
                 "sizeIncrement", "volumeUsd24h"},
     string |-> {"name", "baseCurrency", "quoteCurrency", "underlying"},
     enum   |-> {"type"}]

ChannelSubscriptionResponseTable ==
    [int    |-> {"code"},
     string |-> {"market", "msg"},
     enum   |-> {"type", "channel"}]

TickerDataTable ==
    [double |-> {"bid", "ask", "bidSize", "askSize", "last"},
     int64  |-> {"time"}]

FillDataTable ==
    [double |-> {"fee", "feeRate", "price", "size"},
     int64  |-> {"id", "orderId", "tradeId"},
     string |-> {"future", "liquidity", "market", "time", "type"},
     enum   |-> {"side"}]

OrderDataTable ==
    [bool   |-> {"reduceOnly", "ioc", "postOnly"},
     double |-> {"size", "price", "filledSize", "remainingSize", "avgFillPrice"},
     int64  |-> {"id"},
     string |-> {"clientId", "market"},
     enum   |-> {"type", "side", "status"}]

FTXPayDataTable == [string |-> {"status"}]

Nothing == [bool |-> {}]

-----------------------------------------------------------------------------
Members(table) == UNION {table[type] : type \in DOMAIN table}

\* A struct read from an object: each member by the reader of its type.
FromJson(table, json) ==
    [key \in Members(table) |->
        IF "enum" \in DOMAIN table /\ key \in table["enum"] THEN ReadEnum(json, key)
        ELSE ReadValue(CHOOSE type \in DOMAIN table \ {"enum"} : key \in table[type],
                       json, key)]

\* One unreadable member throws, and the whole object is lost with it.
Throws(struct) == \E key \in DOMAIN struct : struct[key] = "throws"

\* A list of objects, as Positions reads it and Account its positions.
PositionsFromJson(list) ==
    [i \in DOMAIN list |-> FromJson(PositionTable, list[i])]

\* An event: the subscription's own members, and data read as its channel says.
\* Without the member the channel is the struct's default, the ticker.
ChannelOf(event) ==
    IF FromJson(ChannelSubscriptionResponseTable, event.own).channel = "word"
    THEN event.channel ELSE "ticker"

EventData(event) ==
    CASE ChannelOf(event) = "ticker" -> FromJson(TickerDataTable, event.data)
      [] ChannelOf(event) = "fills"  -> FromJson(FillDataTable, event.data)
      [] ChannelOf(event) = "orders" -> FromJson(OrderDataTable, event.data)
      [] ChannelOf(event) = "ftxpay" -> FromJson(FTXPayDataTable, event.data)
      [] OTHER                       -> FromJson(Nothing, event.data)

EventThrows(event) ==
    \/ Throws(FromJson(ChannelSubscriptionResponseTable, event.own))
    \/ event.hasData /\ Throws(EventData(event))
=============================================================================
