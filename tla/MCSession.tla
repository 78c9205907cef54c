----------------------------- MODULE MCSession -----------------------------
(* Session with an account the exchange knows, one it does not know, and no  *)
(* credentials.  Results and events are well-formed objects and those that   *)
(* differ from one in one member, by another kind or by its absence.         *)
EXTENDS Session

CONSTANTS good, bad, empty, none

AllKeys   == {good, bad, empty}
KnownKeys == {good}

\* A well-formed object has the kind its reader takes.
Usual == [bool |-> "true", int |-> "number", int64 |-> "number",
          double |-> "number", string |-> "word", enum |-> "word"]

Whole(table) ==
    [key \in Members(table) |-> Usual[CHOOSE type \in DOMAIN table : key \in table[type]]]

Without(json, key) == [k \in DOMAIN json \ {key} |-> json[k]]

\* Of each reader's kinds one it takes, one it refuses and those it defaults.
Probes == {"null", "zero", "number", "text"}

VariantsOf(table, keys) ==
    LET json == Whole(table)
    IN  {json}
        \cup {[json EXCEPT ![key] = kind] : key \in keys, kind \in Probes}
        \cup {Without(json, key) : key \in keys}

Result(members, list) == [object |-> TRUE, members |-> members, list |-> list]
Other == [Whole(PositionTable) EXCEPT !["future"] = "text"]

MCResults ==
    [account   |-> {Result(m, <<Other>>) :
                        m \in VariantsOf(AccountTable,
                                  {"liquidating", "totalAccountValue", "username"})}
                   \cup {Result(Whole(AccountTable), <<p>>) :
                              p \in VariantsOf(PositionTable, {"side", "size"})}
                   \cup {NoResult},
     market    |-> {Result(m, <<>>) :
                        m \in VariantsOf(MarketTable,
                                  {"ask", "bid", "enabled", "name", "type"})}
                   \cup {NoResult},
     positions |-> {Result(<<>>, <<Other, p>>) :
                        p \in VariantsOf(PositionTable, {"future", "openSize", "side"})}
                   \cup {NoResult},
     cancel    |-> {NoResult}]

Own == Whole(ChannelSubscriptionResponseTable)
Event(own, channel, data) ==
    [own |-> own, channel |-> channel, hasData |-> TRUE, data |-> data]

MCEvents ==
    {Event(Own, "ticker", data) : 
         data \in VariantsOf(TickerDataTable, {"ask", "bid", "time"})}
    \cup {Event([Own EXCEPT !["market"] = "text"], "ticker", Whole(TickerDataTable))}
    \cup {Event([Own EXCEPT !["channel"] = kind], "ticker", Whole(TickerDataTable)) :
             kind \in {"null", "text"}}
    \cup {Event(Own, "fills", Whole(FillDataTable)),
          Event(Own, "orders", [Whole(OrderDataTable) EXCEPT !["status"] = "text"]),
          [Event(Own, "ticker", <<>>) EXCEPT !.hasData = FALSE]}
=============================================================================
