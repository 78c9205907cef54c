---------------------------- MODULE MCOrderFeed ----------------------------
(* OrderFeed with an order of the plugin's, which has a client id, and one  *)
(* placed by hand, which has none.  The second fill happens to have the     *)
(* first order's number.                                                    *)
EXTENDS OrderFeed

CONSTANTS k1, k2

TwoOrders == {21, 22}
OneClientId == [o \in TwoOrders |-> IF o = 21 THEN 5 ELSE 0]
\* One connection of the fills channel at a time: the two channels share the
\* io thread and the reader, and nothing in what force does.
TwoAndOne == [orders |-> {k1, k2}, fills |-> {k1}]
SomeFillIds == [i \in 1..MaxEvents |-> 19 + i]
=============================================================================
