--------------------------- MODULE MCStreamManager ---------------------------
(* StreamManager with one market and two addresses, so that a connection    *)
(* may be replaced at the same address or at the other one.                *)
EXTENDS StreamManager

CONSTANTS a1, a2, btc

OneMarket == {btc}
TwoAddr   == {a1, a2}
NoForce   == {FALSE}
=============================================================================
