----------------------------- MODULE MCHistory ------------------------------
(* History with one-minute candles and pages of two; two minutes is not a   *)
(* resolution of the exchange.  The ends lie on, before and after candles.  *)
EXTENDS History

OneAndTwo  == {1, 2}
SomeEnds   == {120, 239, 240, 301}
=============================================================================
