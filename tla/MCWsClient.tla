----------------------------- MODULE MCWsClient -----------------------------
(* WsClient on a small instance: addresses and streams are model values and *)
(* enter only through equality.                                             *)
EXTENDS WsClient

CONSTANTS a1, a2, a3, ticker, fills

TwoStreams == {ticker, fills}
OneStream  == {ticker}
ThreeAddr  == {a1, a2, a3}

\* The plugin itself never forces a subscription.
Never  == {FALSE}
Either == BOOLEAN
=============================================================================
