--------------------------- MODULE StreamContract ---------------------------
(***************************************************************************)
(* What one WebSocket of the plugin promises to the callback it was        *)
(* started with (ftx_websocket.h:30, ftx_ws_client.h:107-113), whatever    *)
(* the network and the two threads do:                                     *)
(*                                                                         *)
(*   - events are handed over only while the stream is live, and a stream  *)
(*     that has ended never hands over another one;                        *)
(*   - the callback learns of at most one error, and the error ends the    *)
(*     stream;                                                             *)
(*   - a stream may also end without a word.                               *)
(***************************************************************************)
EXTENDS Naturals

VARIABLES
    phase,      \* "connecting", "live" or "ended"
    delivered,  \* events handed to the callback
    errors      \* errors handed to the callback

vars == <<phase, delivered, errors>>

Init ==
    /\ phase = "connecting"
    /\ delivered = 0
    /\ errors = 0

\* The WebSocket handshake succeeded and the first read was started.
GoLive ==
    /\ phase = "connecting"
    /\ phase' = "live"
    /\ UNCHANGED <<delivered, errors>>

\* One event, after which the callback keeps the stream or gives it up.
Deliver ==
    /\ phase = "live"
    /\ delivered' = delivered + 1
    /\ phase' \in {"live", "ended"}
    /\ UNCHANGED errors

\* The only error this stream will ever report.
Fail ==
    /\ phase # "ended"
    /\ phase' = "ended"
    /\ errors' = errors + 1
    /\ UNCHANGED delivered

\* The stream ends and the callback is not told.
EndSilently ==
    /\ phase # "ended"
    /\ phase' = "ended"
    /\ UNCHANGED <<delivered, errors>>

Next == GoLive \/ Deliver \/ Fail \/ EndSilently

Spec == Init /\ [][Next]_vars
=============================================================================
