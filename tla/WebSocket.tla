------------------------------ MODULE WebSocket ------------------------------
(***************************************************************************)
(* One exchange connection, ftx_websocket.cpp, from start() to the release *)
(* of the object, with the callback ftx_ws_client.cpp gives it.            *)
(*                                                                         *)
(* Two threads act on it.  The io thread runs the completion handlers one  *)
(* at a time; the Zorro thread may unsubscribe at any moment.  stop() ends *)
(* in a *synchronous* close: the thread that calls it waits for the peer.  *)
(*                                                                         *)
(* The object lives as long as a pending operation or a thread inside      *)
(* stop() holds it (the holder argument, the locked weak_ptr).  The ping   *)
(* timer's handler captures only a raw pointer and does not hold it.       *)
(***************************************************************************)
EXTENDS Naturals, Sequences, SequencesExt

CONSTANT MaxMessages    \* bound on the frames the peer sends on one connection

ASSUME MaxMessagesAssumption == MaxMessages \in Nat

VARIABLES
    channel,        \* "ticker" is public, "orders" (fills, ftxpay) needs a login
    silent,         \* the peer says nothing any more and does not end the connection
    requests,       \* m_requests, taken from the back
    wBuffer,        \* m_wBuffer: the request being written, or None
    sent,           \* the requests that have been written, in order
    pending,        \* asynchronous operations that hold the object
    inbox,          \* frame a completed read carries to its handler, or None
    wsStatus,       \* the stream's own status; "idle" until its handshake begins
    stopRequested,  \* m_stopRequested
    timer,          \* the ping timer: "off", "armed" or "orphaned"
    closing,        \* threads inside the synchronous close of stop()
    zorro,          \* the Zorro thread's view: "attached", "stopping", "detached"
    delivered,      \* events handed to the callback
    errors          \* errors handed to the callback

vars == <<channel, silent, requests, wBuffer, sent, pending, inbox, wsStatus,
          stopRequested, timer, closing, zorro, delivered, errors>>

setting == <<channel, silent>>
wire  == <<requests, wBuffer, sent>>
calls == <<delivered, errors>>

Channels == {"ticker", "orders"}
Setup    == {"resolve", "connect", "ssl", "handshake"}
\* How wsCallback takes a frame: handed over and wanted, handed over as an API
\* error, rejected by fromJson (caught), unparsable (thrown out of the handler).
Frames   == {"event", "apiError", "malformed", "notJson"}
None     == "none"

Alive == pending # {} \/ closing # {}

\* The io thread runs a handler only when it is not inside a close.
IoFree == "io" \notin closing

-----------------------------------------------------------------------------
(* Building blocks of the handlers.                                        *)

\* A slip of RequestsOf: the login is pushed first.
RequestsSwapped(c) == IF c = "ticker" THEN <<"subscribe">> ELSE <<"login", "subscribe">>

\* The requests startChannel queues: the login goes behind the subscription
\* and is therefore taken first.
RequestsOf(c) == IF c = "ticker" THEN <<"subscribe">> ELSE <<"subscribe", "login">>

\* stop() on thread t.  The TCP socket is open from the connect on, but the close
\* returns at once while the stream's own status is still the initial one: up to
\* and with the TLS handshake.  From the WebSocket handshake on it sends a close
\* frame and waits for the peer's.
Stop(t) ==
    /\ stopRequested' = TRUE
    /\ IF wsStatus \in {"handshake", "open", "closing"}
       THEN closing' = closing \cup {t} /\ wsStatus' = "closing"
       ELSE UNCHANGED <<closing, wsStatus>>

NoStop == UNCHANGED <<stopRequested, closing, wsStatus>>

\* Report an error to the callback unless a stop was requested.
ReportUnlessStopped ==
    /\ errors' = IF stopRequested THEN errors ELSE errors + 1
    /\ UNCHANGED delivered

\* When the last holder goes the object is destroyed; an armed timer is
\* cancelled and its handler is left with a dangling pointer.
Release ==
    timer' = IF pending' = {} /\ closing' = {} /\ timer = "armed"
             THEN "orphaned" ELSE timer

Proceed(op, next) == pending' = (pending \ {op}) \cup next

\* The peer's answer to the upgrade request has come, or will not: declined with
\* the stream still in its handshake, or the connection has gone.
Upgraded == wsStatus \in {"handshake", "closing"} /\ ~silent
Refused  == wsStatus = "closed" \/ ~silent

-----------------------------------------------------------------------------
(* Slips.  Each operator below is the definition it is named after with a   *)
(* plausible mistake in it; none is part of the specification.  They show   *)
(* that the properties at the end notice the mistake.                       *)

\* The ping timer is not armed.
OnConnectUnwatched ==
    /\ IoFree /\ "connect" \in pending
    /\ \/ ~silent /\ Proceed("connect", {"ssl"}) /\ UNCHANGED calls
       \/ Proceed("connect", {}) /\ ReportUnlessStopped
    /\ UNCHANGED timer /\ NoStop
    /\ UNCHANGED <<setting, wire, inbox, zorro>>

\* startRead does not stop, so startWrite reports the error once more.
StartReadWriteTwice ==
    /\ IoFree /\ "handshake" \in pending
    /\ \/ /\ Upgraded
          /\ Proceed("handshake", {"read", "write"})
          /\ wsStatus' = "open"
          /\ UNCHANGED <<stopRequested, closing, calls>>
       \/ /\ Refused
          /\ Proceed("handshake", {})
          /\ errors' = IF stopRequested THEN errors ELSE errors + 2
          /\ UNCHANGED delivered
          /\ Stop("io")
    /\ Release
    /\ UNCHANGED <<setting, wire, inbox, zorro>>

\* The callback's verdict on an API error is ignored.
OnReadHeedless ==
    /\ IoFree /\ "read" \in pending /\ inbox # None
    /\ inbox' = None
    /\ \/ /\ inbox = "event"
          /\ delivered' = delivered + 1
          /\ NoStop
          /\ UNCHANGED <<errors, pending, timer>>
       \/ /\ inbox = "apiError" /\ errors = 0
          /\ errors' = errors + 1
          /\ NoStop
          /\ UNCHANGED <<delivered, pending, timer>>
       \/ /\ inbox \in {"malformed", "notJson"}
          /\ Proceed("read", {}) /\ Stop("io") /\ Release
          /\ UNCHANGED calls
    /\ UNCHANGED <<setting, wire, zorro>>

\* The read is started again after an error.
OnReadErrorRetries ==
    /\ IoFree /\ "read" \in pending /\ inbox = None /\ wsStatus = "closed"
    /\ ReportUnlessStopped
    /\ Stop("io")
    /\ UNCHANGED <<setting, wire, pending, timer, inbox, zorro>>

\* The last request stays in the queue.
OnWriteOffByOne ==
    /\ IoFree /\ "write" \in pending /\ wsStatus \in {"open", "closing"}
    /\ sent' = Append(sent, wBuffer)
    /\ IF Len(requests) <= 1
       THEN /\ Proceed("write", {})
            /\ wBuffer' = None
            /\ UNCHANGED requests
       ELSE /\ wBuffer' = Last(requests)
            /\ requests' = Front(requests)
            /\ UNCHANGED pending
    /\ NoStop /\ Release
    /\ UNCHANGED <<setting, inbox, zorro, calls>>

-----------------------------------------------------------------------------
(* Establishing the connection.                                            *)

Init ==
    /\ channel \in Channels
    /\ silent = FALSE
    /\ requests = Front(RequestsOf(channel))
    /\ wBuffer = Last(RequestsOf(channel))
    /\ sent = <<>>
    /\ pending = {"resolve"}
    /\ inbox = None
    /\ wsStatus = "idle"
    /\ stopRequested = FALSE
    /\ timer = "off"
    /\ closing = {}
    /\ zorro = "attached"
    /\ delivered = 0
    /\ errors = 0

\* Name resolved: the SNI host name is set and the TCP connect starts.  A
\* resolver error is reported unless stopped, an SNI error always.
OnResolve ==
    /\ IoFree /\ "resolve" \in pending
    /\ \/ Proceed("resolve", {"connect"}) /\ UNCHANGED calls
       \/ Proceed("resolve", {}) /\ ReportUnlessStopped
       \/ /\ Proceed("resolve", {})
          /\ errors' = errors + 1
          /\ UNCHANGED delivered
    /\ NoStop /\ Release
    /\ UNCHANGED <<setting, wire, inbox, zorro>>

\* TCP connected: the TLS handshake starts and the ping timer is armed.
OnConnect ==
    /\ IoFree /\ "connect" \in pending
    /\ \/ ~silent /\ Proceed("connect", {"ssl"}) /\ timer' = "armed" /\ UNCHANGED calls
       \/ Proceed("connect", {}) /\ ReportUnlessStopped /\ UNCHANGED timer
    /\ NoStop
    /\ UNCHANGED <<setting, wire, inbox, zorro>>

\* TLS established: the WebSocket handshake starts.  A TLS error is reported
\* without a stop(), so the timer's handler is orphaned with the flag clear.
OnSslHandshake ==
    /\ IoFree /\ "ssl" \in pending
    /\ \/ /\ ~silent
          /\ Proceed("ssl", {"handshake"})
          /\ wsStatus' = "handshake"
          /\ UNCHANGED calls
       \/ /\ Proceed("ssl", {})
          /\ ReportUnlessStopped
          /\ UNCHANGED wsStatus
    /\ UNCHANGED <<stopRequested, closing>>
    /\ Release
    /\ UNCHANGED <<setting, wire, inbox, zorro>>

\* startReadWrite: startRead and startWrite with the same error code.  On an
\* error startRead reports it and stops, so startWrite finds the flag set.  A
\* handshake that succeeds while a close waits makes the stream open again.
StartReadWrite ==
    /\ IoFree /\ "handshake" \in pending
    /\ \/ /\ Upgraded
          /\ Proceed("handshake", {"read", "write"})
          /\ wsStatus' = "open"
          /\ UNCHANGED <<stopRequested, closing, calls>>
       \/ /\ Refused
          /\ Proceed("handshake", {})
          /\ ReportUnlessStopped
          /\ Stop("io")
    /\ Release
    /\ UNCHANGED <<setting, wire, inbox, zorro>>

-----------------------------------------------------------------------------
(* Reading and writing.                                                    *)

\* The peer sends a frame and the pending read completes.  While the Zorro
\* thread is inside a close both threads read the socket: either may win.
Arrive(frame) ==
    /\ "read" \in pending /\ inbox = None /\ ~silent
    /\ IoFree /\ wsStatus \in {"open", "closing"}
    /\ delivered < MaxMessages
    /\ inbox' = frame
    /\ UNCHANGED <<setting, wire, pending, wsStatus, stopRequested, timer,
                   closing, zorro, calls>>

\* onRead with a frame.  wsCallback's verdict decides: true reads on, false
\* stops; an exception leaves the handler and drops the holder, with no stop().
OnRead ==
    /\ IoFree /\ "read" \in pending /\ inbox # None
    /\ inbox' = None
    /\ \/ /\ inbox = "event"
          /\ delivered' = delivered + 1
          /\ NoStop
          /\ UNCHANGED <<errors, pending, timer>>
       \/ /\ inbox = "apiError"
          /\ errors' = errors + 1
          /\ Proceed("read", {}) /\ Stop("io") /\ Release
          /\ UNCHANGED delivered
       \/ /\ inbox = "malformed"
          /\ Proceed("read", {}) /\ Stop("io") /\ Release
          /\ UNCHANGED calls
       \/ /\ inbox = "notJson"
          /\ Proceed("read", {}) /\ NoStop /\ Release
          /\ UNCHANGED calls
    /\ UNCHANGED <<setting, wire, zorro>>

\* onRead with an error: the connection is gone.
OnReadError ==
    /\ IoFree /\ "read" \in pending /\ inbox = None /\ wsStatus = "closed"
    /\ Proceed("read", {})
    /\ ReportUnlessStopped
    /\ Stop("io")
    /\ Release
    /\ UNCHANGED <<setting, wire, inbox, zorro>>

\* onWrite: clear the buffer, then write the next request if one is left.
OnWrite ==
    /\ IoFree /\ "write" \in pending /\ wsStatus \in {"open", "closing"}
    /\ sent' = Append(sent, wBuffer)
    /\ IF requests = <<>>
       THEN /\ Proceed("write", {})
            /\ wBuffer' = None
            /\ UNCHANGED requests
       ELSE /\ wBuffer' = Last(requests)
            /\ requests' = Front(requests)
            /\ UNCHANGED pending
    /\ NoStop /\ Release
    /\ UNCHANGED <<setting, inbox, zorro, calls>>

\* onWrite with an error: the handler returns at once.
OnWriteError ==
    /\ IoFree /\ "write" \in pending /\ wsStatus \in {"closing", "closed"}
    /\ Proceed("write", {})
    /\ NoStop /\ Release
    /\ UNCHANGED <<setting, wire, inbox, zorro, calls>>

-----------------------------------------------------------------------------
(* The ping timer.  Whether a ping has expired is KeepAlive's matter.       *)

\* m_timerHandler: ping, then arm again, unless a stop was requested before.
\* An expired ping calls stop() and the timer is armed once more all the same.
TimerHandler ==
    /\ IoFree /\ Alive /\ timer = "armed"
    /\ IF stopRequested
       THEN timer' = "off" /\ NoStop
       ELSE /\ timer' = "armed"
            /\ \/ NoStop
               \/ wsStatus # "idle" /\ Stop("io")
    /\ UNCHANGED <<setting, wire, pending, inbox, zorro, calls>>

\* The cancelled handler of a destroyed object runs.  What it reads is freed
\* memory; the outcome this model goes on with is that it does nothing.
TimerOrphan ==
    /\ timer = "orphaned"
    /\ timer' = "off"
    /\ UNCHANGED <<setting, wire, pending, inbox, wsStatus, stopRequested,
                   closing, zorro, calls>>

-----------------------------------------------------------------------------
(* The Zorro thread and the peer.                                          *)

\* unsubscribe(h): lock the weak_ptr and, if the object lives, stop() it.
Unsubscribe ==
    /\ zorro = "attached"
    /\ IF Alive THEN Stop("zorro") ELSE NoStop
    /\ zorro' = IF "zorro" \in closing' THEN "stopping" ELSE "detached"
    /\ UNCHANGED <<setting, wire, pending, inbox, timer, calls>>

\* The peer's close frame has come, or the connection broke: the close returns.
CloseReturns(t) ==
    /\ t \in closing /\ wsStatus = "closed"
    /\ closing' = closing \ {t}
    /\ zorro' = IF t = "zorro" THEN "detached" ELSE zorro
    /\ UNCHANGED <<pending, wsStatus, stopRequested>>
    /\ Release
    /\ UNCHANGED <<setting, wire, inbox, calls>>

\* The peer closes, answers our close, or the network fails.
PeerEnds ==
    /\ wsStatus \in {"handshake", "open", "closing"} /\ Alive
    /\ wsStatus' = "closed"
    /\ UNCHANGED <<setting, wire, pending, inbox, stopRequested, timer,
                   closing, zorro, calls>>

\* The peer stops talking, and the connection to it stays up.
PeerFallsSilent ==
    /\ ~silent /\ Alive
    /\ silent' = TRUE
    /\ UNCHANGED <<channel, wire, pending, inbox, wsStatus, stopRequested, timer,
                   closing, zorro, calls>>

-----------------------------------------------------------------------------
Handlers ==
    \/ OnResolve \/ OnConnect \/ OnSslHandshake \/ StartReadWrite
    \/ OnRead \/ OnReadError \/ OnWrite \/ OnWriteError

Next ==
    \/ Handlers
    \/ TimerHandler \/ TimerOrphan
    \/ Unsubscribe
    \/ \E t \in {"io", "zorro"} : CloseReturns(t)
    \/ \E frame \in Frames : Arrive(frame)
    \/ PeerEnds \/ PeerFallsSilent

\* On an established connection the io thread runs what is ready, writes are
\* completed, and a close that can return does.  A peer that was sent a close
\* frame answers or its connection breaks, unless it has fallen silent: the code
\* has no timeout for that.  What waits on a connection that is gone fails.
\* Nothing makes a connection come about, or the peer send frames or end the
\* connection on its own.
Fairness ==
    /\ WF_vars(OnRead \/ OnReadError \/ OnWrite \/ OnWriteError)
    /\ WF_vars(wsStatus = "closed" /\ StartReadWrite)
    /\ \A t \in {"io", "zorro"} : WF_vars(CloseReturns(t))
    /\ WF_vars(closing # {} /\ ~silent /\ PeerEnds)

Spec == Init /\ [][Next]_vars /\ Fairness

-----------------------------------------------------------------------------
(* Properties.                                                             *)

\* However a connection fails, and however the failure meets an unsubscribe or
\* an expired ping, its callback is told of at most one error (the stop() in
\* startRead keeps startWrite quiet, lines 169-212).
AtMostOneError == errors <= 1

\* On a private channel the exchange sees the login before the subscription:
\* startChannel pushes it last and the writes take requests from the back.
LoginFirst ==
    channel = "orders" =>
        \A i \in 1..Len(sent) : sent[i] = "subscribe" => \E j \in 1..i : sent[j] = "login"

\* A stream that can carry events and was not asked to stop is watched: the
\* ping timer that detects a dead peer is armed (lines 54-61, 150).
Heartbeat == wsStatus = "open" /\ ~stopRequested /\ Alive => timer = "armed"

\* The unsubscription contract of ftx_ws_client.h:84, "Unsubscribe a WebSocket
\* synchronously": once unsubscribe has returned the callback gets no event.
SilentAfterUnsubscribe == [][zorro = "detached" => delivered' = delivered]_vars

\* A stop() that waits for the peer's close frame ends the object, whichever
\* thread waits and even when both do, in the WebSocket handshake or after it
\* (lines 160-167).  Only a peer that has fallen silent can prevent it: then the
\* thread waits for ever, since the close has no timeout.
CloseEnds == closing # {} ~> (~Alive \/ silent)

\* A stream that opens gets its subscription across or goes altogether: a write
\* error nobody is told of (lines 248-250) leaves no stream behind that lives and
\* has not subscribed.
SubscribesEventually ==
    wsStatus = "open" ~> (~Alive \/ silent \/ "subscribe" \in Range(sent))

-----------------------------------------------------------------------------
(* The contract with the callback: a stream has ended when it has reported  *)
(* an error or no operation is left that could call the callback.          *)

phase ==
    IF errors > 0 \/ pending \cap (Setup \cup {"read"}) = {} THEN "ended"
    ELSE IF "read" \in pending THEN "live" ELSE "connecting"

Contract == INSTANCE StreamContract
                WITH phase <- phase, delivered <- delivered, errors <- errors

KeepsContract == Contract!Spec
=============================================================================
