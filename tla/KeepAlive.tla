------------------------------ MODULE KeepAlive ------------------------------
(***************************************************************************)
(* The ping/pong watch of one connection (ftx_websocket.cpp) in time.       *)
(*                                                                         *)
(* The timer's first expiry is set when the object is made, it is armed    *)
(* when TCP connects, and each handler sets the next expiry.  A ping that   *)
(* could be written stamps lastPingTime: the stream takes one from its      *)
(* WebSocket handshake on.  A control frame from the peer is read once the  *)
(* stream is open and, when it has been answered, stamps lastPongTime.      *)
(* Both stamps start at the clock's epoch, which is 0 here.                 *)
(*                                                                         *)
(* Time is counted in whole units.  An action takes no time; Tick passes a  *)
(* unit, unless something is due.                                          *)
(***************************************************************************)
EXTENDS Integers

CONSTANTS
    Interval,   \* PING_INTERVAL_IN_S
    Delay,      \* the io thread runs a due timer handler within this time
    Latency,    \* a peer that is well answers a ping within this time, and
                \* the upgrade request the ping may have been written behind
    Start,      \* the clock when the object is made
    Horizon     \* bound on the clock

ASSUME TimingAssumption ==
    /\ Interval \in Nat /\ Delay \in Nat /\ Latency \in Nat
    /\ Latency < Interval
    /\ Start \in Nat /\ Start > Interval
    /\ Horizon \in Nat

VARIABLES
    now,            \* the clock
    stage,          \* of the connection, see Stages
    openedAt,       \* when the stream opened
    expiry,         \* of m_pingTimer
    lastPingTime,
    lastPongTime,
    stopRequested,  \* set by the watch; nothing else stops the stream here
    well,           \* the peer and the path to it are there
    answerBy        \* when the peer's answer to a ping is due, 0 for none

vars == <<now, stage, openedAt, expiry, lastPingTime, lastPongTime,
          stopRequested, well, answerBy>>

stamps == <<lastPingTime, lastPongTime>>

\* Until TCP connects, in the TLS handshake, in the WebSocket handshake, open.
Stages == {"connecting", "connected", "shaking", "open"}

TypeOK ==
    /\ now \in Nat
    /\ stage \in Stages
    /\ openedAt \in Nat
    /\ expiry \in Nat
    /\ lastPingTime \in Nat
    /\ lastPongTime \in Nat
    /\ stopRequested \in BOOLEAN
    /\ well \in BOOLEAN
    /\ answerBy \in Nat

\* The stream takes frames: in its WebSocket handshake already.
Writable == stage \in {"shaking", "open"}

Init ==
    /\ now = Start
    /\ stage = "connecting"
    /\ openedAt = 0
    /\ expiry = Start + Interval
    /\ lastPingTime = 0
    /\ lastPongTime = 0
    /\ stopRequested = FALSE
    /\ well = TRUE
    /\ answerBy = 0

-----------------------------------------------------------------------------
\* A slip of Connect: the expiry is taken for a duration.
ConnectRelative ==
    /\ stage = "connecting"
    /\ stage' = "connected"
    /\ expiry' = Interval - now
    /\ UNCHANGED <<now, openedAt, stamps, stopRequested, well, answerBy>>

\* onConnected arms the timer; an expiry that has passed is due at once.
Connect ==
    /\ stage = "connecting"
    /\ stage' = "connected"
    /\ expiry' = IF expiry < now THEN now ELSE expiry
    /\ UNCHANGED <<now, openedAt, stamps, stopRequested, well, answerBy>>

\* TLS is established and the WebSocket handshake begins: pings can be written.
Shake ==
    /\ stage = "connected" /\ well
    /\ stage' = "shaking"
    /\ UNCHANGED <<now, openedAt, expiry, stamps, stopRequested, well, answerBy>>

\* The handshake is done: control frames are read.
Open ==
    /\ stage = "shaking" /\ well
    /\ stage' = "open"
    /\ openedAt' = now
    /\ UNCHANGED <<now, expiry, stamps, stopRequested, well, answerBy>>

\* A slip of Expired: the stamps swapped.
ExpiredSwapped == lastPongTime - lastPingTime > Interval

\* ping() compares the stamps: has the ping before been left unanswered?
Expired == lastPingTime - lastPongTime > Interval

\* A slip of TimerHandler: the ping is stamped before the stamps are compared.
TimerHandlerStampsFirst ==
    /\ stage # "connecting" /\ ~stopRequested /\ now >= expiry
    /\ expiry' = now + Interval
    /\ lastPingTime' = IF Writable THEN now ELSE lastPingTime
    /\ stopRequested' = (lastPingTime' - lastPongTime > Interval)
    /\ answerBy' = IF Writable /\ well THEN now + Latency ELSE answerBy
    /\ UNCHANGED <<now, stage, openedAt, lastPongTime, well>>

\* m_timerHandler: ping() and the next expiry.  An expired ping stops the
\* stream; a ping before the WebSocket handshake fails and stamps nothing.
TimerHandler ==
    /\ stage # "connecting" /\ ~stopRequested /\ now >= expiry
    /\ expiry' = now + Interval
    /\ IF Expired
       THEN /\ stopRequested' = TRUE
            /\ UNCHANGED <<lastPingTime, answerBy>>
       ELSE /\ lastPingTime' = IF Writable THEN now ELSE lastPingTime
            /\ answerBy' = IF Writable /\ well THEN now + Latency ELSE answerBy
            /\ UNCHANGED stopRequested
    /\ UNCHANGED <<now, stage, openedAt, lastPongTime, well>>

\* The peer's answer arrives; control_callback sends a pong and stamps it.
Answer ==
    /\ stage = "open" /\ answerBy # 0
    /\ lastPongTime' = now
    /\ answerBy' = 0
    /\ UNCHANGED <<now, stage, openedAt, expiry, lastPingTime, stopRequested, well>>

\* A ping of the peer's own is answered and stamped the same way.
PeerPings ==
    /\ stage = "open" /\ well
    /\ lastPongTime' = now
    /\ UNCHANGED <<now, stage, openedAt, expiry, lastPingTime, stopRequested,
                   well, answerBy>>

\* The peer or the path goes, without a word; an answer on its way may be lost,
\* and one behind the answer to the upgrade request is lost with that.
PeerGoes ==
    /\ well
    /\ well' = FALSE
    /\ answerBy' \in {0, IF stage = "open" THEN answerBy ELSE 0}
    /\ UNCHANGED <<now, stage, openedAt, expiry, stamps, stopRequested>>

Tick ==
    /\ now < Horizon
    /\ ~stopRequested
    /\ stage # "connecting" => now < expiry + Delay
    /\ answerBy # 0 => now < answerBy
    /\ now' = now + 1
    /\ UNCHANGED <<stage, openedAt, expiry, stamps, stopRequested, well, answerBy>>

Next == Connect \/ Shake \/ Open \/ TimerHandler \/ Answer \/ PeerPings \/ PeerGoes \/ Tick

Spec == Init /\ [][Next]_vars

-----------------------------------------------------------------------------
(* Properties.                                                             *)

\* A peer that answers within a ping interval is never taken for dead, from
\* the first ping on, when the stamp it is compared with is still the epoch
\* (lines 271-280).
NoFalseAlarm == stopRequested => ~well

\* An open stream the peer has gone silent on is not kept for long: up to two
\* intervals when it never said anything, three since its last control frame.
SilenceBound ==
    stage = "open" /\ ~stopRequested =>
        IF lastPongTime = 0
        THEN now <= openedAt + 2 * (Interval + Delay)
        ELSE now <= lastPongTime + 3 * Interval + 2 * Delay
=============================================================================
