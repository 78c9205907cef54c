-------------------------- MODULE WebSocketProofs --------------------------
(***************************************************************************)
(* Proofs about WebSocket, whatever the number of frames: a connection      *)
(* keeps the contract of StreamContract, and an open one is watched.        *)
(***************************************************************************)
EXTENDS WebSocket, TLAPS

\* The operations whose handlers may call the callback.
Calling == pending \cap (Setup \cup {"read"})

\* At most one of them is pending, and none once an error has been told.
CallingInv ==
    /\ errors \in Nat /\ delivered \in Nat
    /\ \A a, b \in Calling : a = b
    /\ errors > 0 => Calling = {}
    /\ errors <= 1

-----------------------------------------------------------------------------
LEMMA CallingInvHolds == Spec => []CallingInv
<1>1. Init => CallingInv
  BY DEF Init, CallingInv, Calling, Setup
<1>2. CallingInv /\ [Next]_vars => CallingInv'
  <2> SUFFICES ASSUME CallingInv, [Next]_vars PROVE CallingInv'
    OBVIOUS
  <2> USE DEF CallingInv, Calling, Setup, Proceed, ReportUnlessStopped, Stop, NoStop, calls
  <2>1. CASE OnResolve
    BY <2>1 DEF OnResolve
  <2>2. CASE OnConnect
    BY <2>2 DEF OnConnect
  <2>3. CASE OnSslHandshake
    BY <2>3 DEF OnSslHandshake
  <2>4. CASE StartReadWrite
    BY <2>4 DEF StartReadWrite
  <2>5. CASE OnRead
    BY <2>5 DEF OnRead
  <2>6. CASE OnReadError
    BY <2>6 DEF OnReadError
  <2>7. CASE OnWrite \/ OnWriteError
    BY <2>7 DEF OnWrite, OnWriteError
  <2>8. CASE TimerHandler \/ TimerOrphan \/ Unsubscribe \/ PeerEnds \/ PeerFallsSilent
    BY <2>8 DEF TimerHandler, TimerOrphan, Unsubscribe, PeerEnds, PeerFallsSilent
  <2>9. CASE \E t \in {"io", "zorro"} : CloseReturns(t)
    BY <2>9 DEF CloseReturns
  <2>10. CASE \E frame \in Frames : Arrive(frame)
    BY <2>10 DEF Arrive
  <2>11. CASE UNCHANGED vars
    BY <2>11 DEF vars
  <2> QED
    BY <2>1, <2>2, <2>3, <2>4, <2>5, <2>6, <2>7, <2>8, <2>9, <2>10, <2>11
    DEF Next, Handlers
<1> QED BY <1>1, <1>2, PTL DEF Spec

\* However a connection fails, its callback is told of at most one error.
THEOREM OneErrorAtMost == Spec => []AtMostOneError
<1>1. CallingInv => AtMostOneError
  BY DEF CallingInv, AtMostOneError
<1> QED BY <1>1, CallingInvHolds, PTL

-----------------------------------------------------------------------------
\* Every step of a connection is a step of the contract or none at all.
LEMMA StepKeepsContract ==
    ASSUME CallingInv, [Next]_vars
    PROVE  [Contract!Next]_(Contract!vars)
<1> USE DEF CallingInv, Calling, Setup, Proceed, ReportUnlessStopped, Stop, NoStop, calls,
            phase, Contract!Next, Contract!vars, Contract!GoLive, Contract!Deliver,
            Contract!Fail, Contract!EndSilently
<1>1. CASE OnResolve
  BY <1>1 DEF OnResolve
<1>2. CASE OnConnect
  BY <1>2 DEF OnConnect
<1>3. CASE OnSslHandshake
  BY <1>3 DEF OnSslHandshake
<1>4. CASE StartReadWrite
  BY <1>4 DEF StartReadWrite
<1>5. CASE OnRead
  BY <1>5 DEF OnRead
<1>6. CASE OnReadError
  BY <1>6 DEF OnReadError
<1>7. CASE OnWrite \/ OnWriteError
  BY <1>7 DEF OnWrite, OnWriteError
<1>8. CASE TimerHandler \/ TimerOrphan \/ Unsubscribe \/ PeerEnds \/ PeerFallsSilent
  BY <1>8 DEF TimerHandler, TimerOrphan, Unsubscribe, PeerEnds, PeerFallsSilent
<1>9. CASE \E t \in {"io", "zorro"} : CloseReturns(t)
  BY <1>9 DEF CloseReturns
<1>10. CASE \E frame \in Frames : Arrive(frame)
  BY <1>10 DEF Arrive
<1>11. CASE UNCHANGED vars
  BY <1>11 DEF vars
<1> QED
  BY <1>1, <1>2, <1>3, <1>4, <1>5, <1>6, <1>7, <1>8, <1>9, <1>10, <1>11
  DEF Next, Handlers

\* The connection implements the contract with its callback: no event after the
\* end, one error at most, and an error is the end.
THEOREM ImplementsContract == Spec => KeepsContract
<1>1. Init => Contract!Init
  BY DEF Init, phase, Setup, Contract!Init
<1> QED
  BY <1>1, StepKeepsContract, CallingInvHolds, PTL DEF Spec, KeepsContract, Contract!Spec

-----------------------------------------------------------------------------
\* From the TCP connection on, an object that lives and was not asked to stop
\* has its timer armed.
WatchInv ==
    Alive /\ ~stopRequested /\ (wsStatus # "idle" \/ pending \cap {"ssl", "handshake"} # {})
        => timer = "armed"

\* An open stream that nobody asked to stop is always watched by the timer.
THEOREM OpenIsWatched == Spec => []Heartbeat
<1>1. Init => WatchInv
  BY DEF Init, WatchInv
<1>2. CallingInv /\ WatchInv /\ [Next]_vars => WatchInv'
  <2> SUFFICES ASSUME CallingInv, WatchInv, [Next]_vars PROVE WatchInv'
    OBVIOUS
  <2> USE DEF WatchInv, Alive, CallingInv, Proceed, Stop, NoStop, Release
  <2>1. CASE OnResolve
    BY <2>1 DEF OnResolve, Calling, Setup
  <2>2. CASE OnConnect
    BY <2>2 DEF OnConnect, Calling, Setup
  <2>3. CASE OnSslHandshake
    BY <2>3 DEF OnSslHandshake
  <2>4. CASE StartReadWrite
    BY <2>4 DEF StartReadWrite
  <2>5. CASE OnRead
    BY <2>5 DEF OnRead
  <2>6. CASE OnReadError
    BY <2>6 DEF OnReadError
  <2>7. CASE OnWrite \/ OnWriteError
    BY <2>7 DEF OnWrite, OnWriteError
  <2>8. CASE TimerHandler \/ Unsubscribe \/ PeerEnds \/ PeerFallsSilent
    BY <2>8 DEF TimerHandler, Unsubscribe, PeerEnds, PeerFallsSilent
  <2>9. CASE TimerOrphan
    BY <2>9 DEF TimerOrphan
  <2>10. CASE \E t \in {"io", "zorro"} : CloseReturns(t)
    <3>1. PICK t \in {"io", "zorro"} : CloseReturns(t)
      BY <2>10
    <3>2. Alive /\ closing' \subseteq closing
      BY <3>1 DEF CloseReturns
    <3>3. UNCHANGED <<pending, wsStatus, stopRequested>>
      BY <3>1 DEF CloseReturns
    <3>4. Alive' => timer' = timer
      BY <3>1 DEF CloseReturns
    <3> QED BY <3>2, <3>3, <3>4
  <2>11. CASE \E frame \in Frames : Arrive(frame)
    BY <2>11 DEF Arrive
  <2>12. CASE UNCHANGED vars
    BY <2>12 DEF vars
  <2> QED
    BY <2>1, <2>2, <2>3, <2>4, <2>5, <2>6, <2>7, <2>8, <2>9, <2>10, <2>11, <2>12
    DEF Next, Handlers
<1>3. WatchInv => Heartbeat
  BY DEF WatchInv, Heartbeat
<1> QED BY <1>1, <1>2, <1>3, CallingInvHolds, PTL DEF Spec

-----------------------------------------------------------------------------
\* What is written is a request or nothing; on a private channel the first one
\* written is the login.
Requests == {"login", "subscribe", None}

LoginInv ==
    /\ requests \in Seq(Requests) /\ wBuffer \in Requests /\ sent \in Seq(Requests)
    /\ channel = "orders" => IF sent = <<>> THEN wBuffer = "login" ELSE sent[1] = "login"

\* On a private channel the exchange sees the login before the subscription,
\* however the connection fails and whoever stops it.
THEOREM LoginComesFirst == Spec => []LoginFirst
<1>1. Init => LoginInv
  <2> SUFFICES ASSUME Init PROVE LoginInv
    OBVIOUS
  <2>1. RequestsOf(channel) \in Seq(Requests) /\ RequestsOf(channel) # <<>>
    <3>1. "subscribe" \in Requests /\ "login" \in Requests
      BY DEF Requests
    <3>2. <<"subscribe">> \in Seq(Requests) /\ <<"subscribe", "login">> \in Seq(Requests)
      BY <3>1
    <3> QED BY <3>2 DEF RequestsOf
  <2>2. channel = "orders" => Last(RequestsOf(channel)) = "login"
    BY DEF RequestsOf, Last
  <2>3. Front(RequestsOf(channel)) \in Seq(Requests) /\ Last(RequestsOf(channel)) \in Requests
    BY <2>1 DEF Front, Last
  <2> QED BY <2>2, <2>3 DEF Init, LoginInv
<1>2. LoginInv /\ [Next]_vars => LoginInv'
  <2> SUFFICES ASSUME LoginInv, [Next]_vars PROVE LoginInv'
    OBVIOUS
  <2>1. CASE OnWrite
    <3>1. sent' = Append(sent, wBuffer) /\ UNCHANGED channel
      BY <2>1 DEF OnWrite, setting
    <3>2. requests' \in Seq(Requests) /\ wBuffer' \in Requests
      <4>1. CASE requests = <<>>
        BY <2>1, <4>1 DEF OnWrite, LoginInv, Requests
      <4>2. CASE requests # <<>>
        <5>1. Last(requests) \in Requests /\ Front(requests) \in Seq(Requests)
          BY <4>2 DEF LoginInv, Front, Last
        <5> QED BY <2>1, <4>2, <5>1 DEF OnWrite
      <4> QED BY <4>1, <4>2
    <3>3. sent' \in Seq(Requests) /\ sent' # <<>>
      BY <3>1 DEF LoginInv
    <3>4. sent'[1] = IF sent = <<>> THEN wBuffer ELSE sent[1]
      BY <3>1 DEF LoginInv
    <3> QED BY <3>1, <3>2, <3>3, <3>4 DEF LoginInv
  <2>2. CASE UNCHANGED <<channel, wire>>
    BY <2>2 DEF LoginInv, wire
  <2> QED
    BY <2>1, <2>2
    DEF Next, Handlers, vars, OnResolve, OnConnect, OnSslHandshake, StartReadWrite, OnRead,
        OnReadError, OnWriteError, TimerHandler, TimerOrphan, Unsubscribe, CloseReturns,
        Arrive, PeerEnds, PeerFallsSilent, setting, wire
<1>3. LoginInv => LoginFirst
  BY DEF LoginInv, LoginFirst
<1> QED BY <1>1, <1>2, <1>3, PTL DEF Spec
=============================================================================
