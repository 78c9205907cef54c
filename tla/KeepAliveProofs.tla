-------------------------- MODULE KeepAliveProofs --------------------------
(***************************************************************************)
(* Proofs about KeepAlive for every interval, delay and latency the         *)
(* assumption allows, and every horizon.                                   *)
(***************************************************************************)
EXTENDS KeepAlive, TLAPS

\* How the stamps, the expiry and the clock lie to each other.
ClockInv ==
    /\ Start <= now
    /\ lastPingTime <= now /\ lastPongTime <= now /\ openedAt <= now
    /\ expiry <= now + Interval
    /\ lastPingTime # 0 => Start <= lastPingTime
    /\ ~Writable => lastPingTime = 0
    /\ stage # "open" => lastPongTime = 0
    /\ lastPongTime # 0 => openedAt <= lastPongTime

\* Before the watch has stopped the stream, its timer is not overdue.
TimerInv ==
    ~stopRequested =>
        /\ stage # "connecting" => now <= expiry + Delay
        /\ lastPingTime # 0 => expiry = lastPingTime + Interval

\* An answer is on its way, or a peer that is well has answered the last ping.
AnswerInv ==
    /\ answerBy # 0 => /\ lastPingTime # 0
                       /\ answerBy = lastPingTime + Latency
                       /\ now <= answerBy
    /\ well /\ ~stopRequested /\ lastPingTime # 0 /\ answerBy = 0
            => lastPingTime <= lastPongTime
    /\ answerBy # 0 => stage = "open" \/ well

\* How far the next expiry can lie from the last sign of the peer.
SilenceInv ==
    stage = "open" /\ ~stopRequested =>
        /\ lastPingTime = 0 => expiry <= openedAt + Interval
        /\ lastPongTime = 0 /\ lastPingTime # 0
              => lastPingTime <= openedAt + Interval + Delay
        /\ lastPongTime # 0 => expiry <= lastPongTime + 3 * Interval + Delay

IInv == TypeOK /\ ClockInv /\ TimerInv /\ AnswerInv /\ SilenceInv /\ NoFalseAlarm

-----------------------------------------------------------------------------
LEMMA InitIInv == Init => IInv
<1> SUFFICES ASSUME Init PROVE IInv
  OBVIOUS
<1> USE TimingAssumption DEF Init
<1>1. TypeOK
  <2>1. stopRequested \in BOOLEAN /\ well \in BOOLEAN
    BY Zenon
  <2>2. now \in Nat /\ openedAt \in Nat /\ expiry \in Nat /\ answerBy \in Nat
    OBVIOUS
  <2>3. lastPingTime \in Nat /\ lastPongTime \in Nat /\ stage = "connecting"
    OBVIOUS
  <2> QED BY <2>1, <2>2, <2>3 DEF TypeOK, Stages
<1>2. ClockInv /\ TimerInv
  BY DEF ClockInv, TimerInv, Writable
<1>3. AnswerInv /\ SilenceInv /\ NoFalseAlarm
  BY DEF AnswerInv, SilenceInv, NoFalseAlarm
<1> QED BY <1>1, <1>2, <1>3 DEF IInv

\* At the moment the handler runs no answer is outstanding: it was due earlier.
LEMMA NoAnswerOutstanding ==
    ASSUME IInv, TimerHandler
    PROVE  answerBy = 0
BY TimingAssumption DEF IInv, TypeOK, Stages, TimerInv, AnswerInv, TimerHandler

LEMMA TimerHandlerKeeps ==
    ASSUME IInv, TimerHandler
    PROVE  IInv'
<1> USE TimingAssumption DEF IInv, TypeOK, Stages, Writable
<1>1. answerBy = 0
  BY NoAnswerOutstanding
<1>2. /\ ~stopRequested /\ stage # "connecting" /\ expiry <= now /\ now <= expiry + Delay
      /\ expiry' = now + Interval
      /\ UNCHANGED <<now, stage, openedAt, lastPongTime, well>>
  BY DEF TimerHandler, TimerInv
<1>3. CASE Expired
  <2>1. stopRequested' = TRUE /\ UNCHANGED <<lastPingTime, answerBy>>
    BY <1>3 DEF TimerHandler
  <2>2. ~well
    BY <1>1, <1>2, <1>3 DEF Expired, AnswerInv
  <2>3. TypeOK' /\ ClockInv'
    BY <1>2, <2>1 DEF ClockInv
  <2> QED
    BY <1>1, <1>2, <2>1, <2>2, <2>3 DEF TimerInv, AnswerInv, SilenceInv, NoFalseAlarm
<1>4. CASE ~Expired /\ Writable
  <2>1. /\ stopRequested' = FALSE
        /\ lastPingTime' = now
        /\ answerBy' = IF well THEN now + Latency ELSE 0
    BY <1>1, <1>2, <1>4 DEF TimerHandler
  <2>2. TypeOK' /\ ClockInv' /\ TimerInv' /\ NoFalseAlarm'
    <3>1. TypeOK'
      <4>1. stopRequested' \in BOOLEAN /\ well' \in BOOLEAN
        BY <1>2, <2>1, Zenon
      <4>2. lastPingTime' \in Nat /\ expiry' \in Nat /\ answerBy' \in Nat
        BY <1>2, <2>1
      <4> QED BY <1>2, <4>1, <4>2
    <3>2. ClockInv'
      BY <1>2, <1>4, <2>1 DEF ClockInv
    <3>3. TimerInv'
      BY <1>2, <2>1 DEF TimerInv
    <3>4. NoFalseAlarm'
      BY <2>1 DEF NoFalseAlarm
    <3> QED BY <3>1, <3>2, <3>3, <3>4
  <2>3. AnswerInv'
    BY <1>2, <2>1 DEF AnswerInv, ClockInv
  <2>4. lastPongTime = 0 => lastPingTime = 0
    BY <1>4 DEF Expired, ClockInv
  <2>5. stage = "open" /\ lastPongTime = 0 => now <= openedAt + Interval + Delay
    BY <1>2, <1>4, <2>4 DEF SilenceInv
  <2>6. stage = "open" /\ lastPongTime # 0 => now <= lastPongTime + 2 * Interval + Delay
    <3>1. CASE lastPingTime = 0
      BY <1>2, <1>4, <3>1 DEF SilenceInv, ClockInv
    <3>2. CASE lastPingTime # 0
      BY <1>2, <1>4, <3>2 DEF Expired, TimerInv
    <3> QED BY <3>1, <3>2
  <2>7. SilenceInv'
    BY <1>2, <2>1, <2>5, <2>6 DEF SilenceInv, ClockInv
  <2> QED BY <2>2, <2>3, <2>7
<1>5. CASE ~Expired /\ ~Writable
  BY <1>1, <1>2, <1>5
  DEF TimerHandler, ClockInv, TimerInv, AnswerInv, SilenceInv, NoFalseAlarm
<1> QED BY <1>3, <1>4, <1>5

LEMMA StepIInv == IInv /\ [Next]_vars => IInv'
<1> SUFFICES ASSUME IInv, [Next]_vars PROVE IInv'
  OBVIOUS
<1> USE TimingAssumption
        DEF IInv, TypeOK, Stages, Writable, ClockInv, TimerInv, AnswerInv, SilenceInv, NoFalseAlarm, stamps
<1>1. CASE Connect
  BY <1>1 DEF Connect
<1>2. CASE Shake \/ Open
  BY <1>2 DEF Shake, Open
<1>3. CASE TimerHandler
  BY <1>3, TimerHandlerKeeps
<1>4. CASE Answer
  BY <1>4 DEF Answer
<1>5. CASE PeerPings
  BY <1>5 DEF PeerPings
<1>6. CASE PeerGoes
  <2>1. /\ well' = FALSE
        /\ UNCHANGED <<now, stage, openedAt, expiry, stamps, stopRequested>>
    BY <1>6 DEF PeerGoes
  <2>2. CASE answerBy' = 0
    BY <2>1, <2>2
  <2>3. CASE answerBy' = answerBy /\ stage = "open"
    BY <2>1, <2>3
  <2> QED BY <1>6, <2>2, <2>3 DEF PeerGoes
<1>7. CASE Tick
  BY <1>7 DEF Tick
<1>8. CASE UNCHANGED vars
  BY <1>8 DEF vars
<1> QED BY <1>1, <1>2, <1>3, <1>4, <1>5, <1>6, <1>7, <1>8 DEF Next

LEMMA IInvHolds == Spec => []IInv
BY InitIInv, StepIInv, PTL DEF Spec

-----------------------------------------------------------------------------
\* The stamps, the expiry and the clock stay natural numbers.
THEOREM TypeCorrect == Spec => []TypeOK
<1>1. IInv => TypeOK
  BY DEF IInv
<1> QED BY <1>1, IInvHolds, PTL

\* A peer that answers within the interval is never taken for dead.
THEOREM NeverFalseAlarm == Spec => []NoFalseAlarm
<1>1. IInv => NoFalseAlarm
  BY DEF IInv
<1> QED BY <1>1, IInvHolds, PTL

\* The watch lets no open stream stay silent for longer than the bound.
THEOREM SilenceIsBounded == Spec => []SilenceBound
<1>1. IInv => SilenceBound
  BY TimingAssumption DEF IInv, TypeOK, ClockInv, TimerInv, SilenceInv, SilenceBound
<1> QED BY <1>1, IInvHolds, PTL
=============================================================================
