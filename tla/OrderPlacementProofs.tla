------------------------ MODULE OrderPlacementProofs ------------------------
(***************************************************************************)
(* Proofs about OrderPlacement for every number of attempts and calls and  *)
(* every set of order and lot sizes.                                       *)
(***************************************************************************)
EXTENDS OrderPlacement, TLAPS

\* A call that may still poll has an attempt left.
AttemptInv == pc \in {"place", "poll"} => attemptNo < MaxAttempts

TypeInv == TypeOK /\ AttemptInv

\* What the call knows of its order at each stage.
CallInv ==
    /\ pc # "idle" => outcome = "none"
    /\ pc \in {"poll", "check"} =>
          /\ placedBy[id] = calls
          /\ size[id] = amount * lotAmount
          /\ status[id] # "absent"
    /\ pc = "check" /\ ack.status = "closed" =>
          /\ status[id] = "closed"
          /\ ack.filled = filled[id]

\* What a reported trade is at the exchange, for ever after.
TradeInv == outcome = "trade" => status[id] = "closed" /\ placedBy[id] = calls

OrderInv == CallInv /\ TradeInv /\ MarketNeverRests

\* What ties a reported fill to the exchange's: the lot it was ordered with.
FillInv ==
    /\ \A i \in Ids : filled[i] <= size[i]
    /\ outcome = "trade" =>
          \E lot \in Lots : /\ size[id] = amount * lot
                            /\ fill = RoundToLots(filled[id], lot)

-----------------------------------------------------------------------------
LEMMA InitTypeInv == Init => TypeInv
<1> SUFFICES ASSUME Init PROVE TypeInv
  OBVIOUS
<1> USE OrderAssumption DEF Init, Ids, Kinds, Stages, Outcomes
<1>1. loggedIn \in BOOLEAN
  BY Zenon
<1>2. /\ now \in Ids /\ lastOrderId \in 0..(MaxId + 1) /\ calls \in 0..MaxCalls
      /\ id \in Ids /\ attemptNo \in 0..MaxAttempts /\ AttemptInv
  BY DEF AttemptInv
<1>3. /\ status \in [Ids -> Stages] /\ kind \in [Ids -> Kinds]
      /\ size \in [Ids -> Nat] /\ filled \in [Ids -> Nat]
      /\ placedBy \in [Ids -> 0..MaxCalls]
  OBVIOUS
<1> QED BY <1>1, <1>2, <1>3 DEF TypeInv, TypeOK

LEMMA RoundIsNat ==
    ASSUME NEW f \in Nat, NEW lot \in Nat \ {0}
    PROVE  RoundToLots(f, lot) \in Nat
BY DEF RoundToLots

LEMMA UpdateStays ==
    ASSUME NEW S, NEW T, NEW f \in [S -> T], NEW x, NEW v \in T
    PROVE  [f EXCEPT ![x] = v] \in [S -> T]
OBVIOUS

LEMMA StutterTypeInv ==
    ASSUME TypeInv, UNCHANGED vars
    PROVE  TypeInv'
BY DEF TypeInv, TypeOK, AttemptInv, vars, session, settings, call, answer, ending, exchange

LEMMA StepTypeInv == TypeInv /\ [Next]_vars => TypeInv'
<1> SUFFICES ASSUME TypeInv, [Next]_vars PROVE TypeInv'
  OBVIOUS
<1> USE OrderAssumption
        DEF TypeInv, TypeOK, AttemptInv, Ids, Stages, Kinds, Outcomes,
            session, settings, call, answer, ending, exchange, Fail
<1>1. CASE Login
  <2>1. loggedIn' \in BOOLEAN
    BY <1>1, Zenon DEF Login
  <2>2. now' \in Ids
    BY <1>1 DEF Login
  <2>3. lastOrderId' \in 0..(MaxId + 1)
    BY <1>1, <2>2 DEF Login
  <2> QED BY <1>1, <2>1, <2>2, <2>3 DEF Login
<1>2. CASE Logout
  BY <1>2 DEF Logout
<1>3. CASE \E t \in OrderTypes : SetOrderType(t)
  BY <1>3 DEF SetOrderType
<1>4. CASE \E lot \in Lots : SetAmount(lot)
  BY <1>4 DEF SetAmount
<1>5. ASSUME NEW lots \in Amounts, NEW limit \in 0..1, NEW stopDist \in -1..1,
             Buy(lots, limit, stopDist)
      PROVE  TypeInv'
  <2>1. CASE loggedIn
    <3>1. asked' \in Kinds
      BY <1>5, <2>1 DEF Buy, KindOf
    <3>2. ack' = [status |-> "none", filled |-> 0]
      BY <1>5, <2>1 DEF Buy
    <3>3. ack' \in [status : {"none"} \cup Stages, filled : Nat]
      BY <3>2
    <3>4. /\ lastOrderId' \in 0..(MaxId + 1) /\ id' \in Ids
          /\ calls' \in 0..MaxCalls /\ attemptNo' \in 0..MaxAttempts
          /\ AttemptInv'
      BY <1>5, <2>1 DEF Buy
    <3>5. /\ pc' = "place" /\ outcome' = "none" /\ amount' \in Amounts
          /\ UNCHANGED <<now, loggedIn, settings, fill, exchange>>
      BY <1>5, <2>1 DEF Buy
    <3> QED BY <3>1, <3>3, <3>4, <3>5
  <2>2. CASE ~loggedIn
    BY <1>5, <2>2 DEF Buy
  <2> QED BY <2>1, <2>2
<1>6. CASE Accepted
  <2>1. amount * lotAmount \in Nat
    BY Z3
  <2>2. size' \in [Ids -> Nat]
    BY <1>6, <2>1 DEF Accepted
  <2>3. filled' \in [Ids -> Nat]
    <3> DEFINE ordered == amount * lotAmount
    <3>1. PICK f \in 0..ordered : filled' = [filled EXCEPT ![id] = f]
      BY <1>6, Zenon DEF Accepted
    <3>2. f \in Nat
      <4>1. ordered \in Nat
        BY <2>1
      <4> HIDE DEF ordered
      <4> QED BY <4>1
    <3> QED BY <3>1, <3>2, UpdateStays, Zenon
  <2>4. status' \in [Ids -> Stages]
    BY <1>6 DEF Accepted
  <2>5. placedBy' \in [Ids -> 0..MaxCalls] /\ kind' \in [Ids -> Kinds]
    BY <1>6 DEF Accepted
  <2>6. /\ pc' \in {"idle", "poll"} /\ outcome' \in Outcomes
        /\ UNCHANGED <<session, settings, call, answer, fill>>
    BY <1>6 DEF Accepted
  <2>7. AttemptInv'
    BY <1>6 DEF Accepted
  <2> QED BY <2>2, <2>3, <2>4, <2>5, <2>6, <2>7
<1>7. CASE NotAccepted
  BY <1>7 DEF NotAccepted
<1>8. CASE PollFails
  BY <1>8 DEF PollFails
<1>9. CASE GiveUp
  BY <1>9 DEF GiveUp
<1>10. CASE PollAgain
  <2>1. attemptNo < MaxAttempts
    BY <1>10 DEF PollAgain
  <2> QED BY <1>10, <2>1 DEF PollAgain
<1>11. CASE Poll
  <2>1. ack' = [status |-> status[id], filled |-> filled[id]]
    BY <1>11 DEF Poll
  <2>2. status[id] \in Stages /\ filled[id] \in Nat
    OBVIOUS
  <2>3. ack' \in [status : {"none"} \cup Stages, filled : Nat]
    BY <2>1, <2>2
  <2>4. /\ attemptNo' \in 0..MaxAttempts /\ pc' = "check" /\ AttemptInv'
        /\ UNCHANGED <<session, settings, call, ending, exchange>>
    BY <1>11 DEF Poll
  <2> QED BY <2>3, <2>4
<1>12. CASE Report
  <2>1. fill' \in Nat
    BY <1>12, RoundIsNat DEF Report
  <2> QED BY <1>12, <2>1 DEF Report
<1>13. CASE \E i \in Ids : Cancel(i)
  BY <1>13 DEF Cancel
<1>14. ASSUME NEW i \in Ids, ExchangeFills(i) PROVE TypeInv'
  <2>1. status' \in [Ids -> Stages]
    BY <1>14 DEF ExchangeFills
  <2>2. filled' \in [Ids -> Nat]
    <3>1. PICK f \in filled[i]..size[i] : filled' = [filled EXCEPT ![i] = f]
      BY <1>14, Zenon DEF ExchangeFills
    <3>2. filled[i] \in Nat /\ size[i] \in Nat
      OBVIOUS
    <3>3. f \in Nat
      BY <3>2
    <3> QED BY <3>1, <3>3, UpdateStays, Zenon
  <2>3. /\ UNCHANGED <<session, settings, pc, call, answer, ending>>
        /\ UNCHANGED <<kind, size, placedBy>>
    BY <1>14 DEF ExchangeFills
  <2>4. /\ kind' \in [Ids -> Kinds] /\ size' \in [Ids -> Nat]
        /\ placedBy' \in [Ids -> 0..MaxCalls]
    BY <2>3
  <2> QED BY <2>1, <2>2, <2>3, <2>4
<1> QED
  BY <1>1, <1>2, <1>3, <1>4, <1>5, <1>6, <1>7, <1>8, <1>9, <1>10, <1>11, <1>12,
     <1>13, <1>14, StutterTypeInv
  DEF Next, InCall

\* Every variable keeps to the values of its kind in the plugin and at the
\* exchange; a call polls at most MaxAttempts times (lines 367-377).
THEOREM TypeCorrect == Spec => []TypeOK
<1>1. TypeInv => TypeOK
  BY DEF TypeInv
<1> QED BY <1>1, InitTypeInv, StepTypeInv, PTL DEF Spec

-----------------------------------------------------------------------------
LEMMA InitOrderInv == Init => OrderInv
BY OrderAssumption
   DEF Init, OrderInv, CallInv, TradeInv, MarketNeverRests, Ids

\* Between calls only the exchange moves, and it moves open orders only.
LEMMA StepOrderInv == TypeInv /\ OrderInv /\ [Next]_vars => OrderInv'
<1> SUFFICES ASSUME TypeOK, OrderInv, [Next]_vars PROVE OrderInv'
  BY DEF TypeInv
<1> USE OrderAssumption
        DEF OrderInv, CallInv, TradeInv, MarketNeverRests, TypeOK, Ids, Stages,
            session, settings, call, answer, ending, exchange, Fail
<1>1. CASE Login
  BY <1>1 DEF Login
<1>2. CASE Logout
  BY <1>2 DEF Logout
<1>3. CASE \E t \in OrderTypes : SetOrderType(t)
  BY <1>3 DEF SetOrderType
<1>4. CASE \E lot \in Lots : SetAmount(lot)
  BY <1>4 DEF SetAmount
<1>5. ASSUME NEW lots \in Amounts, NEW limit \in 0..1, NEW stopDist \in -1..1,
             Buy(lots, limit, stopDist)
      PROVE  OrderInv'
  BY <1>5 DEF Buy
<1>6. CASE Accepted
  <2> outcome = "none"
    BY <1>6 DEF Accepted
  <2>1. /\ status[id] = "absent"
        /\ \/ pc' = "poll" /\ outcome' = "none"
           \/ pc' = "idle" /\ outcome' = "error"
        /\ UNCHANGED <<calls, id, amount, asked, lotAmount>>
    BY <1>6 DEF Accepted
  <2>2. /\ placedBy'[id] = calls
        /\ size'[id] = amount * lotAmount
        /\ kind' = [kind EXCEPT ![id] = asked]
    BY <1>6 DEF Accepted
  <2>3. PICK s \in IF IsIoc(asked) THEN {"closed"} ELSE {"open", "closed"} :
               status' = [status EXCEPT ![id] = s]
    BY <1>6, Zenon DEF Accepted
  <2>4. s # "absent" /\ (s = "open" => asked # "market")
    BY <2>3 DEF IsIoc
  <2>5. MarketNeverRests'
    BY <2>2, <2>3, <2>4
  <2>6. status'[id'] # "absent"
    BY <2>1, <2>3, <2>4
  <2>7. size'[id'] = amount' * lotAmount'
    BY <2>1, <2>2, Zenon
  <2>8. CallInv'
    BY <2>1, <2>2, <2>6, <2>7
  <2> QED BY <2>1, <2>5, <2>8
<1>7. CASE NotAccepted
  BY <1>7 DEF NotAccepted
<1>8. CASE PollFails
  BY <1>8 DEF PollFails
<1>9. CASE GiveUp
  BY <1>9 DEF GiveUp
<1>10. CASE PollAgain
  BY <1>10 DEF PollAgain
<1>11. CASE Poll
  <2>1. ack'.status = status[id] /\ ack'.filled = filled[id]
    BY <1>11 DEF Poll
  <2> QED BY <1>11, <2>1 DEF Poll
<1>12. CASE Report
  BY <1>12 DEF Report
<1>13. CASE \E i \in Ids : Cancel(i)
  BY <1>13 DEF Cancel
<1>14. ASSUME NEW i \in Ids, ExchangeFills(i) PROVE OrderInv'
  <2>1. PICK s \in {"open", "closed"} : status' = [status EXCEPT ![i] = s]
    BY <1>14, Zenon DEF ExchangeFills
  <2>2. PICK f \in filled[i]..size[i] : filled' = [filled EXCEPT ![i] = f]
    BY <1>14, Zenon DEF ExchangeFills
  <2>3. /\ status[i] = "open"
        /\ UNCHANGED <<session, settings, pc, call, answer, ending>>
        /\ UNCHANGED <<kind, size, placedBy>>
    BY <1>14 DEF ExchangeFills
  <2>4. \A j \in Ids \ {i} : status'[j] = status[j] /\ filled'[j] = filled[j]
    BY <2>1, <2>2
  <2>5. status'[i] \in {"open", "closed"}
    BY <2>1
  <2>6. MarketNeverRests'
    BY <2>3, <2>4, <2>5
  <2>7. CallInv'
    BY <2>3, <2>4, <2>5
  <2>8. TradeInv'
    BY <2>3, <2>4, <2>5
  <2> QED BY <2>6, <2>7, <2>8
<1>15. CASE UNCHANGED vars
  BY <1>15 DEF vars
<1> QED
  BY <1>1, <1>2, <1>3, <1>4, <1>5, <1>6, <1>7, <1>8, <1>9, <1>10, <1>11, <1>12,
     <1>13, <1>14, <1>15
  DEF Next, InCall

LEMMA OrderInvHolds == Spec => [](TypeInv /\ OrderInv)
BY InitTypeInv, StepTypeInv, InitOrderInv, StepOrderInv, PTL DEF Spec

\* A trade reported to Zorro is over at the exchange and stays so: what the call
\* polled as closed no later fill or cancellation can change (lines 367-391).
THEOREM TradesAreClosed == Spec => []ReportedIsClosed
<1>1. OrderInv => ReportedIsClosed
  BY DEF OrderInv, TradeInv, ReportedIsClosed
<1> QED BY <1>1, OrderInvHolds, PTL

\* The order reported is the one this call placed, although client ids repeat
\* after a login: an id in use is refused, and the call ends (lines 359-361).
THEOREM TradesAreOwn == Spec => []ReportsOwnOrder
<1>1. OrderInv => ReportsOwnOrder
  BY DEF OrderInv, TradeInv, ReportsOwnOrder
<1> QED BY <1>1, OrderInvHolds, PTL

\* A market order never rests at the exchange, whatever its call was told of it
\* (lines 355-361).
THEOREM MarketOrdersDoNotRest == Spec => []MarketNeverRests
<1>1. OrderInv => MarketNeverRests
  BY DEF OrderInv
<1> QED BY <1>1, OrderInvHolds, PTL

-----------------------------------------------------------------------------
(* The fill: the arithmetic, the invariant and the theorem.                *)

LEMMA LotsOfProduct ==
    ASSUME NEW a \in Nat \ {0}, NEW lot \in Nat \ {0}
    PROVE  (a * lot) \div a = lot
BY Z3

LEMMA DivBounds ==
    ASSUME NEW x \in Nat, NEW d \in Nat \ {0}
    PROVE  d * (x \div d) <= x /\ x < d * (x \div d) + d
BY Z3

LEMMA RoundIsNearest ==
    ASSUME NEW f \in Nat, NEW lot \in Nat \ {0}
    PROVE  2 * (RoundToLots(f, lot) * lot - f) \in (-lot)..lot
<1> DEFINE r == RoundToLots(f, lot)
           q == r * lot
<1>1. 2 * lot \in Nat \ {0} /\ 2 * f + lot \in Nat
  OBVIOUS
<1>2. (2 * lot) * r <= 2 * f + lot /\ 2 * f + lot < (2 * lot) * r + 2 * lot
  BY <1>1, DivBounds DEF RoundToLots
<1>3. r \in Nat
  BY RoundIsNat
<1>4. (2 * lot) * r = 2 * q /\ q \in Nat
  BY <1>3, Z3
<1> HIDE DEF r, q
<1>5. 2 * (q - f) \in (-lot)..lot
  BY <1>2, <1>4
<1> QED BY <1>5 DEF r, q

LEMMA RoundIsBounded ==
    ASSUME NEW a \in Nat \ {0}, NEW lot \in Nat \ {0}, NEW f \in Nat, f <= a * lot
    PROVE  RoundToLots(f, lot) <= a
<1> DEFINE r == RoundToLots(f, lot)
<1>1. r \in Nat /\ 2 * (r * lot) <= 2 * f + lot
  <2> DEFINE q == r * lot
  <2>1. r \in Nat
    BY RoundIsNat
  <2>2. q \in Nat /\ 2 * (q - f) <= lot
    BY <2>1, RoundIsNearest
  <2> HIDE DEF q
  <2>3. 2 * q <= 2 * f + lot
    BY <2>2
  <2> QED BY <2>1, <2>3 DEF q
<1> HIDE DEF r
<1>2. r <= a
  BY <1>1, Z3
<1> QED BY <1>2 DEF r

LEMMA InitFillInv == Init => FillInv
BY OrderAssumption DEF Init, FillInv, Ids

LEMMA StepFillInv == TypeInv /\ OrderInv /\ FillInv /\ [Next]_vars => FillInv'
<1> SUFFICES ASSUME TypeOK, OrderInv, FillInv, [Next]_vars PROVE FillInv'
  BY DEF TypeInv
<1> USE OrderAssumption
        DEF FillInv, TypeOK, Ids, Stages,
            session, settings, call, answer, ending, exchange, Fail
\* What leaves the trade and the exchange alone keeps the invariant.
<1>1. ASSUME UNCHANGED <<id, amount, size, filled>>,
             outcome' # "trade" \/ UNCHANGED <<outcome, fill>>
      PROVE  FillInv'
  BY <1>1, Zenon
<1>2. CASE Login
  BY <1>1, <1>2 DEF Login
<1>3. CASE Logout
  BY <1>1, <1>3 DEF Logout
<1>4. CASE \E t \in OrderTypes : SetOrderType(t)
  BY <1>1, <1>4 DEF SetOrderType
<1>5. CASE \E lot \in Lots : SetAmount(lot)
  BY <1>1, <1>5 DEF SetAmount
<1>6. ASSUME NEW lots \in Amounts, NEW limit \in 0..1, NEW stopDist \in -1..1,
             Buy(lots, limit, stopDist)
      PROVE  FillInv'
  BY <1>6 DEF Buy
<1>7. CASE Accepted
  <2> DEFINE ordered == amount * lotAmount
  <2>1. PICK f \in 0..ordered : filled' = [filled EXCEPT ![id] = f]
    BY <1>7, Zenon DEF Accepted
  <2>2. ordered \in Nat
    BY Z3
  <2>3. size' = [size EXCEPT ![id] = ordered]
    BY <1>7, Zenon DEF Accepted
  <2>4. outcome' # "trade"
    BY <1>7 DEF Accepted, OrderInv, CallInv
  <2> HIDE DEF ordered
  <2>5. \A i \in Ids : filled'[i] <= size'[i]
    BY <2>1, <2>2, <2>3
  <2> QED BY <2>4, <2>5
<1>8. CASE NotAccepted
  BY <1>1, <1>8 DEF NotAccepted
<1>9. CASE PollFails
  BY <1>1, <1>9 DEF PollFails
<1>10. CASE GiveUp
  BY <1>1, <1>10 DEF GiveUp
<1>11. CASE PollAgain
  BY <1>1, <1>11 DEF PollAgain
<1>12. CASE Poll
  BY <1>1, <1>12 DEF Poll
<1>13. CASE Report
  <2>1. size[id] = amount * lotAmount /\ ack.filled = filled[id]
    BY <1>13 DEF Report, OrderInv, CallInv
  <2>2. fill' = RoundToLots(filled[id], lotAmount)
    BY <1>13, <2>1 DEF Report
  <2>3. UNCHANGED <<id, amount, size, filled>>
    BY <1>13 DEF Report
  <2>4. lotAmount \in Lots
    OBVIOUS
  <2> QED BY <2>1, <2>2, <2>3, <2>4, Zenon
<1>14. CASE \E i \in Ids : Cancel(i)
  BY <1>1, <1>14 DEF Cancel
<1>15. ASSUME NEW i \in Ids, ExchangeFills(i) PROVE FillInv'
  <2>1. PICK f \in filled[i]..size[i] : filled' = [filled EXCEPT ![i] = f]
    BY <1>15, Zenon DEF ExchangeFills
  <2>2. /\ status[i] = "open"
        /\ UNCHANGED <<id, amount, size, outcome, fill>>
    BY <1>15 DEF ExchangeFills
  <2>3. \A j \in Ids : filled'[j] <= size'[j]
    <3>1. filled[i] \in Nat /\ size[i] \in Nat
      BY DEF TypeInv, TypeOK
    <3>2. ASSUME NEW j \in Ids PROVE filled'[j] <= size[j]
      <4>1. CASE j = i
        BY <2>1, <3>1, <4>1
      <4>2. CASE j # i
        BY <2>1, <4>2
      <4> QED BY <4>1, <4>2
    <3> QED BY <2>2, <3>2
  <2>4. outcome = "trade" => filled'[id] = filled[id]
    BY <2>1, <2>2 DEF OrderInv, TradeInv
  <2> QED BY <2>2, <2>3, <2>4, Zenon
<1>16. CASE UNCHANGED vars
  BY <1>1, <1>16 DEF vars
<1> QED
  BY <1>2, <1>3, <1>4, <1>5, <1>6, <1>7, <1>8, <1>9, <1>10, <1>11, <1>12, <1>13,
     <1>14, <1>15, <1>16
  DEF Next, InCall

\* The fill Zorro books is the exchange's final fill to the nearest lot and
\* never exceeds the lots ordered, for all lot sizes and amounts, and whatever
\* SET_AMOUNT does afterwards (line 385).
THEOREM FillsAreFaithful == Spec => []FillIsFaithful
<1>1. TypeOK /\ FillInv => FillIsFaithful
  <2> SUFFICES ASSUME TypeOK, FillInv, outcome = "trade" PROVE FillIsFaithful
    BY DEF FillIsFaithful
  <2>1. PICK lot \in Lots : /\ size[id] = amount * lot
                            /\ fill = RoundToLots(filled[id], lot)
    BY DEF FillInv
  <2>2. /\ lot \in Nat \ {0} /\ amount \in Nat \ {0}
        /\ filled[id] \in Nat /\ filled[id] <= amount * lot
    BY <2>1, OrderAssumption DEF TypeOK, FillInv, Ids
  <2>3. size[id] \div amount = lot
    BY <2>1, <2>2, LotsOfProduct
  <2>4. fill <= amount
    BY <2>1, <2>2, RoundIsBounded
  <2>5. 2 * (fill * lot - filled[id]) \in (-lot)..lot
    BY <2>1, <2>2, RoundIsNearest
  <2> QED BY <2>3, <2>4, <2>5, Zenon DEF FillIsFaithful
<1>2. TypeInv => TypeOK
  BY DEF TypeInv
<1> QED
  BY <1>1, <1>2, OrderInvHolds, InitFillInv, StepFillInv, PTL DEF Spec
=============================================================================
