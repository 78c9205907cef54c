-------------------------- MODULE OrderFeedProofs --------------------------
(***************************************************************************)
(* Proofs about OrderFeed for any orders, client ids, numbers of fills,     *)
(* connections, events and tries.                                          *)
(*                                                                         *)
(* The lists are followed by the arrivals.  Unless a connection of the      *)
(* channel was stopped in vain, only one connection at a time has an event  *)
(* on its way; so an arrival comes before whatever is still on the way, and *)
(* the list is kept in that order: the first event that matches is the      *)
(* oldest.  Otherwise the same holds of the events of one connection.  On   *)
(* the orders channel an event carries its order's number, and a client id  *)
(* is no such number: so what matches belongs to the order.                *)
(***************************************************************************)
EXTENDS OrderFeed, SequenceTheorems, TLAPS

Lines == UNION {Conns[c] : c \in Channels}
Event == [via : Lines, n : Nat, order : Orders, id : Nat]
Reply == [order : Orders, event : Event]

\* The types of what the events pass through and of the reader's call.
ListsOK ==
    /\ made \in Nat
    /\ state = [c \in Channels |-> state[c]]
    /\ wire = [c \in Channels |-> wire[c]]
    /\ \A c \in Channels : state[c] \in [Conns[c] -> States]
    /\ \A c \in Channels : wire[c] \in [Conns[c] -> Seq(Event)]
    /\ data \in [Channels -> Seq(Event)]
    /\ call \in [of : Channels \cup {"none"}, order : Orders \cup {0}, tries : Nat]
    /\ call.of # "none" => call.order \in Orders
    /\ received \in [Channels -> SUBSET [via : Lines, n : Nat]]
    /\ taken \in [Channels -> Seq(Reply)]

\* A connection that brings events or may get one to bring.
Talks(c, k) == state[c][k] = "open" \/ wire[c][k] # <<>>

\* The connections of one channel: one that was not stopped at most, and until
\* one is stopped in vain, one that talks at most.
ConnInv(c) ==
    /\ \A k, l \in Up(c) : k = l
    /\ \A k \in Conns[c] :
          state[c][k] \in {"free", "connecting", "abandoned"} => wire[c][k] = <<>>
    /\ c \notin haunted =>
          /\ \A k \in Conns[c] : state[c][k] \notin {"abandoned", "ghost"}
          /\ \A k, l \in Conns[c] : Talks(c, k) /\ Talks(c, l) => k = l

\* The order in which the arrivals of a channel come.
Before(c, a, b) == a.n < b.n \/ (c \in haunted /\ a.via # b.via)

Ordered(c, s) == \A i, j \in DOMAIN s : i < j => Before(c, s[i], s[j])

Increasing(s) == \A i, j \in DOMAIN s : i < j => s[i].n < s[j].n

\* What is on its way over connection k: in order, not yet received, and made.
WireInv(c, k) ==
    /\ Increasing(wire[c][k])
    /\ \A m \in DOMAIN wire[c][k] :
          /\ wire[c][k][m].via = k
          /\ wire[c][k][m].n <= made
          /\ \A a \in received[c] : Before(c, a, wire[c][k][m])

SerialInv(c) ==
    /\ Ordered(c, data[c])
    /\ \A k \in Conns[c] : WireInv(c, k)
    /\ \A a \in received[c] : a.n <= made

\* An event on the orders channel carries the number of its order.
OwnNumber(s) == \A i \in DOMAIN s : s[i].id = s[i].order
NumberInv ==
    /\ \A k \in Conns["orders"] : OwnNumber(wire["orders"][k])
    /\ OwnNumber(data["orders"])

\* What was returned for an order came before what still waits for it.
TakenFirst ==
    \A i \in DOMAIN taken["orders"], j \in DOMAIN data["orders"] :
        taken["orders"][i].order = data["orders"][j].order
            => Before("orders", taken["orders"][i].event, data["orders"][j])

-----------------------------------------------------------------------------
\* RemoveAt closes the gap.
LEMMA RemoveAtElements ==
    ASSUME NEW S, NEW s \in Seq(S), NEW i \in 1..Len(s)
    PROVE  /\ RemoveAt(s, i) \in Seq(S)
           /\ Len(RemoveAt(s, i)) = Len(s) - 1
           /\ \A j \in 1..Len(s) - 1 :
                 RemoveAt(s, i)[j] = IF j < i THEN s[j] ELSE s[j + 1]
<1> DEFINE a == SubSeq(s, 1, i - 1)
           b == SubSeq(s, i + 1, Len(s))
<1>1. a \in Seq(S) /\ Len(a) = i - 1 /\ \A j \in 1..i - 1 : a[j] = s[j]
  BY SubSeqProperties
<1>2. b \in Seq(S) /\ Len(b) = Len(s) - i /\ \A j \in 1..Len(s) - i : b[j] = s[j + i]
  BY SubSeqProperties
<1>3. RemoveAt(s, i) = a \o b
  BY DEF RemoveAt
<1> HIDE DEF a, b
<1>4. /\ a \o b \in Seq(S) /\ Len(a \o b) = Len(a) + Len(b)
      /\ \A j \in 1..Len(a) + Len(b) :
            (a \o b)[j] = IF j <= Len(a) THEN a[j] ELSE b[j - Len(a)]
  BY <1>1, <1>2, ConcatProperties
<1>5. ASSUME NEW j \in 1..Len(s) - 1
      PROVE  (a \o b)[j] = IF j < i THEN s[j] ELSE s[j + 1]
  <2>1. CASE j < i
    BY <1>1, <1>2, <1>4, <2>1
  <2>2. CASE ~(j < i)
    <3>1. (a \o b)[j] = b[j - (i - 1)] /\ j - (i - 1) \in 1..Len(s) - i
      BY <1>1, <1>2, <1>4, <2>2
    <3> QED BY <1>2, <2>2, <3>1
  <2> QED BY <2>1, <2>2
<1> QED BY <1>1, <1>2, <1>3, <1>4, <1>5

LEMMA RemoveAtDomain ==
    ASSUME NEW S, NEW s \in Seq(S), NEW i \in DOMAIN s
    PROVE  /\ RemoveAt(s, i) \in Seq(S)
           /\ DOMAIN RemoveAt(s, i) = 1..Len(s) - 1
           /\ DOMAIN s = 1..Len(s) /\ Len(s) \in Nat
           /\ \A j \in DOMAIN RemoveAt(s, i) :
                 RemoveAt(s, i)[j] = IF j < i THEN s[j] ELSE s[j + 1]
<1> DEFINE r == RemoveAt(s, i)
<1>1. i \in 1..Len(s)
  OBVIOUS
<1>2. /\ r \in Seq(S) /\ Len(r) = Len(s) - 1
      /\ \A j \in 1..Len(s) - 1 : r[j] = IF j < i THEN s[j] ELSE s[j + 1]
  BY <1>1, RemoveAtElements
<1> QED BY <1>2, LenProperties

\* What it keeps is what stood elsewhere.
LEMMA RemoveAtSource ==
    ASSUME NEW S, NEW s \in Seq(S), NEW i \in DOMAIN s, NEW j \in DOMAIN RemoveAt(s, i)
    PROVE  \E k \in DOMAIN s \ {i} : RemoveAt(s, i)[j] = s[k]
<1> DEFINE r == RemoveAt(s, i)
<1>1. /\ DOMAIN r = 1..Len(s) - 1 /\ DOMAIN s = 1..Len(s) /\ Len(s) \in Nat
      /\ \A k \in DOMAIN r : r[k] = IF k < i THEN s[k] ELSE s[k + 1]
  BY RemoveAtDomain
<1>2. j \in DOMAIN r
  OBVIOUS
<1> HIDE DEF r
<1>3. CASE j < i
  <2>1. j \in DOMAIN s \ {i} /\ r[j] = s[j]
    BY <1>1, <1>2, <1>3
  <2> QED BY <2>1 DEF r
<1>4. CASE ~(j < i)
  <2>1. j + 1 \in DOMAIN s \ {i} /\ r[j] = s[j + 1]
    BY <1>1, <1>2, <1>4
  <2> QED BY <2>1 DEF r
<1> QED BY <1>3, <1>4

\* What Append, Tail and RemoveAt do to a sequence in order.
LEMMA AppendIncreases ==
    ASSUME NEW s \in Seq(Event), NEW e \in Event, Increasing(s),
           \A i \in DOMAIN s : s[i].n < e.n
    PROVE  Increasing(Append(s, e))
BY AppendProperties DEF Increasing

LEMMA TailIncreases ==
    ASSUME NEW s \in Seq(Event), s # <<>>, Increasing(s)
    PROVE  /\ Increasing(Tail(s))
           /\ \A i \in DOMAIN Tail(s) : Head(s).n < Tail(s)[i].n
BY HeadTailProperties DEF Increasing

LEMMA AppendOrdered ==
    ASSUME NEW c, NEW s \in Seq(Event), NEW e \in Event, Ordered(c, s),
           \A i \in DOMAIN s : Before(c, s[i], e)
    PROVE  Ordered(c, Append(s, e))
BY AppendProperties DEF Ordered

LEMMA RemoveAtOrdered ==
    ASSUME NEW c, NEW s \in Seq(Event), NEW i \in DOMAIN s, Ordered(c, s)
    PROVE  Ordered(c, RemoveAt(s, i))
<1> DEFINE r == RemoveAt(s, i)
<1>1. /\ DOMAIN r = 1..Len(s) - 1 /\ DOMAIN s = 1..Len(s) /\ Len(s) \in Nat
      /\ \A j \in DOMAIN r : r[j] = IF j < i THEN s[j] ELSE s[j + 1]
  BY RemoveAtDomain
<1> HIDE DEF r
<1>2. ASSUME NEW j \in DOMAIN r, NEW k \in DOMAIN r, j < k
      PROVE  Before(c, r[j], r[k])
  <2>1. PICK jj \in DOMAIN s : r[j] = s[jj] /\ jj = IF j < i THEN j ELSE j + 1
    BY <1>1
  <2>2. PICK kk \in DOMAIN s : r[k] = s[kk] /\ kk = IF k < i THEN k ELSE k + 1
    BY <1>1
  <2>3. jj < kk
    BY <1>1, <1>2, <2>1, <2>2
  <2> QED BY <2>1, <2>2, <2>3 DEF Ordered
<1> QED BY <1>2 DEF Ordered, r

\* The arrivals in a sequence grow by Append and shrink by RemoveAt.
ArrivalsIn(s) == {Arrival(s[i]) : i \in DOMAIN s}

LEMMA AppendAdds ==
    ASSUME NEW s \in Seq(Event), NEW e \in Event
    PROVE  ArrivalsIn(Append(s, e)) = ArrivalsIn(s) \cup {Arrival(e)}
<1> DEFINE t == Append(s, e)
<1>1. /\ DOMAIN t = 1..Len(s) + 1 /\ DOMAIN s = 1..Len(s) /\ Len(s) \in Nat
      /\ t[Len(s) + 1] = e /\ \A i \in 1..Len(s) : t[i] = s[i]
  BY AppendProperties
<1> HIDE DEF t
<1>2. ArrivalsIn(t) \subseteq ArrivalsIn(s) \cup {Arrival(e)}
  BY <1>1 DEF ArrivalsIn
<1>3. ArrivalsIn(s) \subseteq ArrivalsIn(t)
  BY <1>1 DEF ArrivalsIn
<1>4. Arrival(e) \in ArrivalsIn(t)
  BY <1>1 DEF ArrivalsIn
<1> QED BY <1>2, <1>3, <1>4 DEF t

\* No two events of a list in order are the same arrival.
LEMMA OrderedDiffer ==
    ASSUME NEW c, NEW s \in Seq(Event), Ordered(c, s),
           NEW i \in DOMAIN s, NEW j \in DOMAIN s, i # j
    PROVE  Arrival(s[i]) # Arrival(s[j])
<1>1. s[i] \in Event /\ s[j] \in Event /\ i \in Nat /\ j \in Nat
  OBVIOUS
<1>2. s[i].n \in Nat /\ s[j].n \in Nat
  BY <1>1 DEF Event
<1>3. Before(c, s[i], s[j]) \/ Before(c, s[j], s[i])
  BY <1>1 DEF Ordered
<1>4. s[i].n # s[j].n \/ s[i].via # s[j].via
  BY <1>2, <1>3 DEF Before
<1>5. Arrival(s[i]).n = s[i].n /\ Arrival(s[i]).via = s[i].via
  BY DEF Arrival
<1>6. Arrival(s[j]).n = s[j].n /\ Arrival(s[j]).via = s[j].via
  BY DEF Arrival
<1> QED BY <1>4, <1>5, <1>6

LEMMA RemoveAtRemoves ==
    ASSUME NEW c, NEW s \in Seq(Event), NEW i \in DOMAIN s, Ordered(c, s)
    PROVE  ArrivalsIn(RemoveAt(s, i)) = ArrivalsIn(s) \ {Arrival(s[i])}
<1> DEFINE r == RemoveAt(s, i)
<1>1. /\ DOMAIN r = 1..Len(s) - 1 /\ DOMAIN s = 1..Len(s) /\ Len(s) \in Nat
      /\ \A j \in DOMAIN r : r[j] = IF j < i THEN s[j] ELSE s[j + 1]
  BY RemoveAtDomain
<1> HIDE DEF r
<1>2. \A j \in DOMAIN s : j # i => Arrival(s[j]) # Arrival(s[i])
  BY OrderedDiffer
<1>3. ASSUME NEW j \in DOMAIN r PROVE \E k \in DOMAIN s \ {i} : r[j] = s[k]
  BY RemoveAtSource DEF r
<1>4. ASSUME NEW k \in DOMAIN s \ {i} PROVE \E j \in DOMAIN r : r[j] = s[k]
  <2>1. CASE k < i
    BY <1>1, <2>1
  <2>2. CASE ~(k < i)
    <3>1. k - 1 \in DOMAIN r /\ ~(k - 1 < i) /\ k - 1 + 1 = k
      BY <1>1, <2>2
    <3> QED BY <1>1, <3>1
  <2> QED BY <2>1, <2>2
<1> HIDE DEF Arrival
<1> QED BY <1>2, <1>3, <1>4 DEF ArrivalsIn, r

-----------------------------------------------------------------------------
LEMMA NewEventHasType ==
    ASSUME ListsOK, NEW c \in Channels, NEW o \in Orders, NEW k \in Conns[c], made < MaxEvents
    PROVE  EventOf(c, o, k) \in Event
<1>1. made + 1 \in 1..MaxEvents
  BY OrderFeedAssumption DEF ListsOK
<1>2. FillIds[made + 1] \in Nat /\ o \in Nat /\ k \in Lines
  BY <1>1, OrderFeedAssumption DEF Lines
<1> QED BY <1>1, <1>2 DEF EventOf, Event

-----------------------------------------------------------------------------
(* What a step does to the connections of a channel, line by line.          *)

LEMMA HappensStep ==
    ASSUME ListsOK, NEW d \in Channels, NEW o \in Orders, Happens(d, o)
    PROVE  /\ wire' = [c \in Channels |-> wire'[c]]
           /\ \A c \in Channels : c # d => wire'[c] = wire[c]
           /\ \A c \in Channels : wire'[c] \in [Conns[c] -> Seq(Event)]
           /\ \A k \in Conns[d] :
                 IF state[d][k] \in {"open", "ghost"}
                 THEN EventOf(d, o, k) \in Event /\ wire'[d][k] = Append(wire[d][k], EventOf(d, o, k))
                 ELSE wire'[d][k] = wire[d][k]
<1> DEFINE w == [k \in Conns[d] |-> IF state[d][k] \in {"open", "ghost"}
                                    THEN Append(wire[d][k], EventOf(d, o, k)) ELSE wire[d][k]]
<1>1. wire' = [wire EXCEPT ![d] = w]
  BY DEF Happens
<1>2. \A k \in Conns[d] : EventOf(d, o, k) \in Event /\ wire[d][k] \in Seq(Event)
  BY NewEventHasType DEF ListsOK, Happens
<1> HIDE DEF EventOf
<1>3. w \in [Conns[d] -> Seq(Event)]
  <2>1. \A k \in Conns[d] : Append(wire[d][k], EventOf(d, o, k)) \in Seq(Event)
    BY <1>2, AppendProperties
  <2> QED BY <1>2, <2>1
<1>4. /\ wire' = [c \in Channels |-> wire'[c]] /\ wire'[d] = w
      /\ \A c \in Channels : c # d => wire'[c] = wire[c]
  <2> HIDE DEF w
  <2> QED BY <1>1 DEF ListsOK
<1>5. \A c \in Channels : wire'[c] \in [Conns[c] -> Seq(Event)]
  BY <1>3, <1>4 DEF ListsOK
<1> QED BY <1>2, <1>4, <1>5

\* The other steps set the lines of a channel one by one.
LEMMA WireStep ==
    ASSUME ListsOK, NEW d \in Channels, NEW k \in Conns[d], NEW q \in Seq(Event),
           wire' = [wire EXCEPT ![d][k] = q]
    PROVE  /\ wire' = [c \in Channels |-> wire'[c]]
           /\ \A c \in Channels : wire'[c] \in [Conns[c] -> Seq(Event)]
           /\ \A c \in Channels : \A l \in Conns[c] :
                 wire'[c][l] = IF c = d /\ l = k THEN q ELSE wire[c][l]
BY DEF ListsOK

LEMMA StateStep ==
    ASSUME ListsOK, NEW d \in Channels, NEW k \in Conns[d], NEW s \in States,
           state' = [state EXCEPT ![d][k] = s]
    PROVE  /\ state' = [c \in Channels |-> state'[c]]
           /\ \A c \in Channels : state'[c] \in [Conns[c] -> States]
           /\ \A c \in Channels : \A l \in Conns[c] :
                 state'[c][l] = IF c = d /\ l = k THEN s ELSE state[c][l]
BY DEF ListsOK

\* What becomes of a connection that force replaces.
FromOld(c, k) ==
    \/ state'[c][k] = "closing"
    \/ state[c][k] = "connecting" /\ state'[c][k] = "abandoned" /\ c \in haunted'

LEMMA SubscribeStep ==
    ASSUME ListsOK, NEW d \in Channels, NEW force \in BOOLEAN, Subscribe(d, force)
    PROVE  /\ state' = [c \in Channels |-> state'[c]]
           /\ \A c \in Channels : state'[c] \in [Conns[c] -> States]
           /\ haunted \subseteq haunted'
           /\ \A c \in Channels : c # d => state'[c] = state[c] /\ (c \in haunted' => c \in haunted)
           /\ \E new \in Conns[d] :
                 /\ state[d][new] = "free" /\ state'[d][new] = "connecting"
                 /\ \/ /\ Up(d) = {}
                       /\ \A l \in Conns[d] \ {new} : state'[d][l] = state[d][l]
                    \/ \E old \in Up(d) :
                         /\ old # new
                         /\ FromOld(d, old)
                         /\ \A l \in Conns[d] \ {new, old} : state'[d][l] = state[d][l]
<1>1. PICK new \in Conns[d] :
        /\ state[d][new] = "free"
        /\ \/ /\ Up(d) = {}
              /\ state' = [state EXCEPT ![d][new] = "connecting"]
              /\ UNCHANGED haunted
           \/ \E old \in Up(d) : \E s \in Stopped(state[d][old]) :
              /\ force
              /\ state' = [state EXCEPT ![d][old] = s, ![d][new] = "connecting"]
              /\ haunted' = IF s = "abandoned" THEN haunted \cup {d} ELSE haunted
  BY DEF Subscribe
<1>2. ASSUME state' = [state EXCEPT ![d][new] = "connecting"]
      PROVE  /\ state' = [c \in Channels |-> state'[c]]
             /\ \A c \in Channels : state'[c] \in [Conns[c] -> States]
             /\ \A c \in Channels : \A l \in Conns[c] :
                   state'[c][l] = IF c = d /\ l = new THEN "connecting" ELSE state[c][l]
  <2>1. "connecting" \in States
    BY DEF States
  <2> QED BY <1>2, <2>1, StateStep
<1>3. ASSUME NEW old \in Up(d), NEW s \in Stopped(state[d][old]),
             state' = [state EXCEPT ![d][old] = s, ![d][new] = "connecting"],
             haunted' = IF s = "abandoned" THEN haunted \cup {d} ELSE haunted
      PROVE  /\ state' = [c \in Channels |-> state'[c]]
             /\ \A c \in Channels : state'[c] \in [Conns[c] -> States]
             /\ \A c \in Channels : c # d => state'[c] = state[c]
             /\ old # new /\ state'[d][new] = "connecting"
             /\ FromOld(d, old)
             /\ \A l \in Conns[d] \ {new, old} : state'[d][l] = state[d][l]
  <2>1. /\ old \in Conns[d] /\ old # new
        /\ state[d][old] \in {"connecting", "open"}
    BY <1>1, <1>3 DEF Up
  <2>2. /\ s \in {"closing", "abandoned"} /\ s \in States
        /\ s = "abandoned" => state[d][old] = "connecting"
    BY <1>3, <2>1 DEF Stopped, States
  <2> QED BY <1>1, <1>3, <2>1, <2>2 DEF ListsOK, States, FromOld
<1>4. CASE Up(d) = {} /\ state' = [state EXCEPT ![d][new] = "connecting"] /\ UNCHANGED haunted
  <2>1. \A c \in Channels : c # d => state'[c] = state[c]
    BY <1>4 DEF ListsOK
  <2> QED BY <1>1, <1>2, <1>4, <2>1
<1>5. ASSUME NEW old \in Up(d), NEW s \in Stopped(state[d][old]),
             state' = [state EXCEPT ![d][old] = s, ![d][new] = "connecting"],
             haunted' = IF s = "abandoned" THEN haunted \cup {d} ELSE haunted
      PROVE  /\ haunted \subseteq haunted'
             /\ \A c \in Channels : c # d /\ c \in haunted' => c \in haunted
  BY <1>5
<1>6. CASE \E old \in Up(d) : \E s \in Stopped(state[d][old]) :
              /\ state' = [state EXCEPT ![d][old] = s, ![d][new] = "connecting"]
              /\ haunted' = IF s = "abandoned" THEN haunted \cup {d} ELSE haunted
  <2> PICK old \in Up(d) : \E s \in Stopped(state[d][old]) :
              /\ state' = [state EXCEPT ![d][old] = s, ![d][new] = "connecting"]
              /\ haunted' = IF s = "abandoned" THEN haunted \cup {d} ELSE haunted
    BY <1>6
  <2>1. PICK s \in Stopped(state[d][old]) :
              /\ state' = [state EXCEPT ![d][old] = s, ![d][new] = "connecting"]
              /\ haunted' = IF s = "abandoned" THEN haunted \cup {d} ELSE haunted
    OBVIOUS
  <2>2. /\ haunted \subseteq haunted'
        /\ \A c \in Channels : c # d /\ c \in haunted' => c \in haunted
    BY <1>5, <2>1
  <2>3. /\ state' = [c \in Channels |-> state'[c]]
        /\ \A c \in Channels : state'[c] \in [Conns[c] -> States]
        /\ \A c \in Channels : c # d => state'[c] = state[c]
        /\ old # new /\ state'[d][new] = "connecting"
        /\ FromOld(d, old)
        /\ \A l \in Conns[d] \ {new, old} : state'[d][l] = state[d][l]
    BY <1>3, <2>1
  <2>4. state[d][new] = "free"
    BY <1>1
  <2>5. \E o \in Up(d) :
            /\ o # new
            /\ FromOld(d, o)
            /\ \A l \in Conns[d] \ {new, o} : state'[d][l] = state[d][l]
    BY <2>3
  <2> QED BY <2>2, <2>3, <2>4, <2>5
<1> QED BY <1>1, <1>4, <1>6

LEMMA OpensStep ==
    ASSUME ListsOK, NEW d \in Channels, NEW k \in Conns[d], Opens(d, k)
    PROVE  /\ state' = [c \in Channels |-> state'[c]]
           /\ \A c \in Channels : state'[c] \in [Conns[c] -> States]
           /\ \A c \in Channels : \A l \in Conns[c] : c # d \/ l # k => state'[c][l] = state[c][l]
           /\ \/ /\ state[d][k] = "connecting" /\ state'[d][k] = "open"
                 /\ \A l \in Conns[d] : state[d][l] = "closing" => wire[d][l] = <<>>
              \/ state[d][k] = "abandoned" /\ state'[d][k] = "ghost"
<1>1. ASSUME NEW s \in {"open", "ghost"}, state' = [state EXCEPT ![d][k] = s]
      PROVE  /\ state' = [c \in Channels |-> state'[c]]
             /\ \A c \in Channels : state'[c] \in [Conns[c] -> States]
             /\ \A c \in Channels : \A l \in Conns[c] :
                   state'[c][l] = IF c = d /\ l = k THEN s ELSE state[c][l]
  <2>1. s \in States
    BY DEF States
  <2> QED BY <1>1, <2>1, StateStep
<1>2. CASE /\ state[d][k] = "connecting" /\ state' = [state EXCEPT ![d][k] = "open"]
           /\ \A l \in Conns[d] : state[d][l] = "closing" => wire[d][l] = <<>>
  BY <1>1, <1>2
<1>3. CASE state[d][k] = "abandoned" /\ state' = [state EXCEPT ![d][k] = "ghost"]
  BY <1>1, <1>3
<1> QED BY <1>2, <1>3 DEF Opens

LEMMA DropStep ==
    ASSUME ListsOK, NEW d \in Channels, NEW k \in Conns[d], Drop(d, k)
    PROVE  /\ state' = [c \in Channels |-> state'[c]] /\ wire' = [c \in Channels |-> wire'[c]]
           /\ \A c \in Channels : state'[c] \in [Conns[c] -> States]
           /\ \A c \in Channels : wire'[c] \in [Conns[c] -> Seq(Event)]
           /\ \A c \in Channels : \A l \in Conns[c] :
                 /\ state'[c][l] = IF c = d /\ l = k THEN "free" ELSE state[c][l]
                 /\ wire'[c][l] = IF c = d /\ l = k THEN <<>> ELSE wire[c][l]
<1>1. <<>> \in Seq(Event) /\ "free" \in States
  BY DEF States
<1>2. state' = [state EXCEPT ![d][k] = "free"] /\ wire' = [wire EXCEPT ![d][k] = <<>>]
  BY DEF Drop
<1>3. /\ state' = [c \in Channels |-> state'[c]]
      /\ \A c \in Channels : state'[c] \in [Conns[c] -> States]
      /\ \A c \in Channels : \A l \in Conns[c] :
            state'[c][l] = IF c = d /\ l = k THEN "free" ELSE state[c][l]
  BY <1>1, <1>2, StateStep
<1>4. /\ wire' = [c \in Channels |-> wire'[c]]
      /\ \A c \in Channels : wire'[c] \in [Conns[c] -> Seq(Event)]
      /\ \A c \in Channels : \A l \in Conns[c] :
            wire'[c][l] = IF c = d /\ l = k THEN <<>> ELSE wire[c][l]
  BY <1>1, <1>2, WireStep
<1> QED BY <1>3, <1>4

LEMMA CallbackStep ==
    ASSUME ListsOK, NEW d \in Channels, NEW k \in Conns[d], Callback(d, k)
    PROVE  /\ wire[d][k] \in Seq(Event) /\ wire[d][k] # <<>>
           /\ Head(wire[d][k]) \in Event /\ Tail(wire[d][k]) \in Seq(Event)
           /\ wire' = [c \in Channels |-> wire'[c]]
           /\ \A c \in Channels : wire'[c] \in [Conns[c] -> Seq(Event)]
           /\ \A c \in Channels : \A l \in Conns[c] :
                 wire'[c][l] = IF c = d /\ l = k THEN Tail(wire[d][k]) ELSE wire[c][l]
<1>1. wire[d][k] \in Seq(Event) /\ wire[d][k] # <<>>
  BY DEF ListsOK, Callback
<1>2. Head(wire[d][k]) \in Event /\ Tail(wire[d][k]) \in Seq(Event)
  BY <1>1, HeadTailProperties
<1>3. wire' = [wire EXCEPT ![d][k] = Tail(wire[d][k])]
  BY DEF Callback
<1> QED BY <1>1, <1>2, <1>3, WireStep

LEMMA ListsHold == Spec => []ListsOK
<1>1. Init => ListsOK
  BY DEF Init, ListsOK, States, Idle
<1>2. ListsOK /\ [Next]_vars => ListsOK'
  <2> SUFFICES ASSUME ListsOK, [Next]_vars PROVE ListsOK'
    OBVIOUS
  <2> USE DEF conns, lists, reader
  <2>1. ASSUME NEW c \in Channels, NEW o \in Orders, Happens(c, o) PROVE ListsOK'
    <3>1. /\ wire' = [d \in Channels |-> wire'[d]]
          /\ \A d \in Channels : wire'[d] \in [Conns[d] -> Seq(Event)]
      BY <2>1, HappensStep
    <3> QED BY <2>1, <3>1 DEF ListsOK, Happens
  <2>2. ASSUME NEW c \in Channels, NEW o \in Orders, Read(c, o) PROVE ListsOK'
    BY <2>2 DEF ListsOK, Read
  <2>3. ASSUME NEW c \in Channels, NEW force \in BOOLEAN, Subscribe(c, force) PROVE ListsOK'
    <3>1. /\ state' = [d \in Channels |-> state'[d]]
          /\ \A d \in Channels : state'[d] \in [Conns[d] -> States]
      BY <2>3, SubscribeStep
    <3> QED BY <2>3, <3>1 DEF ListsOK, Subscribe
  <2>4. ASSUME NEW c \in Channels, NEW k \in Conns[c], Opens(c, k) PROVE ListsOK'
    <3>1. /\ state' = [d \in Channels |-> state'[d]]
          /\ \A d \in Channels : state'[d] \in [Conns[d] -> States]
      BY <2>4, OpensStep
    <3> QED BY <2>4, <3>1 DEF ListsOK, Opens
  <2>5. ASSUME NEW c \in Channels, NEW k \in Conns[c], Drop(c, k) PROVE ListsOK'
    <3>1. /\ state' = [d \in Channels |-> state'[d]] /\ wire' = [d \in Channels |-> wire'[d]]
          /\ \A d \in Channels : state'[d] \in [Conns[d] -> States]
          /\ \A d \in Channels : wire'[d] \in [Conns[d] -> Seq(Event)]
      BY <2>5, DropStep
    <3> QED BY <2>5, <3>1 DEF ListsOK, Drop
  <2>6. ASSUME NEW c \in Channels, NEW k \in Conns[c], Callback(c, k) PROVE ListsOK'
    <3> DEFINE e == Head(wire[c][k])
    <3>1. /\ e \in Event /\ wire' = [d \in Channels |-> wire'[d]]
          /\ \A d \in Channels : wire'[d] \in [Conns[d] -> Seq(Event)]
      BY <2>6, CallbackStep
    <3>2. Arrival(e) \in [via : Lines, n : Nat]
      BY <3>1 DEF Arrival, Event
    <3>3. Append(data[c], e) \in Seq(Event)
      BY <3>1, AppendProperties DEF ListsOK
    <3>4. /\ data' = [data EXCEPT ![c] = Append(@, e)]
          /\ received' = [received EXCEPT ![c] = @ \cup {Arrival(e)}]
          /\ UNCHANGED <<made, state, call, taken>>
      BY <2>6 DEF Callback
    <3> HIDE DEF e
    <3>5. data' \in [Channels -> Seq(Event)]
      BY <3>3, <3>4 DEF ListsOK
    <3>6. received' \in [Channels -> SUBSET [via : Lines, n : Nat]]
      BY <3>2, <3>4 DEF ListsOK
    <3> QED BY <3>1, <3>4, <3>5, <3>6 DEF ListsOK
  <2>7. ASSUME NEW c \in Channels, NEW k \in Conns[c], CallbackWaits(c, k) PROVE ListsOK'
    BY <2>7 DEF ListsOK, CallbackWaits
  <2>8. CASE LookThrows
    BY <2>8 DEF ListsOK, LookThrows, Idle
  <2>9. CASE LookFinds
    <3>1. PICK i \in Hits(call.of, call.order) :
              /\ taken' = [taken EXCEPT ![call.of] =
                             Append(@, [order |-> call.order, event |-> data[call.of][i]])]
              /\ data' = [data EXCEPT ![call.of] = RemoveAt(@, i)]
      BY <2>9 DEF LookFinds
    <3>2. /\ call.of \in Channels /\ call.order \in Orders
          /\ data[call.of] \in Seq(Event) /\ i \in 1..Len(data[call.of])
      BY <2>9, <3>1 DEF ListsOK, LookFinds, Hits
    <3>3. RemoveAt(data[call.of], i) \in Seq(Event) /\ data[call.of][i] \in Event
      BY <3>2, RemoveAtElements, ElementOfSeq
    <3>4. [order |-> call.order, event |-> data[call.of][i]] \in Reply
      BY <3>2, <3>3 DEF Reply
    <3>5. data' \in [Channels -> Seq(Event)]
      BY <3>1, <3>2, <3>3 DEF ListsOK
    <3>6. taken' \in [Channels -> Seq(Reply)]
      BY <3>1, <3>2, <3>4 DEF ListsOK
    <3> QED BY <2>9, <3>5, <3>6 DEF ListsOK, LookFinds, Idle
  <2>10. CASE LookMisses
    <3>1. CASE call' = [call EXCEPT !.tries = @ + 1]
      <4>1. call.tries + 1 \in Nat
        BY DEF ListsOK
      <4>2. /\ call' \in [of : Channels \cup {"none"}, order : Orders \cup {0}, tries : Nat]
            /\ call'.of = call.of /\ call'.order = call.order
        BY <3>1, <4>1 DEF ListsOK
      <4> QED BY <2>10, <4>2 DEF ListsOK, LookMisses
    <3>2. CASE call' = Idle
      BY <2>10, <3>2 DEF ListsOK, LookMisses, Idle
    <3> QED BY <2>10, <3>1, <3>2 DEF LookMisses
  <2>11. CASE UNCHANGED vars
    BY <2>11 DEF ListsOK, vars
  <2> QED BY <2>1, <2>2, <2>3, <2>4, <2>5, <2>6, <2>7, <2>8, <2>9, <2>10, <2>11 DEF Next
<1> QED BY <1>1, <1>2, PTL DEF Spec

-----------------------------------------------------------------------------
\* The connections of a channel: whatever the calls and the exchange do, one that
\* was not stopped at most; and before one is stopped in vain, one that talks.
LEMMA ConnectionsHold == Spec => [](\A c \in Channels : ConnInv(c))
<1> DEFINE I == \A c \in Channels : ConnInv(c)
<1>1. Init => I
  BY DEF Init, ConnInv, Up, Talks
<1>2. ListsOK /\ I /\ [Next]_vars => I'
  <2> SUFFICES ASSUME ListsOK, I, [Next]_vars, NEW c \in Channels PROVE ConnInv(c)'
    OBVIOUS
  <2>0. ConnInv(c)
    OBVIOUS
  <2> HIDE DEF I
  <2>1. ASSUME wire'[c] = wire[c], state'[c] = state[c], c \in haunted' => c \in haunted,
               haunted \subseteq haunted'
        PROVE  ConnInv(c)'
    BY <2>0, <2>1 DEF ConnInv, Up, Talks
  <2>2. ASSUME NEW d \in Channels, NEW o \in Orders, Happens(d, o) PROVE ConnInv(c)'
    <3>1. UNCHANGED <<state, haunted>>
      BY <2>2 DEF Happens, conns
    <3>2. CASE c # d
      BY <2>1, <2>2, <3>1, <3>2, HappensStep
    <3>3. CASE c = d
      <4>1. \A k \in Conns[c] :
               state[c][k] \notin {"open", "ghost"} => wire'[c][k] = wire[c][k]
        BY <2>2, <3>3, HappensStep
      <4>2. c \notin haunted => \A k \in Conns[c] : Talks(c, k)' => Talks(c, k)
        BY <2>0, <3>1, <4>1 DEF ConnInv, Talks
      <4> QED BY <2>0, <3>1, <4>1, <4>2 DEF ConnInv, Up
    <3> QED BY <3>2, <3>3
  <2>3. ASSUME NEW d \in Channels, NEW force \in BOOLEAN, Subscribe(d, force) PROVE ConnInv(c)'
    <3>1. wire' = wire
      BY <2>3 DEF Subscribe
    <3>2. CASE c # d
      BY <2>1, <2>3, <3>1, <3>2, SubscribeStep
    <3>3. CASE c = d
      <4>1. PICK new \in Conns[c] :
               /\ state[c][new] = "free" /\ state'[c][new] = "connecting"
               /\ \/ /\ Up(c) = {}
                     /\ \A l \in Conns[c] \ {new} : state'[c][l] = state[c][l]
                  \/ \E old \in Up(c) :
                       /\ old # new
                       /\ FromOld(c, old)
                       /\ \A l \in Conns[c] \ {new, old} : state'[c][l] = state[c][l]
        BY <2>3, <3>3, SubscribeStep
      <4>2. haunted \subseteq haunted'
        BY <2>3, SubscribeStep
      <4>3. CASE Up(c) = {} /\ \A l \in Conns[c] \ {new} : state'[c][l] = state[c][l]
        BY <2>0, <3>1, <4>1, <4>2, <4>3 DEF ConnInv, Up, Talks
      <4>4. ASSUME NEW old \in Up(c), old # new,
                   FromOld(c, old),
                   \A l \in Conns[c] \ {new, old} : state'[c][l] = state[c][l]
            PROVE  ConnInv(c)'
        <5>1. old \in Conns[c] /\ state[c][old] \in {"connecting", "open"}
          BY DEF Up
        <5>2. \A k \in Up(c) : k = old
          BY <2>0 DEF ConnInv
        <5>3. \A k \in Up(c)' : k = new
          BY <4>4, <5>1, <5>2 DEF Up, FromOld
        <5>4. \A k \in Conns[c] :
                 state'[c][k] \in {"free", "connecting", "abandoned"} => wire'[c][k] = <<>>
          <6>1. wire[c][new] = <<>> /\ (state[c][old] = "connecting" => wire[c][old] = <<>>)
            BY <2>0, <4>1, <5>1 DEF ConnInv
          <6> QED BY <2>0, <3>1, <4>1, <4>4, <5>1, <6>1 DEF ConnInv, FromOld
        <5>5. ASSUME c \notin haunted'
              PROVE  /\ \A k \in Conns[c] : state'[c][k] \notin {"abandoned", "ghost"}
                     /\ \A k, l \in Conns[c] : Talks(c, k)' /\ Talks(c, l)' => k = l
          <6>1. c \notin haunted
            BY <4>2, <5>5
          <6>2. /\ \A k \in Conns[c] : state[c][k] \notin {"abandoned", "ghost"}
                /\ \A k, l \in Conns[c] : Talks(c, k) /\ Talks(c, l) => k = l
            BY <2>0, <6>1 DEF ConnInv
          <6>3. \A k \in Conns[c] : Talks(c, k)' => Talks(c, k)
            BY <3>1, <4>1, <4>4, <5>5 DEF Talks, FromOld
          <6> QED BY <4>1, <4>4, <5>5, <6>2, <6>3 DEF FromOld
        <5> QED BY <5>3, <5>4, <5>5 DEF ConnInv
      <4> QED BY <4>1, <4>3, <4>4
    <3> QED BY <3>2, <3>3
  <2>4. ASSUME NEW d \in Channels, NEW k \in Conns[d], Opens(d, k) PROVE ConnInv(c)'
    <3>1. UNCHANGED <<wire, haunted>>
      BY <2>4 DEF Opens
    <3>2. CASE c # d
      <4>1. state'[c] = state[c]
        BY <2>4, <3>2 DEF Opens, ListsOK
      <4> QED BY <2>1, <3>1, <4>1
    <3>3. CASE c = d
      <4>1. /\ \A l \in Conns[c] \ {k} : state'[c][l] = state[c][l]
            /\ \/ /\ state[c][k] = "connecting" /\ state'[c][k] = "open"
                  /\ \A l \in Conns[c] : state[c][l] = "closing" => wire[c][l] = <<>>
               \/ state[c][k] = "abandoned" /\ state'[c][k] = "ghost"
        BY <2>4, <3>3, OpensStep
      <4>2. k \in Conns[c]
        BY <3>3
      <4>3. CASE state[c][k] = "abandoned" /\ state'[c][k] = "ghost"
        BY <2>0, <3>1, <4>1, <4>2, <4>3 DEF ConnInv, Up
      <4>4. CASE /\ state[c][k] = "connecting" /\ state'[c][k] = "open"
                 /\ \A l \in Conns[c] : state[c][l] = "closing" => wire[c][l] = <<>>
        <5>1. Up(c)' = Up(c)
          BY <4>1, <4>2, <4>4 DEF Up
        <5>2. ASSUME c \notin haunted, NEW l \in Conns[c], Talks(c, l)' PROVE l = k
          <6>1. state[c][l] \in States
            BY DEF ListsOK
          <6> QED BY <2>0, <3>1, <4>1, <4>2, <4>4, <5>2, <6>1 DEF ConnInv, Up, Talks, States
        <5> QED BY <2>0, <3>1, <4>1, <4>2, <4>4, <5>1, <5>2 DEF ConnInv
      <4> QED BY <4>1, <4>3, <4>4
    <3> QED BY <3>2, <3>3
  <2>5. ASSUME NEW d \in Channels, NEW k \in Conns[d], Drop(d, k) PROVE ConnInv(c)'
    <3>1. \A l \in Conns[c] :
             /\ state'[c][l] = IF c = d /\ l = k THEN "free" ELSE state[c][l]
             /\ wire'[c][l] = IF c = d /\ l = k THEN <<>> ELSE wire[c][l]
      BY <2>5, DropStep
    <3>2. haunted' = haunted
      BY <2>5 DEF Drop
    <3> QED BY <2>0, <3>1, <3>2 DEF ConnInv, Up, Talks
  <2>6. ASSUME NEW d \in Channels, NEW k \in Conns[d], Callback(d, k) PROVE ConnInv(c)'
    <3>1. /\ \A l \in Conns[c] : wire'[c][l] = wire[c][l] \/ wire[c][l] # <<>>
      BY <2>6, CallbackStep
    <3>2. UNCHANGED <<state, haunted>>
      BY <2>6 DEF Callback, conns
    <3> QED BY <2>0, <3>1, <3>2 DEF ConnInv, Up, Talks
  <2>7. CASE UNCHANGED <<wire, state, haunted>>
    BY <2>1, <2>7
  <2> QED
    BY <2>2, <2>3, <2>4, <2>5, <2>6, <2>7
       DEF Next, vars, conns, Read, CallbackWaits, LookThrows, LookFinds, LookMisses
<1> QED BY <1>1, <1>2, ListsHold, PTL DEF Spec

-----------------------------------------------------------------------------
(* What a step does to one channel: nothing but lose what is on its way, or  *)
(* put an event on its way, store one, or take one out.                     *)

Rests(c) ==
    /\ UNCHANGED <<data[c], received[c], taken[c]>>
    /\ \A k \in Conns[c] : wire'[c][k] \in {wire[c][k], <<>>}
    /\ made' \in {made, made + 1}
    /\ haunted \subseteq haunted'

SentOver(c, k, e) == e.via = k /\ e.n = made + 1 /\ (c = "orders" => e.id = e.order)

Sends(c) ==
    /\ UNCHANGED <<data[c], received[c], taken[c], haunted>>
    /\ made' = made + 1
    /\ \A k \in Conns[c] :
          \/ wire'[c][k] = wire[c][k]
          \/ \E e \in Event : SentOver(c, k, e) /\ wire'[c][k] = Append(wire[c][k], e)

Stores(c, k) ==
    /\ wire[c][k] # <<>>
    /\ data'[c] = Append(data[c], Head(wire[c][k]))
    /\ received'[c] = received[c] \cup {Arrival(Head(wire[c][k]))}
    /\ \A l \in Conns[c] : wire'[c][l] = IF l = k THEN Tail(wire[c][k]) ELSE wire[c][l]
    /\ UNCHANGED <<made, taken[c], haunted>>

TakesAt(c, i) ==
    /\ call.order \in Orders
    /\ Matches(data[c][i], call.order)
    /\ \A k \in DOMAIN data[c] : Matches(data[c][k], call.order) => i <= k
    /\ taken'[c] = Append(taken[c], [order |-> call.order, event |-> data[c][i]])
    /\ data'[c] = RemoveAt(data[c], i)
    /\ UNCHANGED <<made, wire[c], received[c], haunted>>

LEMMA StepOfChannel ==
    ASSUME ListsOK, [Next]_vars, NEW c \in Channels
    PROVE  \/ Rests(c) \/ Sends(c)
           \/ \E k \in Conns[c] : Stores(c, k)
           \/ \E i \in DOMAIN data[c] : TakesAt(c, i)
<1> USE DEF conns, lists, reader
<1>1. ASSUME NEW d \in Channels, NEW o \in Orders, Happens(d, o)
      PROVE  Rests(c) \/ Sends(c)
  <2>1. CASE c = d
    <3>1. ASSUME NEW k \in Conns[c], wire'[c][k] # wire[c][k]
          PROVE  \E e \in Event : SentOver(c, k, e) /\ wire'[c][k] = Append(wire[c][k], e)
      <4> DEFINE e == EventOf(c, o, k)
      <4>1. e \in Event /\ wire'[c][k] = Append(wire[c][k], e)
        BY <1>1, <2>1, <3>1, HappensStep
      <4>2. SentOver(c, k, e)
        BY DEF SentOver, EventOf
      <4> QED BY <4>1, <4>2
    <3> QED BY <1>1, <3>1 DEF Happens, Sends
  <2>2. CASE c # d
    <3>1. wire'[c] = wire[c]
      BY <1>1, <2>2, HappensStep
    <3> QED BY <1>1, <3>1 DEF Happens, Rests
  <2> QED BY <2>1, <2>2
<1>2. ASSUME NEW d \in Channels, NEW k \in Conns[d], Drop(d, k)
      PROVE  Rests(c)
  <2>1. \A l \in Conns[c] : wire'[c][l] \in {wire[c][l], <<>>}
    BY <1>2, DropStep
  <2> QED BY <1>2, <2>1 DEF Drop, Rests
<1>3. ASSUME NEW d \in Channels, NEW k \in Conns[d], Callback(d, k)
      PROVE  Rests(c) \/ \E l \in Conns[c] : Stores(c, l)
  <2>1. /\ wire[d][k] # <<>>
        /\ \A l \in Conns[c] : wire'[c][l] = IF c = d /\ l = k THEN Tail(wire[d][k]) ELSE wire[c][l]
    BY <1>3, CallbackStep
  <2>2. CASE c = d
    <3>1. /\ data'[c] = Append(data[c], Head(wire[c][k]))
          /\ received'[c] = received[c] \cup {Arrival(Head(wire[c][k]))}
          /\ UNCHANGED <<made, taken, haunted>>
      BY <1>3, <2>2 DEF Callback, ListsOK
    <3>2. Stores(c, k)
      BY <2>1, <2>2, <3>1 DEF Stores
    <3> QED BY <2>2, <3>2
  <2>3. CASE c # d
    <3>1. UNCHANGED <<data[c], received[c], taken, made, haunted>>
      BY <1>3, <2>3 DEF Callback, ListsOK
    <3> QED BY <2>1, <2>3, <3>1 DEF Rests
  <2> QED BY <2>2, <2>3
<1>4. ASSUME NEW d \in Channels, NEW force \in BOOLEAN, Subscribe(d, force)
      PROVE  Rests(c)
  <2>1. haunted \subseteq haunted'
    BY <1>4, SubscribeStep
  <2> QED BY <1>4, <2>1 DEF Subscribe, Rests
<1>5. CASE LookFinds
  <2>1. PICK i \in Hits(call.of, call.order) :
           /\ \A k \in Hits(call.of, call.order) : i <= k
           /\ taken' = [taken EXCEPT ![call.of] =
                           Append(@, [order |-> call.order, event |-> data[call.of][i]])]
           /\ data' = [data EXCEPT ![call.of] = RemoveAt(@, i)]
    BY <1>5 DEF LookFinds
  <2>2. UNCHANGED <<made, wire, haunted, received>> /\ call.of \in Channels /\ call.order \in Orders
    BY <1>5 DEF LookFinds, ListsOK
  <2>3. CASE c = call.of
    <3>1. i \in DOMAIN data[c] /\ TakesAt(c, i)
      BY <2>1, <2>2, <2>3 DEF Hits, TakesAt, ListsOK
    <3> QED BY <3>1
  <2>4. CASE c # call.of
    <3>1. data'[c] = data[c] /\ taken'[c] = taken[c]
      BY <2>1, <2>2, <2>4 DEF ListsOK
    <3> QED BY <2>2, <3>1 DEF Rests
  <2> QED BY <2>3, <2>4
<1>6. CASE UNCHANGED <<made, wire, haunted, data, received, taken>>
  BY <1>6 DEF Rests
<1> QED
  BY <1>1, <1>2, <1>3, <1>4, <1>5, <1>6
     DEF Next, vars, Read, Opens, CallbackWaits, LookThrows, LookMisses

-----------------------------------------------------------------------------
\* One channel's part of NothingIsLost.
KeptInv(c) ==
    /\ Waiting(c) \cup Returned(c) = received[c]
    /\ Waiting(c) \cap Returned(c) = {}

LEMMA EventsHaveTypes ==
    ASSUME ListsOK, NEW c \in Channels
    PROVE  /\ data[c] \in Seq(Event) /\ \A i \in DOMAIN data[c] : data[c][i] \in Event
           /\ \A k \in Conns[c] :
                 wire[c][k] \in Seq(Event) /\ \A i \in DOMAIN wire[c][k] : wire[c][k][i] \in Event
           /\ taken[c] \in Seq(Reply) /\ \A i \in DOMAIN taken[c] : taken[c][i] \in Reply
           /\ received[c] \subseteq [via : Lines, n : Nat]
<1>1. /\ data[c] \in Seq(Event) /\ taken[c] \in Seq(Reply)
      /\ received[c] \subseteq [via : Lines, n : Nat]
      /\ \A k \in Conns[c] : wire[c][k] \in Seq(Event)
  BY DEF ListsOK
<1>2. /\ \A i \in DOMAIN data[c] : data[c][i] \in Event
      /\ \A k \in Conns[c] : \A i \in DOMAIN wire[c][k] : wire[c][k][i] \in Event
      /\ \A i \in DOMAIN taken[c] : taken[c][i] \in Reply
  BY <1>1
<1> QED BY <1>1, <1>2

\* Storing an event: all that was received came before it, and what is still on
\* its way comes after.
LEMMA StoresKeeps ==
    ASSUME ListsOK, NEW c \in Channels, ConnInv(c), SerialInv(c), KeptInv(c),
           NEW k \in Conns[c], Stores(c, k)
    PROVE  SerialInv(c)' /\ KeptInv(c)'
<1> DEFINE q == wire[c][k]
           e == Head(q)
<1>1. /\ q \in Seq(Event) /\ q # <<>> /\ Increasing(q)
      /\ \A m \in DOMAIN q : /\ q[m].via = k /\ q[m].n <= made
                             /\ \A a \in received[c] : Before(c, a, q[m])
  BY EventsHaveTypes DEF Stores, SerialInv, WireInv
<1>2. /\ e \in Event /\ e = q[1] /\ 1 \in DOMAIN q
      /\ \A m \in DOMAIN Tail(q) : m + 1 \in DOMAIN q /\ Tail(q)[m] = q[m + 1]
  BY <1>1, HeadTailProperties
<1>3. Increasing(Tail(q)) /\ \A m \in DOMAIN Tail(q) : e.n < Tail(q)[m].n
  BY <1>1, TailIncreases
<1>4. /\ data'[c] = Append(data[c], e) /\ received'[c] = received[c] \cup {Arrival(e)}
      /\ \A l \in Conns[c] : wire'[c][l] = IF l = k THEN Tail(q) ELSE wire[c][l]
      /\ made' = made /\ taken'[c] = taken[c] /\ haunted' = haunted
  BY DEF Stores
<1>5. /\ e.via = k /\ e.n <= made /\ e.n \in Nat
      /\ \A a \in received[c] : Before(c, a, e)
  BY <1>1, <1>2 DEF Event
<1> HIDE DEF q, e
<1>6. Arrival(e).n = e.n /\ Arrival(e).via = e.via
  BY DEF Arrival
<1>7. \A i \in DOMAIN data[c] : Before(c, data[c][i], e)
  <2> TAKE i \in DOMAIN data[c]
  <2>1. Arrival(data[c][i]) \in received[c]
    BY DEF KeptInv, Waiting
  <2> QED BY <1>5, <2>1 DEF Before, Arrival
<1>8. Ordered(c, data[c])'
  <2>1. Ordered(c, Append(data[c], e))
    BY <1>2, <1>7, EventsHaveTypes, AppendOrdered DEF SerialInv
  <2> QED BY <1>4, <2>1 DEF Ordered, Before
<1>9. WireInv(c, k)'
  <2>1. \A m \in DOMAIN Tail(q) : /\ Tail(q)[m].via = k /\ Tail(q)[m].n <= made
                                  /\ \A a \in received[c] : Before(c, a, Tail(q)[m])
                                  /\ Before(c, Arrival(e), Tail(q)[m])
    BY <1>1, <1>2, <1>3, <1>6 DEF Before
  <2> QED BY <1>3, <1>4, <2>1 DEF WireInv, Increasing, Before
<1>10. ASSUME NEW l \in Conns[c], l # k PROVE WireInv(c, l)'
  <2>1. WireInv(c, l) /\ wire'[c][l] = wire[c][l]
    BY <1>4, <1>10 DEF SerialInv
  <2>2. ASSUME NEW m \in DOMAIN wire[c][l] PROVE Before(c, Arrival(e), wire[c][l][m])
    <3>1. CASE c \in haunted
      BY <1>5, <1>6, <1>10, <2>1, <3>1 DEF WireInv, Before
    <3>2. CASE c \notin haunted
      <4>1. wire[c][l] # <<>>
        BY <2>2
      <4>2. Talks(c, k) /\ Talks(c, l)
        BY <1>1, <4>1 DEF Talks, q
      <4> QED BY <1>10, <3>2, <4>2 DEF ConnInv
    <3> QED BY <3>1, <3>2
  <2> QED BY <1>4, <2>1, <2>2 DEF WireInv, Increasing, Before
<1>11. SerialInv(c)'
  BY <1>4, <1>5, <1>6, <1>8, <1>9, <1>10 DEF SerialInv
<1>12. Waiting(c)' = Waiting(c) \cup {Arrival(e)}
  <2>1. ArrivalsIn(Append(data[c], e)) = ArrivalsIn(data[c]) \cup {Arrival(e)}
    BY <1>2, EventsHaveTypes, AppendAdds
  <2> QED BY <1>4, <2>1 DEF ArrivalsIn, Waiting
<1>13. Returned(c)' = Returned(c) /\ Arrival(e) \notin Returned(c)
  <2>1. Arrival(e) \notin received[c]
    BY <1>5, <1>6 DEF Before
  <2> QED BY <1>4, <2>1 DEF Returned, KeptInv
<1> QED BY <1>4, <1>11, <1>12, <1>13 DEF KeptInv

\* Taking out an event: its arrival changes sides, and the list stays in order.
LEMMA TakesKeeps ==
    ASSUME ListsOK, NEW c \in Channels, SerialInv(c), KeptInv(c), NEW i \in DOMAIN data[c],
           TakesAt(c, i)
    PROVE  SerialInv(c)' /\ KeptInv(c)'
<1> DEFINE e == data[c][i]
           reply == [order |-> call.order, event |-> e]
<1>1. Ordered(c, RemoveAt(data[c], i))
  BY EventsHaveTypes, RemoveAtOrdered DEF SerialInv
<1>2. SerialInv(c)'
  BY <1>1 DEF SerialInv, TakesAt, WireInv, Increasing, Ordered, Before
<1>3. Waiting(c)' = Waiting(c) \ {Arrival(e)} /\ Arrival(e) \in Waiting(c)
  <2>1. ArrivalsIn(RemoveAt(data[c], i)) = ArrivalsIn(data[c]) \ {Arrival(e)}
    BY EventsHaveTypes, RemoveAtRemoves DEF SerialInv
  <2> QED BY <2>1 DEF ArrivalsIn, Waiting, TakesAt
<1>4. reply.event = e /\ reply \in Reply
  <2>1. e \in Event /\ call.order \in Orders
    BY EventsHaveTypes DEF TakesAt
  <2> QED BY <2>1 DEF Reply
<1> HIDE DEF e, reply
<1>5. /\ taken'[c] = Append(taken[c], reply) /\ taken[c] \in Seq(Reply)
  BY EventsHaveTypes DEF TakesAt, e, reply
<1>6. /\ DOMAIN taken'[c] = 1..Len(taken[c]) + 1 /\ DOMAIN taken[c] = 1..Len(taken[c])
      /\ Len(taken[c]) \in Nat /\ taken'[c][Len(taken[c]) + 1] = reply
      /\ \A j \in 1..Len(taken[c]) : taken'[c][j] = taken[c][j]
  BY <1>4, <1>5, AppendProperties
<1> HIDE DEF Arrival
<1>7. Returned(c)' = Returned(c) \cup {Arrival(e)}
  <2>1. Returned(c)' \subseteq Returned(c) \cup {Arrival(e)}
    <3>1. ASSUME NEW j \in DOMAIN taken'[c]
          PROVE  taken'[c][j] = reply \/ \E k \in DOMAIN taken[c] : taken'[c][j] = taken[c][k]
      BY <1>6
    <3> QED BY <1>4, <3>1 DEF Returned
  <2>2. Returned(c) \subseteq Returned(c)'
    BY <1>6 DEF Returned
  <2>3. Arrival(e) \in Returned(c)'
    BY <1>4, <1>6 DEF Returned
  <2> QED BY <2>1, <2>2, <2>3
<1>8. received'[c] = received[c]
  BY DEF TakesAt
<1> QED BY <1>2, <1>3, <1>7, <1>8 DEF KeptInv

LEMMA SendsKeeps ==
    ASSUME ListsOK, NEW c \in Channels, SerialInv(c), KeptInv(c), Sends(c) \/ Rests(c)
    PROVE  SerialInv(c)' /\ KeptInv(c)'
<1>1. data'[c] = data[c] /\ received'[c] = received[c] /\ taken'[c] = taken[c]
  BY DEF Sends, Rests
<1>2. made \in Nat /\ made' \in {made, made + 1} /\ haunted \subseteq haunted'
  BY DEF Sends, Rests, ListsOK
<1>3. KeptInv(c)'
  BY <1>1 DEF KeptInv, Waiting, Returned
<1>4. Ordered(c, data[c])'
  BY <1>1, <1>2 DEF SerialInv, Ordered, Before
<1>5. \A a \in received[c] : a.n \in Nat /\ a.n <= made /\ a.n <= made'
  <2>1. \A a \in received[c] : a.n \in Nat /\ a.n <= made
    BY EventsHaveTypes DEF SerialInv
  <2> QED BY <1>2, <2>1
<1>6. ASSUME NEW k \in Conns[c] PROVE WireInv(c, k)'
  <2>1. /\ Increasing(wire[c][k])
        /\ \A m \in DOMAIN wire[c][k] :
              /\ wire[c][k][m].via = k
              /\ wire[c][k][m].n \in Nat /\ wire[c][k][m].n <= made /\ wire[c][k][m].n <= made'
              /\ \A a \in received[c] : Before(c, a, wire[c][k][m])
    <3>1. WireInv(c, k) /\ \A m \in DOMAIN wire[c][k] : wire[c][k][m].n \in Nat
      BY EventsHaveTypes DEF SerialInv, Event
    <3> QED BY <1>2, <3>1 DEF WireInv
  <2>2. CASE wire'[c][k] = wire[c][k]
    BY <1>1, <1>2, <2>1, <2>2 DEF WireInv, Increasing, Before
  <2>3. CASE wire'[c][k] = <<>>
    BY <2>3 DEF WireInv, Increasing
  <2>4. ASSUME NEW e \in Event, SentOver(c, k, e), wire'[c][k] = Append(wire[c][k], e),
               made' = made + 1
        PROVE  WireInv(c, k)'
    <3>1. e.via = k /\ e.n = made + 1
      BY <2>4 DEF SentOver
    <3>2. Increasing(Append(wire[c][k], e))
      BY <1>2, <2>1, <3>1, EventsHaveTypes, AppendIncreases
    <3>3. \A m \in DOMAIN wire'[c][k] :
             wire'[c][k][m] = e \/ \E j \in DOMAIN wire[c][k] : wire'[c][k][m] = wire[c][k][j]
      BY <2>4, EventsHaveTypes, AppendProperties
    <3>4. \A a \in received[c] : Before(c, a, e)
      BY <1>2, <1>5, <3>1 DEF Before
    <3>5. \A m \in DOMAIN wire'[c][k] :
             /\ wire'[c][k][m].via = k /\ wire'[c][k][m].n <= made'
             /\ \A a \in received[c] : Before(c, a, wire'[c][k][m])
      BY <1>2, <2>1, <2>4, <3>1, <3>3, <3>4
    <3> QED BY <1>1, <1>2, <2>4, <3>2, <3>5 DEF WireInv, Increasing, Before
  <2> QED BY <2>2, <2>3, <2>4 DEF Sends, Rests
<1> QED BY <1>1, <1>3, <1>4, <1>5, <1>6 DEF SerialInv

-----------------------------------------------------------------------------
LEMMA ChannelsHold == Spec => [](\A c \in Channels : SerialInv(c) /\ KeptInv(c))
<1> DEFINE I == \A c \in Channels : SerialInv(c) /\ KeptInv(c)
           C == \A c \in Channels : ConnInv(c)
<1>1. Init => I
  BY DEF Init, SerialInv, WireInv, KeptInv, Waiting, Returned, Increasing, Ordered
<1>2. ListsOK /\ C /\ I /\ [Next]_vars => I'
  <2> SUFFICES ASSUME ListsOK, C, I, [Next]_vars, NEW c \in Channels
               PROVE  SerialInv(c)' /\ KeptInv(c)'
    OBVIOUS
  <2>1. SerialInv(c) /\ KeptInv(c) /\ ConnInv(c)
    OBVIOUS
  <2> HIDE DEF I, C
  <2>2. CASE Rests(c) \/ Sends(c)
    BY <2>1, <2>2, SendsKeeps
  <2>3. ASSUME NEW k \in Conns[c], Stores(c, k) PROVE SerialInv(c)' /\ KeptInv(c)'
    BY <2>1, <2>3, StoresKeeps
  <2>4. ASSUME NEW i \in DOMAIN data[c], TakesAt(c, i) PROVE SerialInv(c)' /\ KeptInv(c)'
    BY <2>1, <2>4, TakesKeeps
  <2> QED BY <2>2, <2>3, <2>4, StepOfChannel
<1> QED BY <1>1, <1>2, ListsHold, ConnectionsHold, PTL DEF Spec

\* Whatever came over a connection waits in its list or was returned, and never
\* both: no event displaces another, and a read takes out what it returns and
\* nothing else.  What two connections brought is two arrivals.
THEOREM NothingGetsLost == Spec => []NothingIsLost
<1>1. (\A c \in Channels : SerialInv(c) /\ KeptInv(c)) => NothingIsLost
  BY DEF KeptInv, NothingIsLost
<1> QED BY <1>1, ChannelsHold, PTL

-----------------------------------------------------------------------------
\* An event on the orders channel keeps the number of its order all the way, and
\* a client id is no order's number: what matches belongs to the order.
LEMMA MatchIsOwn ==
    ASSUME ListsOK, NumberInv, NEW i \in DOMAIN data["orders"], NEW o \in Orders
    PROVE  Matches(data["orders"][i], o) <=> data["orders"][i].order = o
<1>1. data["orders"][i] \in Event /\ data["orders"][i].id = data["orders"][i].order
  BY EventsHaveTypes DEF NumberInv, OwnNumber, Channels
<1>2. data["orders"][i].order \in Orders
  BY <1>1 DEF Event
<1> QED BY <1>1, <1>2, OrderFeedAssumption DEF Matches

LEMMA NumbersKept ==
    ASSUME ListsOK, NumberInv, [Next]_vars
    PROVE  NumberInv'
<1> DEFINE o == "orders"
<1>1. /\ o \in Channels /\ data[o] \in Seq(Event) /\ OwnNumber(data[o])
      /\ \A k \in Conns[o] : wire[o][k] \in Seq(Event) /\ OwnNumber(wire[o][k])
  BY EventsHaveTypes DEF Channels, NumberInv
<1>2. CASE Rests(o)
  BY <1>1, <1>2 DEF Rests, NumberInv, OwnNumber
<1>3. CASE Sends(o)
  <2>1. ASSUME NEW k \in Conns[o], NEW e \in Event, SentOver(o, k, e),
               wire'[o][k] = Append(wire[o][k], e)
        PROVE  OwnNumber(wire'[o][k])
    <3>1. \A m \in DOMAIN wire'[o][k] :
             wire'[o][k][m] = e \/ \E j \in DOMAIN wire[o][k] : wire'[o][k][m] = wire[o][k][j]
      BY <1>1, <2>1, AppendProperties
    <3>2. e.id = e.order
      BY <2>1 DEF SentOver
    <3> QED BY <1>1, <3>1, <3>2 DEF OwnNumber
  <2> QED BY <1>1, <1>3, <2>1 DEF Sends, NumberInv
<1>4. ASSUME NEW k \in Conns[o], Stores(o, k) PROVE NumberInv'
  <2>1. /\ Head(wire[o][k]) \in Event /\ Head(wire[o][k]) = wire[o][k][1] /\ 1 \in DOMAIN wire[o][k]
        /\ \A m \in DOMAIN Tail(wire[o][k]) :
              m + 1 \in DOMAIN wire[o][k] /\ Tail(wire[o][k])[m] = wire[o][k][m + 1]
    BY <1>1, <1>4, HeadTailProperties DEF Stores
  <2>2. \A m \in DOMAIN data'[o] :
            data'[o][m] = Head(wire[o][k]) \/ \E j \in DOMAIN data[o] : data'[o][m] = data[o][j]
    BY <1>1, <1>4, <2>1, AppendProperties DEF Stores
  <2>3. OwnNumber(data'[o])
    BY <1>1, <2>1, <2>2 DEF OwnNumber
  <2>4. OwnNumber(Tail(wire[o][k]))
    BY <1>1, <2>1 DEF OwnNumber
  <2> QED BY <1>1, <1>4, <2>3, <2>4 DEF NumberInv, Stores
<1>5. ASSUME NEW i \in DOMAIN data[o], TakesAt(o, i) PROVE NumberInv'
  <2>1. data'[o] = RemoveAt(data[o], i) /\ wire'[o] = wire[o]
    BY <1>5 DEF TakesAt
  <2>2. \A k \in DOMAIN data'[o] : \E j \in DOMAIN data[o] : data'[o][k] = data[o][j]
    BY <1>1, <2>1, RemoveAtSource
  <2> QED BY <1>1, <2>1, <2>2 DEF NumberInv, OwnNumber
<1> QED BY <1>1, <1>2, <1>3, <1>4, <1>5, StepOfChannel

\* A read returns the first update that waits for its order: what was returned for
\* that order came before it, what still waits for it comes after.
OrdersInv == NumberInv /\ OwnUpdate /\ TakenFirst /\ UpdatesInOrder

LEMMA OrdersTakes ==
    ASSUME ListsOK, OrdersInv, SerialInv("orders"), NEW i \in DOMAIN data["orders"],
           TakesAt("orders", i)
    PROVE  OwnUpdate' /\ TakenFirst' /\ UpdatesInOrder'
<1> DEFINE o == "orders"
           e == data[o][i]
           reply == [order |-> call.order, event |-> e]
           last == Len(taken[o]) + 1
<1> USE DEF OrdersInv
<1>0. haunted' = haunted
  BY DEF TakesAt
<1>1. o \in Channels /\ call.order \in Orders /\ e \in Event /\ e.order = call.order
  <2>1. o \in Channels /\ call.order \in Orders
    BY DEF Channels, TakesAt
  <2>2. e \in Event
    BY <2>1, EventsHaveTypes
  <2> QED BY <2>1, <2>2, MatchIsOwn DEF TakesAt
<1>2. reply \in Reply /\ reply.order = call.order /\ reply.event = e
  BY <1>1 DEF Reply
<1>3. /\ DOMAIN taken'[o] = 1..last /\ DOMAIN taken[o] = 1..Len(taken[o]) /\ Len(taken[o]) \in Nat
      /\ taken'[o][last] = reply
      /\ \A j \in 1..Len(taken[o]) : taken'[o][j] = taken[o][j]
  BY <1>1, <1>2, EventsHaveTypes, AppendProperties DEF TakesAt
<1>4. ASSUME NEW j \in DOMAIN data'[o] PROVE \E k \in DOMAIN data[o] \ {i} : data'[o][j] = data[o][k]
  BY <1>1, EventsHaveTypes, RemoveAtSource DEF TakesAt
<1>5. ASSUME NEW k \in DOMAIN data[o] \ {i}, data[o][k].order = call.order
      PROVE  Before(o, e, data[o][k])
  <2>1. i <= k /\ k \in Nat /\ i \in Nat
    BY <1>1, <1>5, MatchIsOwn, EventsHaveTypes DEF TakesAt
  <2> QED BY <2>1 DEF SerialInv, Ordered
<1> HIDE DEF e, reply, last
<1>6. OwnUpdate'
  <2>1. \A j \in 1..Len(taken[o]) : taken[o][j].event.order = taken[o][j].order
    BY <1>3 DEF OwnUpdate
  <2>2. \A j \in 1..last : j = last \/ j \in 1..Len(taken[o])
    BY <1>3 DEF last
  <2>3. reply.event.order = reply.order
    BY <1>1, <1>2
  <2> QED BY <1>3, <2>1, <2>2, <2>3 DEF OwnUpdate
<1>7. ASSUME NEW j \in 1..Len(taken[o]), taken[o][j].order = call.order
      PROVE  Before(o, taken[o][j].event, e)
  BY <1>1, <1>3, <1>7 DEF TakenFirst, e
<1>8. UpdatesInOrder'
  <2>1. ASSUME NEW j \in 1..last, NEW k \in 1..last, j < k,
               taken'[o][j].order = taken'[o][k].order
        PROVE  Before(o, taken'[o][j].event, taken'[o][k].event)
    <3>1. CASE k = last
      BY <1>2, <1>3, <1>7, <2>1, <3>1 DEF last
    <3>2. CASE k # last
      <4>1. j \in 1..Len(taken[o]) /\ k \in 1..Len(taken[o])
        BY <1>3, <2>1, <3>2 DEF last
      <4>2. taken'[o][j] = taken[o][j] /\ taken'[o][k] = taken[o][k]
        BY <1>3, <4>1
      <4> QED BY <1>3, <2>1, <4>1, <4>2 DEF UpdatesInOrder, Before
    <3> QED BY <3>1, <3>2
  <2> QED BY <1>0, <1>3, <2>1 DEF UpdatesInOrder, Before
<1>9. TakenFirst'
  <2>4. ASSUME NEW j \in 1..last, NEW m \in DOMAIN data'[o],
               taken'[o][j].order = data'[o][m].order
        PROVE  Before(o, taken'[o][j].event, data'[o][m])
    <3>1. PICK k \in DOMAIN data[o] \ {i} : data'[o][m] = data[o][k]
      BY <1>4
    <3>2. CASE j = last
      BY <1>2, <1>3, <1>5, <2>4, <3>1, <3>2
    <3>3. CASE j # last
      <4>1. j \in DOMAIN taken[o] /\ taken'[o][j] = taken[o][j]
        BY <1>3, <3>3 DEF last
      <4>2. k \in DOMAIN data[o] /\ taken[o][j].order = data[o][k].order
        BY <2>4, <3>1, <4>1
      <4>3. Before(o, taken[o][j].event, data[o][k])
        BY <4>1, <4>2 DEF TakenFirst
      <4> QED BY <3>1, <4>1, <4>3
    <3> QED BY <3>2, <3>3
  <2> QED BY <1>0, <1>3, <2>4 DEF TakenFirst, Before
<1> QED BY <1>6, <1>8, <1>9

LEMMA OrdersStores ==
    ASSUME ListsOK, OrdersInv, SerialInv("orders"), KeptInv("orders"),
           NEW k \in Conns["orders"], Stores("orders", k)
    PROVE  OwnUpdate' /\ TakenFirst' /\ UpdatesInOrder'
<1> DEFINE o == "orders"
           e == Head(wire[o][k])
<1>1. taken'[o] = taken[o] /\ haunted' = haunted
  BY DEF Stores
<1>2. OwnUpdate' /\ UpdatesInOrder'
  BY <1>1 DEF OrdersInv, OwnUpdate, UpdatesInOrder
<1>3. /\ o \in Channels /\ e \in Event /\ data[o] \in Seq(Event)
      /\ 1 \in DOMAIN wire[o][k] /\ wire[o][k][1] = e
  BY EventsHaveTypes DEF Channels, Stores
<1>4. ASSUME NEW j \in DOMAIN taken[o] PROVE Before(o, taken[o][j].event, e)
  <2>1. Arrival(taken[o][j].event) \in received[o]
    BY DEF KeptInv, Returned
  <2>2. Before(o, Arrival(taken[o][j].event), e)
    BY <1>3, <2>1 DEF SerialInv, WireInv
  <2> QED BY <2>2 DEF Before, Arrival
<1>5. \A m \in DOMAIN data'[o] : data'[o][m] = e \/ \E n \in DOMAIN data[o] : data'[o][m] = data[o][n]
  BY <1>3, AppendProperties DEF Stores
<1>6. TakenFirst'
  BY <1>1, <1>4, <1>5 DEF OrdersInv, TakenFirst, Before
<1> QED BY <1>2, <1>6

LEMMA OrdersInvHolds == Spec => []OrdersInv
<1> DEFINE I == \A c \in Channels : SerialInv(c) /\ KeptInv(c)
<1>1. Init => OrdersInv
  BY DEF Init, OrdersInv, NumberInv, OwnNumber, OwnUpdate, TakenFirst, UpdatesInOrder, Channels
<1>2. ListsOK /\ I /\ OrdersInv /\ [Next]_vars => OrdersInv'
  <2> SUFFICES ASSUME ListsOK, I, OrdersInv, [Next]_vars PROVE OrdersInv'
    OBVIOUS
  <2>1. "orders" \in Channels
    BY DEF Channels
  <2>2. SerialInv("orders") /\ KeptInv("orders")
    BY <2>1
  <2> HIDE DEF I
  <2>3. NumberInv'
    BY NumbersKept DEF OrdersInv
  <2>4. CASE Rests("orders") \/ Sends("orders")
    <3>1. UNCHANGED <<data["orders"], taken["orders"]>> /\ haunted \subseteq haunted'
      BY <2>4 DEF Rests, Sends
    <3> QED BY <2>3, <3>1 DEF OrdersInv, OwnUpdate, TakenFirst, UpdatesInOrder, Before
  <2>5. ASSUME NEW k \in Conns["orders"], Stores("orders", k) PROVE OrdersInv'
    BY <2>2, <2>3, <2>5, OrdersStores DEF OrdersInv
  <2>6. ASSUME NEW i \in DOMAIN data["orders"], TakesAt("orders", i) PROVE OrdersInv'
    BY <2>2, <2>3, <2>6, OrdersTakes DEF OrdersInv
  <2> QED BY <2>1, <2>4, <2>5, <2>6, StepOfChannel
<1> QED BY <1>1, <1>2, ListsHold, ChannelsHold, PTL DEF Spec

\* An update that readOrderData returns belongs to the order asked for, by
\* whichever of its two numbers it was found.
THEOREM UpdateIsOwn == Spec => []OwnUpdate
<1>1. OrdersInv => OwnUpdate
  BY DEF OrdersInv
<1> QED BY <1>1, OrdersInvHolds, PTL

\* The updates of one order are returned in the order in which the exchange made
\* them and each once, whatever connections come and go; and when force left one
\* alive that it meant to replace, this holds of each connection's updates.
THEOREM UpdatesAreInOrder == Spec => []UpdatesInOrder
<1>1. OrdersInv => UpdatesInOrder
  BY DEF OrdersInv
<1> QED BY <1>1, OrdersInvHolds, PTL

\* readOrderData gives up on an order with a client id only when no update of it
\* waits in the list.
THEOREM MissesAreTrue == Spec => NoFalseMiss
<1>1. ListsOK /\ OrdersInv /\ [Next]_vars =>
        [/\ call.of = "orders" /\ ClientId[call.order] # 0
         /\ call'.of = "none" /\ taken' = taken
         => \A i \in DOMAIN data["orders"] : data["orders"][i].order # call.order]_vars
  <2> SUFFICES ASSUME ListsOK, NumberInv, [Next]_vars,
                      call.of = "orders", ClientId[call.order] # 0,
                      call'.of = "none", taken' = taken,
                      NEW i \in DOMAIN data["orders"], data["orders"][i].order = call.order
               PROVE  FALSE
    BY DEF OrdersInv
  <2>1. Matches(data["orders"][i], call.order)
    <3>1. call.order \in Orders
      BY DEF ListsOK
    <3> QED BY <3>1, MatchIsOwn
  <2>2. i \in Hits(call.of, call.order)
    BY <2>1 DEF Hits
  <2>3. ~LookMisses /\ ~LookThrows
    BY <2>2 DEF LookMisses, LookThrows
  <2>4. ~LookFinds
    <3> SUFFICES ASSUME LookFinds PROVE FALSE
      OBVIOUS
    <3>1. PICK x : taken' = [taken EXCEPT !["orders"] = Append(@, x)] /\ x \in Reply
      <4>1. PICK k \in Hits(call.of, call.order) :
                taken' = [taken EXCEPT ![call.of] =
                            Append(@, [order |-> call.order, event |-> data[call.of][k]])]
        BY DEF LookFinds
      <4>2. data["orders"][k] \in Event /\ call.order \in Orders
        BY <4>1, EventsHaveTypes DEF Hits, ListsOK, Channels
      <4> DEFINE x == [order |-> call.order, event |-> data["orders"][k]]
      <4>3. x \in Reply
        BY <4>2 DEF Reply
      <4>4. taken' = [taken EXCEPT !["orders"] = Append(@, x)]
        BY <4>1
      <4> HIDE DEF x
      <4> QED BY <4>3, <4>4
    <3>2. "orders" \in Channels /\ taken["orders"] \in Seq(Reply)
      BY EventsHaveTypes DEF Channels
    <3>3. taken'["orders"] = Append(taken["orders"], x)
      BY <3>1, <3>2 DEF ListsOK
    <3>4. Len(Append(taken["orders"], x)) = Len(taken["orders"]) + 1 /\ Len(taken["orders"]) \in Nat
      BY <3>1, <3>2, AppendProperties
    <3> QED BY <3>3, <3>4
  <2> QED
    BY <2>3, <2>4 DEF Next, vars, reader, Happens, Read, Subscribe, Opens, Drop, Callback, CallbackWaits
<1> QED BY <1>1, ListsHold, OrdersInvHolds, PTL DEF Spec, NoFalseMiss
=============================================================================
