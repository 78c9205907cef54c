--------------------------- MODULE WsClientProofs ---------------------------
(***************************************************************************)
(* Proofs about WsClient, and about StreamManager over it, for every set   *)
(* of streams and of addresses and every number of quotes.                 *)
(*                                                                         *)
(* None of the three invariants is inductive alone.  That a stream is not  *)
(* served twice rests on findStream, hence on the map finding every wanted *)
(* socket, hence on what is known of a socket between start and emplace.   *)
(* findStream also finds sockets the io thread has stopped, so uniqueness   *)
(* is proved of all sockets it can find, or will when they are in the map.  *)
(***************************************************************************)
EXTENDS StreamManager, SequenceTheorems, TLAPS

\* The io thread sets the flag before it enters io_context::run().
ThreadInv ==
    /\ ioPc = "restart" => isRunning
    /\ ioPc = "closing" => isRunning /\ ~stopped
    /\ ServingThread

\* An entry that can be locked is that of a live socket.
ValidLive == valid \subseteq Live

\* The sockets the client's map holds, or is about to.
Held == {a \in Live : a \in valid \/ (zPc = "register" /\ a = handle)}

\* The socket between start and emplace is not in the map.
RegisterInv == zPc = "register" => handle \notin valid

\* A socket is only created for a stream for which none is found.
StartInv == zPc = "start" => \A a \in valid : name[a] # stream

NoDuplicateHeld == \A a, b \in Held : name[a] = name[b] => a = b

\* Nothing is registered once the client is being destroyed.
DestroyInv == zPc = "destroy" => valid = {}

SocketInv ==
    /\ DestroyInv
    /\ MapFindsWanted
    /\ ValidLive
    /\ RegisterInv
    /\ StartInv
    /\ NoDuplicateHeld

-----------------------------------------------------------------------------
\* Every step of every thread keeps the types, and a lockable map entry its key.
LEMMA TypeStep ==
    ASSUME TypeOK, [Next]_vars
    PROVE  TypeOK'
<1> USE DEF TypeOK, Phases, zorroVars, threadVars, socketVars
<1>1. CASE Subscribing
  <2> SUFFICES ASSUME NEW s \in Streams, NEW force \in Forces, Subscribe(s, force)
               PROVE  TypeOK'
    BY <1>1 DEF Subscribing
  <2>1. CASE Found(s) = {} \/ ~force
    BY <2>1 DEF Subscribe, Found
  <2>2. CASE \E h \in Found(s) :
                /\ force
                /\ zPc' = "start"
                /\ phase' = [phase EXCEPT ![h] = Stopped(@)]
                /\ valid' = valid \ {h}
                /\ map' = valid'
    <3>1. PICK h \in Addr : phase' = [phase EXCEPT ![h] = Stopped(@)]
                            /\ valid' = valid \ {h} /\ map' = valid' /\ zPc' = "start"
      BY <2>2 DEF Found
    <3>2. Stopped(phase[h]) \in Phases
      BY DEF Stopped
    <3>3. phase' \in [Addr -> Phases]
      BY <3>1, <3>2
    <3> QED BY <3>1, <3>3 DEF Subscribe
  <2> QED BY <2>1, <2>2 DEF Subscribe
<1>2. CASE UnsubscribeAll
  <2>1. \A p \in Phases : Stopped(p) \in Phases
    BY DEF Stopped
  <2>2. phase' \in [Addr -> Phases]
    BY <1>2, <2>1 DEF UnsubscribeAll
  <2> QED BY <1>2, <2>2 DEF UnsubscribeAll
<1>3. CASE Zorro
  <2>1. ASSUME NEW h \in Addr, Start(h) PROVE TypeOK'
    BY <2>1 DEF Start
  <2>2. CASE Register
    BY <2>2 DEF Register
  <2>3. CASE CheckRunning \/ Run \/ SetRunning \/ JoinAndSpawn \/ Destroy
    BY <2>3 DEF CheckRunning, Run, SetRunning, JoinAndSpawn, Destroy
  <2> QED BY <1>3, <2>1, <2>2, <2>3 DEF Zorro
<1>4. CASE Io
  <2>1. CASE IoControl
    BY <2>1 DEF IoControl, IoStart, IoRestart, IoCaught, IoReturns, IoClear, IoExit
  <2>2. CASE IoStopped
    BY <2>2 DEF IoStopped
  <2>3. ASSUME NEW a \in Addr, IoConnected(a) PROVE TypeOK'
    <3>1. NextPhase(phase[a]) \in Phases
      BY <2>3 DEF IoConnected, NextPhase
    <3> QED BY <2>3, <3>1 DEF IoConnected
  <2>4. ASSUME NEW a \in Addr, IoStops(a) \/ IoDies(a) \/ IoThrows(a) PROVE TypeOK'
    BY <2>4 DEF IoStops, IoDies, IoThrows
  <2> QED BY <1>4, <2>1, <2>2, <2>3, <2>4 DEF Io, IoSocket
<1>5. CASE UNCHANGED vars
  BY <1>5 DEF vars
<1> QED BY <1>1, <1>2, <1>3, <1>4, <1>5 DEF Next

\* The type invariant is inductive alone.
THEOREM TypeCorrect == Spec => []TypeOK
<1>1. Init => TypeOK
  BY DEF Init, TypeOK, Phases
<1> QED BY <1>1, TypeStep, PTL DEF Spec

-----------------------------------------------------------------------------
\* A thread inside io_context::run() has the flag set and a context that is not
\* stopped, whatever the Zorro thread and the thread before it did to the flag.
THEOREM ServingThreadHolds == Spec => []ServingThread
<1>1. Init => ThreadInv
  BY DEF Init, ThreadInv, ServingThread
<1>2. TypeOK /\ ThreadInv /\ [Next]_vars => ThreadInv'
  <2> SUFFICES ASSUME TypeOK, ThreadInv, [Next]_vars PROVE ThreadInv'
    OBVIOUS
  <2> USE DEF TypeOK, ThreadInv, ServingThread, threadVars
  <2>1. CASE Subscribing \/ UnsubscribeAll
    BY <2>1 DEF Subscribing, Subscribe, UnsubscribeAll
  <2>2. CASE Zorro
    BY <2>2 DEF Zorro, Start, Register, CheckRunning, Run, SetRunning, JoinAndSpawn, Destroy
  <2>3. CASE Io
    BY <2>3 DEF Io, IoControl, IoStart, IoRestart, IoCaught, IoReturns, IoClear, IoExit,
                IoStopped, IoSocket, IoConnected, IoStops, IoDies, IoThrows, Serving
  <2>4. CASE UNCHANGED vars
    BY <2>4 DEF vars
  <2> QED BY <2>1, <2>2, <2>3, <2>4 DEF Next
<1>3. ThreadInv => ServingThread
  BY DEF ThreadInv
<1> QED BY <1>1, <1>2, <1>3, TypeCorrect, PTL DEF Spec

-----------------------------------------------------------------------------
\* What the Zorro thread's steps do to the sockets.
LEMMA SubscribeKeeps ==
    ASSUME TypeOK, SocketInv, NEW s \in Streams, NEW force \in Forces, Subscribe(s, force)
    PROVE  SocketInv'
<1> USE DEF TypeOK, SocketInv, Live, Wanted, Held
<1>1. CASE Found(s) = {} /\ zPc' = "start" /\ UNCHANGED <<phase, valid>>
  <2>1. UNCHANGED name /\ stream' = s /\ zPc = "idle"
    BY DEF Subscribe
  <2>2. \A a \in valid : name[a] # s
    BY <1>1 DEF Found
  <2> QED
    BY <1>1, <2>1, <2>2 DEF MapFindsWanted, ValidLive, RegisterInv, StartInv, DestroyInv, NoDuplicateHeld
<1>2. CASE UNCHANGED <<zPc, phase, valid>>
  BY <1>2 DEF Subscribe, MapFindsWanted, ValidLive, RegisterInv, StartInv, DestroyInv, NoDuplicateHeld
<1>3. ASSUME NEW h \in Found(s), zPc' = "start", valid' = valid \ {h},
             phase' = [phase EXCEPT ![h] = Stopped(@)]
      PROVE  SocketInv'
  <2>1. h \in valid /\ h \in Live /\ name[h] = s
    BY DEF Found, ValidLive
  <2>2. UNCHANGED name /\ stream' = s /\ zPc = "idle"
    BY DEF Subscribe
  <2>3. Live' = Live /\ Wanted' = Wanted \ {h}
    <3>1. phase'[h] \notin {"free", "connecting", "handshake", "open"}
      BY <1>3, <2>1 DEF Stopped
    <3> QED BY <1>3, <2>1, <3>1
  <2>4. \A a \in valid \ {h} : name[a] # s
    BY <2>1 DEF NoDuplicateHeld, ValidLive
  <2>5. MapFindsWanted' /\ ValidLive'
    BY <1>3, <2>2, <2>3 DEF MapFindsWanted, ValidLive
  <2>6. StartInv' /\ NoDuplicateHeld' /\ RegisterInv' /\ DestroyInv'
    BY <1>3, <2>2, <2>3, <2>4 DEF StartInv, NoDuplicateHeld, RegisterInv, DestroyInv
  <2> QED BY <2>5, <2>6
<1> QED BY <1>1, <1>2, <1>3 DEF Subscribe

LEMMA UnsubscribeAllKeeps ==
    ASSUME TypeOK, SocketInv, UnsubscribeAll
    PROVE  SocketInv'
<1> USE DEF TypeOK, SocketInv, Wanted
<1>1. zPc = "idle" /\ zPc' = "destroy" /\ valid' = {}
  BY DEF UnsubscribeAll
<1>2. ASSUME NEW a \in Addr PROVE a \notin Wanted'
  <2>1. CASE a \in valid
    BY <2>1 DEF UnsubscribeAll, Stopped
  <2>2. CASE a \notin valid
    BY <1>1, <2>2 DEF UnsubscribeAll, MapFindsWanted
  <2> QED BY <2>1, <2>2
<1>3. Wanted' = {}
  BY <1>2
<1>4. Held' = {}
  BY <1>1 DEF Held
<1> QED
  BY <1>1, <1>3, <1>4 DEF MapFindsWanted, ValidLive, RegisterInv, StartInv, DestroyInv, NoDuplicateHeld

LEMMA ZorroKeeps ==
    ASSUME TypeOK, SocketInv, Zorro
    PROVE  SocketInv'
<1> USE DEF TypeOK, SocketInv, Live, Wanted, Held, MapFindsWanted, ValidLive, RegisterInv,
            StartInv, DestroyInv, NoDuplicateHeld, socketVars, threadVars
<1>1. ASSUME NEW h \in Addr, Start(h) PROVE SocketInv'
  <2>1. /\ zPc = "start" /\ zPc' = "register" /\ handle' = h
        /\ h \notin Live /\ h \notin valid
        /\ UNCHANGED <<stream, map, valid>>
    BY <1>1 DEF Start
  <2>2. Live' = Live \cup {h} /\ Wanted' = Wanted \cup {h}
    BY <1>1 DEF Start
  <2>3. \A a \in valid : name'[a] = name[a] /\ name[a] # stream
    BY <1>1, <2>1 DEF Start
  <2>4. name'[h] = stream
    BY <1>1 DEF Start
  <2>5. Held' = valid \cup {h} /\ Held = valid
    BY <2>1, <2>2
  <2>6. NoDuplicateHeld'
    BY <2>3, <2>4, <2>5
  <2> QED BY <2>1, <2>2, <2>6
<1>2. CASE Register
  <2>1. Held' = Held /\ Live' = Live /\ UNCHANGED <<name, phase>>
    BY <1>2 DEF Register
  <2> QED BY <1>2, <2>1 DEF Register
<1>3. CASE CheckRunning \/ Run \/ SetRunning \/ JoinAndSpawn
  BY <1>3 DEF CheckRunning, Run, SetRunning, JoinAndSpawn
<1>4. CASE Destroy
  BY <1>4 DEF Destroy
<1> QED BY <1>1, <1>2, <1>3, <1>4 DEF Zorro

\* What a step of the io thread does to the socket at a.
LEMMA IoSocketStep ==
    ASSUME TypeOK, NEW a \in Addr, IoSocket(a)
    PROVE  /\ UNCHANGED <<zPc, stream, handle, name>>
           /\ \A b \in Addr \ {a} : phase'[b] = phase[b]
           /\ \/ Live' = Live /\ valid' = valid
              \/ Live' = Live \ {a} /\ valid' = valid \ {a}
           /\ \/ Wanted' = Wanted /\ IoConnected(a)
              \/ Wanted' = Wanted \ {a} /\ (IoStops(a) \/ IoDies(a) \/ IoThrows(a))
<1> USE DEF TypeOK, Live, Wanted, zorroVars
<1>1. CASE IoConnected(a)
  <2>1. phase[a] \in {"connecting", "handshake"} <=> NextPhase(phase[a]) \in {"handshake", "open"}
    BY <1>1 DEF IoConnected, NextPhase
  <2>2. phase'[a] = NextPhase(phase[a]) /\ phase[a] # "free"
    BY <1>1 DEF IoConnected
  <2>3. phase'[a] \notin {"free", "connecting"}
    BY <1>1, <2>2 DEF IoConnected, NextPhase
  <2>4. \A b \in Addr \ {a} : phase'[b] = phase[b]
    BY <1>1 DEF IoConnected
  <2>5. phase[a] = "abandoned" => phase'[a] = "ghost"
    BY <2>2 DEF NextPhase
  <2>6. Live' = Live /\ Wanted' = Wanted
    BY <1>1, <2>1, <2>2, <2>3, <2>4, <2>5 DEF IoConnected
  <2> QED BY <1>1, <2>4, <2>6 DEF IoConnected
<1>2. CASE IoStops(a)
  BY <1>2 DEF IoStops
<1>3. CASE IoDies(a) \/ IoThrows(a)
  BY <1>3 DEF IoDies, IoThrows
<1> QED BY <1>1, <1>2, <1>3 DEF IoSocket

LEMMA IoKeeps ==
    ASSUME TypeOK, SocketInv, Io
    PROVE  SocketInv'
<1> USE DEF TypeOK, SocketInv, MapFindsWanted, ValidLive, RegisterInv,
            StartInv, DestroyInv, NoDuplicateHeld, Held, socketVars, zorroVars
<1>1. CASE IoControl \/ IoStopped
  BY <1>1 DEF IoControl, IoStart, IoRestart, IoCaught, IoReturns, IoClear, IoExit, IoStopped,
              Live, Wanted
<1>2. ASSUME NEW a \in Addr, IoSocket(a) PROVE SocketInv'
  <2>1. /\ UNCHANGED <<zPc, stream, handle, name>>
        /\ \/ Live' = Live /\ valid' = valid
           \/ Live' = Live \ {a} /\ valid' = valid \ {a}
        /\ Wanted' = Wanted \/ Wanted' = Wanted \ {a}
        /\ Wanted' \subseteq Live'
    BY <1>2, IoSocketStep DEF Wanted, Live
  <2>2. Wanted' \subseteq Wanted /\ valid' \subseteq valid /\ valid' = valid \cap Live'
    BY <2>1
  <2>3. Held' \subseteq Held
    BY <2>1
  <2> QED BY <2>1, <2>2, <2>3
<1> QED BY <1>1, <1>2 DEF Io

LEMMA SocketStep ==
    ASSUME TypeOK, SocketInv, [Next]_vars
    PROVE  SocketInv'
<1>1. CASE Subscribing
  BY <1>1, SubscribeKeeps DEF Subscribing
<1>2. CASE UnsubscribeAll
  BY <1>2, UnsubscribeAllKeeps
<1>3. CASE Zorro
  BY <1>3, ZorroKeeps
<1>4. CASE Io
  BY <1>4, IoKeeps
<1>5. CASE UNCHANGED vars
  BY <1>5 DEF vars, SocketInv, Live, Wanted, Held, MapFindsWanted, ValidLive, RegisterInv,
              StartInv, DestroyInv, NoDuplicateHeld
<1> QED BY <1>1, <1>2, <1>3, <1>4, <1>5 DEF Next

LEMMA SocketInit == Init => TypeOK /\ SocketInv
BY DEF Init, TypeOK, Phases, SocketInv, Live, Wanted, Held, MapFindsWanted, ValidLive, RegisterInv,
       StartInv, DestroyInv, NoDuplicateHeld

LEMMA SocketInvHolds == Spec => []SocketInv
BY SocketInit, SocketStep, TypeCorrect, PTL DEF Spec

\* Every socket nobody asked to stop is found by findStream, except the one
\* being registered: however the io thread's steps fall between those of start,
\* clean-up and emplace, they never hide a stream.
THEOREM WantedIsFound == Spec => []MapFindsWanted
<1>1. SocketInv => MapFindsWanted
  BY DEF SocketInv
<1> QED BY <1>1, SocketInvHolds, PTL

\* No stream ever has two connections nobody asked to stop.
THEOREM StreamsAreUnique == Spec => []NoDuplicateStream
<1>1. SocketInv => NoDuplicateStream
  BY DEF SocketInv, MapFindsWanted, NoDuplicateHeld, NoDuplicateStream, Held, Live, Wanted
<1> QED BY <1>1, SocketInvHolds, PTL

-----------------------------------------------------------------------------
(* StreamManager: the client's invariants carry over, since every step of    *)
(* the feed is a step of the client or none.                                *)

ClientInv == TypeOK /\ SocketInv

\* From the registration on, the market asked for has a socket or has lost it.
AskedInv ==
    /\ asked => zPc \notin {"destroy", "gone"}
    /\ asked /\ zPc = "register" =>
          lost \/ (handle \in Wanted /\ name[handle] = stream)
    /\ asked /\ zPc \in {"checkRunning", "run", "set", "join", "idle"} =>
          lost \/ \E a \in Wanted : name[a] = stream

FeedTypes ==
    /\ quote \in Nat
    /\ wire \in [Addr -> Seq(Nat)]
    /\ tickPrices \in [Streams -> Nat]
    /\ price \in [Streams -> Nat]

\* Without force only a logout takes a socket out of the map, and after a logout
\* no more are made.
AllHeld == zPc \notin {"destroy", "gone"} => Live = Held

OneSocket == \A a, b \in Live : name[a] = name[b] => a = b

Rising(q) == \A i, j \in DOMAIN q : i < j => q[i] <= q[j]

\* What is on its way is at least what is in the cache, and that at least what
\* was returned.
FreshInv ==
    /\ \A a \in Addr : ~Carrying(a) => wire[a] = <<>>
    /\ \A a \in Addr :
          /\ Rising(wire[a])
          /\ \A i \in DOMAIN wire[a] : tickPrices[name[a]] <= wire[a][i] /\ wire[a][i] <= quote
    /\ \A s \in Streams : price[s] <= tickPrices[s] /\ tickPrices[s] <= quote

LEMMA FeedStepIsClientStep ==
    ASSUME [FeedNext]_all
    PROVE  [Next]_vars
BY DEF FeedNext, all, Ask, Read, ZorroGoesOn, Logout, LoggedOut, Tick, Stops, Ends, IoGoesOn, NewQuote,
       Next, Subscribing, Zorro, Io, IoSocket

LEMMA ClientInvHolds == FeedSpec => []ClientInv
<1>1. FeedInit => ClientInv
  BY SocketInit DEF FeedInit, ClientInv
<1>2. ClientInv /\ [FeedNext]_all => ClientInv'
  BY FeedStepIsClientStep, TypeStep, SocketStep DEF ClientInv
<1> QED BY <1>1, <1>2, PTL DEF FeedSpec

\* A call that waits for a price keeps a socket of its market or knows it lost.
LEMMA AskedKept ==
    ASSUME ClientInv, AskedInv, [FeedNext]_all
    PROVE  AskedInv'
<1> USE DEF ClientInv, TypeOK, AskedInv, Wanted, zorroVars, threadVars, socketVars, feed, reader
<1>1. ASSUME NEW s \in Streams, NEW force \in Forces, Ask(s, force)
      PROVE  AskedInv'
  <2>1. zPc = "idle" /\ stream' = s /\ UNCHANGED name
    BY <1>1 DEF Ask, Subscribe
  <2>2. CASE zPc' = "start"
    BY <1>1, <2>2 DEF Ask
  <2>3. CASE Found(s) # {} /\ UNCHANGED <<zPc, phase, valid>>
    <3>1. PICK a \in valid : name[a] = s
      BY <2>3 DEF Found
    <3>2. CASE a \in Wanted
      <4>1. a \in Wanted' /\ name'[a] = stream'
        BY <2>1, <2>3, <3>1, <3>2
      <4> QED BY <2>1, <2>3, <4>1
    <3>3. CASE a \notin Wanted
      <4>1. lost'
        BY <1>1, <3>1, <3>3 DEF Ask
      <4> QED BY <2>1, <2>3, <4>1
    <3> QED BY <3>2, <3>3
  <2> QED BY <1>1, <2>2, <2>3 DEF Ask, Subscribe
<1>2. CASE Read
  BY <1>2 DEF Read, vars
<1>3. CASE ZorroGoesOn
  <2>1. ASSUME NEW h \in Addr, Start(h) PROVE AskedInv'
    <3>1. zPc' = "register" /\ handle' = h /\ name'[h] = stream' /\ phase'[h] = "connecting"
      BY <2>1 DEF Start
    <3> QED BY <1>3, <3>1 DEF ZorroGoesOn
  <2>2. CASE Register
    BY <1>3, <2>2 DEF ZorroGoesOn, Register
  <2>3. CASE CheckRunning \/ Run \/ SetRunning \/ JoinAndSpawn
    BY <1>3, <2>3 DEF ZorroGoesOn, CheckRunning, Run, SetRunning, JoinAndSpawn
  <2>4. ~Destroy
    BY <1>3 DEF ZorroGoesOn, Destroy
  <2> QED BY <1>3, <2>1, <2>2, <2>3, <2>4 DEF ZorroGoesOn, Zorro
<1>4. CASE Logout
  BY <1>4 DEF Logout
<1>5. CASE LoggedOut
  BY <1>5 DEF LoggedOut, Destroy
<1>6. ASSUME NEW a \in Addr, Tick(a) PROVE AskedInv'
  BY <1>6 DEF Tick, vars
<1>7. ASSUME NEW a \in Addr, Stops(a) \/ Ends(a) PROVE AskedInv'
  <2>1. UNCHANGED <<zPc, stream, handle, name>> /\ Wanted' = Wanted \ {a}
    BY <1>7 DEF Stops, Ends, IoStops, IoDies, IoThrows
  <2>2. UNCHANGED asked /\ lost' = (lost \/ name[a] = stream)
    BY <1>7 DEF Stops, Ends
  <2> HIDE DEF Wanted
  <2> QED BY <2>1, <2>2
<1>8. CASE IoGoesOn
  <2>1. CASE IoControl \/ IoStopped
    BY <1>8, <2>1 DEF IoGoesOn, IoControl, IoStart, IoRestart, IoCaught, IoReturns, IoClear,
                      IoExit, IoStopped
  <2>2. ASSUME NEW a \in Addr, IoConnected(a) PROVE AskedInv'
    <3>1. UNCHANGED <<zPc, stream, handle, name, asked, lost>>
      BY <1>8, <2>2 DEF IoConnected, IoGoesOn
    <3>2. Wanted' = Wanted
      <4>1. ~(IoStops(a) \/ IoDies(a) \/ IoThrows(a)) \/ Wanted' = Wanted
        <5>1. phase[a] \in {"connecting", "handshake", "abandoned"} /\ phase'[a] = NextPhase(phase[a])
          BY <2>2 DEF IoConnected
        <5>2. phase'[a] \notin {"free", "closing"}
          BY <5>1 DEF NextPhase
        <5> QED BY <5>2 DEF IoStops, IoDies, IoThrows
      <4>2. IoSocket(a)
        BY <2>2 DEF IoSocket
      <4> HIDE DEF Wanted
      <4> QED BY <4>1, <4>2, IoSocketStep
    <3> HIDE DEF Wanted
    <3> QED BY <3>1, <3>2
  <2> QED BY <1>8, <2>1, <2>2 DEF IoGoesOn
<1>9. CASE UNCHANGED all
  BY <1>9 DEF all, vars
<1>10. CASE NewQuote
  BY <1>10 DEF NewQuote, vars
<1> QED BY <1>1, <1>2, <1>3, <1>4, <1>5, <1>6, <1>7, <1>8, <1>9, <1>10 DEF FeedNext

\* BrokerAsset polls the cache only of a market that has a connection nobody
\* stopped, unless the io thread has ended that one during the call or was about
\* to release it when the call found it, with or without the force argument.
THEOREM PollingIsServed == FeedSpec => []AskedIsServed
<1>1. FeedInit => AskedInv
  BY DEF FeedInit, AskedInv
<1>2. AskedInv => AskedIsServed
  BY DEF AskedInv, AskedIsServed
<1> QED BY <1>1, <1>2, AskedKept, ClientInvHolds, PTL DEF FeedSpec

-----------------------------------------------------------------------------
\* Asked without force, the client never has two sockets of one market, stopped
\* ones included.
LEMMA OneSocketKept ==
    ASSUME Forces \subseteq {FALSE}, ClientInv, AllHeld, OneSocket, [FeedNext]_all
    PROVE  AllHeld' /\ OneSocket'
<1> USE DEF ClientInv, TypeOK, AllHeld, OneSocket, Live, Held, zorroVars, threadVars, socketVars
<1>1. ASSUME NEW s \in Streams, NEW force \in Forces, Ask(s, force)
      PROVE  AllHeld' /\ OneSocket'
  <2>1. zPc = "idle" /\ UNCHANGED <<phase, name, valid>> /\ zPc' \in {"idle", "start"}
    BY <1>1 DEF Ask, Subscribe
  <2> QED BY <2>1
<1>2. CASE ZorroGoesOn
  <2>1. ASSUME NEW h \in Addr, Start(h) PROVE AllHeld' /\ OneSocket'
    <3>1. Live' = Live \cup {h} /\ h \notin Live
      BY <2>1 DEF Start
    <3>2. \A a \in Live : name'[a] = name[a] /\ name[a] # stream
      BY <2>1, <3>1 DEF Start, SocketInv, StartInv
    <3>3. /\ name'[h] = stream /\ zPc = "start"
          /\ zPc' = "register" /\ handle' = h /\ valid' = valid
      BY <2>1 DEF Start
    <3>4. AllHeld'
      BY <3>1, <3>3
    <3>5. OneSocket'
      BY <3>1, <3>2, <3>3
    <3> QED BY <3>4, <3>5
  <2>2. CASE Register
    BY <2>2 DEF Register
  <2>3. CASE CheckRunning \/ Run \/ SetRunning \/ JoinAndSpawn
    BY <2>3 DEF CheckRunning, Run, SetRunning, JoinAndSpawn
  <2> QED BY <1>2, <2>1, <2>2, <2>3 DEF ZorroGoesOn, Zorro, Destroy
<1>3. CASE Logout
  <2>1. \A a \in Addr : phase'[a] = "free" <=> phase[a] = "free"
    BY <1>3 DEF Logout, UnsubscribeAll, Stopped
  <2> QED BY <1>3, <2>1 DEF Logout, UnsubscribeAll
<1>4. CASE LoggedOut
  BY <1>4 DEF LoggedOut, Destroy
<1>5. ASSUME NEW a \in Addr, IoSocket(a) PROVE AllHeld' /\ OneSocket'
  <2>1. /\ UNCHANGED <<zPc, handle, name>>
        /\ \/ Live' = Live /\ valid' = valid
           \/ Live' = Live \ {a} /\ valid' = valid \ {a}
    BY <1>5, IoSocketStep
  <2> HIDE DEF Live
  <2> QED BY <2>1
<1>6. CASE UNCHANGED <<zPc, handle, phase, name, valid>>
  BY <1>6
<1>7. ASSUME IoControl \/ IoStopped PROVE UNCHANGED <<zPc, handle, phase, name, valid>>
  BY <1>7 DEF IoControl, IoStart, IoRestart, IoCaught, IoReturns, IoClear, IoExit, IoStopped
<1> QED
  BY <1>1, <1>2, <1>3, <1>4, <1>5, <1>6, <1>7
  DEF FeedNext, IoSocket, all, vars, Read, Tick, Stops, Ends, IoGoesOn, NewQuote

LEMMA RisingEnds ==
    ASSUME NEW q \in Seq(Nat), Rising(q)
    PROVE  /\ \A n \in Nat : (\A i \in DOMAIN q : q[i] <= n) => Rising(Append(q, n))
           /\ q # <<>> => /\ Head(q) \in Nat /\ Tail(q) \in Seq(Nat) /\ Rising(Tail(q))
                          /\ \A i \in DOMAIN Tail(q) : \E j \in DOMAIN q : Tail(q)[i] = q[j]
                          /\ \A i \in DOMAIN Tail(q) : Head(q) <= Tail(q)[i]
<1>1. ASSUME NEW n \in Nat, \A i \in DOMAIN q : q[i] <= n
      PROVE  Rising(Append(q, n))
  BY <1>1, AppendProperties DEF Rising
<1>2. ASSUME q # <<>>
      PROVE  /\ Head(q) \in Nat /\ Tail(q) \in Seq(Nat) /\ Rising(Tail(q))
             /\ \A i \in DOMAIN Tail(q) : \E j \in DOMAIN q : Tail(q)[i] = q[j]
             /\ \A i \in DOMAIN Tail(q) : Head(q) <= Tail(q)[i]
  <2>1. /\ Head(q) \in Nat /\ Tail(q) \in Seq(Nat) /\ Head(q) = q[1] /\ 1 \in DOMAIN q
        /\ \A i \in DOMAIN q : i \in Nat /\ 1 <= i /\ q[i] \in Nat
    BY <1>2, HeadTailProperties
  <2>2. ASSUME NEW i \in DOMAIN Tail(q)
        PROVE  i \in Nat /\ 1 <= i /\ i + 1 \in DOMAIN q /\ Tail(q)[i] = q[i + 1]
    BY <1>2, HeadTailProperties
  <2>3. Rising(Tail(q))
    <3> SUFFICES ASSUME NEW i \in DOMAIN Tail(q), NEW j \in DOMAIN Tail(q), i < j
                 PROVE  Tail(q)[i] <= Tail(q)[j]
      BY DEF Rising
    <3>1. /\ i \in Nat /\ i + 1 \in DOMAIN q /\ Tail(q)[i] = q[i + 1]
          /\ j \in Nat /\ j + 1 \in DOMAIN q /\ Tail(q)[j] = q[j + 1]
      BY <2>2
    <3>2. i + 1 < j + 1
      BY <3>1
    <3> QED BY <3>1, <3>2 DEF Rising
  <2>4. ASSUME NEW i \in DOMAIN Tail(q) PROVE Head(q) <= Tail(q)[i]
    <3>1. i \in Nat /\ 1 <= i /\ i + 1 \in DOMAIN q /\ Tail(q)[i] = q[i + 1]
      BY <2>2
    <3>2. 1 < i + 1
      BY <3>1
    <3>3. q[1] <= q[i + 1]
      BY <2>1, <3>1, <3>2 DEF Rising
    <3> QED BY <2>1, <3>1, <3>3
  <2>5. ASSUME NEW i \in DOMAIN Tail(q) PROVE \E j \in DOMAIN q : Tail(q)[i] = q[j]
    BY <2>2
  <2> QED BY <2>1, <2>3, <2>4, <2>5
<1> QED BY <1>1, <1>2

\* What a quote on its way says is not disturbed by steps that leave the
\* connections that carry quotes where they are.
LEMMA CarryingKeeps ==
    ASSUME FeedTypes, FreshInv, UNCHANGED <<quote, wire, tickPrices, price>>,
           \A a \in Addr : Carrying(a) => Carrying(a)' /\ name'[a] = name[a]
    PROVE  FeedTypes' /\ FreshInv'
<1>1. FeedTypes'
  BY DEF FeedTypes
<1>2. \A a \in Addr : ~Carrying(a)' => wire[a] = <<>>
  BY DEF FreshInv
<1>3. ASSUME NEW a \in Addr, NEW i \in DOMAIN wire[a]
      PROVE  tickPrices[name'[a]] <= wire[a][i]
  <2>1. Carrying(a)
    BY <1>3 DEF FreshInv
  <2> QED BY <2>1 DEF FreshInv
<1> QED BY <1>1, <1>2, <1>3 DEF FreshInv

LEMMA TickKeeps ==
    ASSUME ClientInv, OneSocket, FeedTypes, FreshInv, NEW a \in Addr, Tick(a)
    PROVE  FeedTypes' /\ FreshInv'
<1> DEFINE q == wire[a]
           s == name[a]
<1>1. q \in Seq(Nat) /\ q # <<>> /\ s \in Streams /\ Carrying(a)
  BY DEF Tick, FeedTypes, ClientInv, TypeOK
<1>2. Rising(q) /\ Head(q) = q[1] /\ 1 \in DOMAIN q
  BY <1>1 DEF FreshInv
<1>3. /\ Head(q) \in Nat /\ Tail(q) \in Seq(Nat) /\ Rising(Tail(q))
      /\ \A i \in DOMAIN Tail(q) : \E j \in DOMAIN q : Tail(q)[i] = q[j]
      /\ \A i \in DOMAIN Tail(q) : Head(q) <= Tail(q)[i]
  BY <1>1, <1>2, RisingEnds
<1>4. /\ tickPrices' = [tickPrices EXCEPT ![s] = Head(q)]
      /\ wire' = [wire EXCEPT ![a] = Tail(q)]
      /\ UNCHANGED <<phase, name, quote, price>>
  BY DEF Tick, vars, reader
<1>5. tickPrices[s] <= Head(q) /\ Head(q) <= quote
  BY <1>2 DEF FreshInv
<1>6. FeedTypes'
  BY <1>1, <1>3, <1>4 DEF FeedTypes
<1>7. ASSUME NEW b \in Addr, b # a, NEW i \in DOMAIN wire[b]
      PROVE  name[b] # s
  <2>1. Carrying(b)
    BY <1>7 DEF FreshInv
  <2>2. a \in Live /\ b \in Live
    BY <1>1, <2>1 DEF Live, Carrying
  <2> QED BY <1>7, <2>2 DEF OneSocket
<1> HIDE DEF q, s
<1>8. \A b \in Addr : ~Carrying(b)' => wire'[b] = <<>>
  BY <1>1, <1>4 DEF FreshInv, Carrying, FeedTypes
<1>9. ASSUME NEW b \in Addr
      PROVE  /\ Rising(wire'[b])
             /\ \A i \in DOMAIN wire'[b] :
                   tickPrices'[name'[b]] <= wire'[b][i] /\ wire'[b][i] <= quote'
  <2>1. CASE b = a
    <3>1. wire'[b] = Tail(q) /\ name'[b] = s /\ tickPrices'[s] = Head(q) /\ quote' = quote
      BY <1>1, <1>4, <2>1 DEF FeedTypes, s
    <3>2. \A i \in DOMAIN Tail(q) : Tail(q)[i] <= quote
      BY <1>3 DEF FreshInv, q
    <3> QED BY <1>3, <3>1, <3>2
  <2>2. CASE b # a
    <3>1. wire'[b] = wire[b] /\ name'[b] = name[b] /\ quote' = quote
      BY <1>4, <2>2 DEF FeedTypes
    <3>2. ASSUME NEW i \in DOMAIN wire[b] PROVE tickPrices'[name[b]] = tickPrices[name[b]]
      <4>1. name[b] # s /\ name[b] \in Streams
        BY <1>7, <2>2 DEF ClientInv, TypeOK
      <4> QED BY <1>4, <4>1 DEF FeedTypes
    <3> QED BY <3>1, <3>2 DEF FreshInv
  <2> QED BY <2>1, <2>2
<1>10. \A t \in Streams : price'[t] <= tickPrices'[t] /\ tickPrices'[t] <= quote'
  BY <1>1, <1>3, <1>4, <1>5 DEF FreshInv, FeedTypes
<1> QED BY <1>6, <1>8, <1>9, <1>10 DEF FreshInv

LEMMA NewQuoteKeeps ==
    ASSUME ClientInv, FeedTypes, FreshInv, NewQuote
    PROVE  FeedTypes' /\ FreshInv'
<1>1. PICK on \in SUBSET {a \in Addr : Carrying(a)} :
          wire' = [a \in Addr |-> IF a \in on THEN Append(wire[a], quote') ELSE wire[a]]
  BY DEF NewQuote
<1>2. quote' = quote + 1 /\ quote' \in Nat /\ UNCHANGED <<phase, name, tickPrices, price>>
  BY DEF NewQuote, vars, reader, FeedTypes
<1>3. FeedTypes'
  BY <1>1, <1>2 DEF FeedTypes
<1>4. \A a \in Addr : ~Carrying(a)' => wire'[a] = <<>>
  BY <1>1, <1>2 DEF FreshInv, Carrying
<1>5. ASSUME NEW a \in Addr
      PROVE  /\ Rising(wire'[a])
             /\ \A i \in DOMAIN wire'[a] :
                   tickPrices'[name'[a]] <= wire'[a][i] /\ wire'[a][i] <= quote'
  <2>1. /\ wire[a] \in Seq(Nat) /\ Rising(wire[a]) /\ tickPrices[name[a]] \in Nat
        /\ \A i \in DOMAIN wire[a] : wire[a][i] \in Nat
        /\ tickPrices[name[a]] <= quote /\ quote \in Nat
    BY DEF FreshInv, FeedTypes, ClientInv, TypeOK
  <2>2. \A i \in DOMAIN wire[a] : wire[a][i] <= quote'
    BY <1>2, <2>1 DEF FreshInv
  <2>3. CASE a \in on
    <3>1. wire'[a] = Append(wire[a], quote')
      BY <1>1, <2>3
    <3>2. Rising(Append(wire[a], quote'))
      BY <1>2, <2>1, <2>2, RisingEnds
    <3>3. \A i \in DOMAIN wire'[a] : wire'[a][i] = quote' \/ \E j \in DOMAIN wire[a] : wire'[a][i] = wire[a][j]
      BY <1>2, <2>1, <3>1, AppendProperties
    <3> QED BY <1>2, <2>1, <2>2, <3>1, <3>2, <3>3 DEF FreshInv
  <2>4. CASE a \notin on
    BY <1>1, <1>2, <2>1, <2>2, <2>4 DEF FreshInv
  <2> QED BY <2>3, <2>4
<1>6. \A t \in Streams : price'[t] <= tickPrices'[t] /\ tickPrices'[t] <= quote'
  BY <1>2 DEF FreshInv, FeedTypes
<1> QED BY <1>3, <1>4, <1>5, <1>6 DEF FreshInv

\* The Zorro thread's and the io thread's steps that leave the cache alone.
LEMMA SocketStepsCarry ==
    ASSUME ClientInv, FeedTypes, FreshInv,
           \/ \E s \in Streams, force \in Forces : Ask(s, force)
           \/ ZorroGoesOn \/ Logout \/ IoGoesOn
           \/ \E a \in Addr : Stops(a)
    PROVE  FeedTypes' /\ FreshInv'
<1> USE DEF ClientInv, TypeOK, Carrying, zorroVars, threadVars, socketVars
<1>1. UNCHANGED <<quote, wire, tickPrices, price>>
  BY DEF Ask, ZorroGoesOn, Logout, IoGoesOn, Stops, feed, reader
<1>2. ASSUME NEW a \in Addr, Carrying(a)
      PROVE  Carrying(a)' /\ name'[a] = name[a]
  <2>1. ASSUME NEW s \in Streams, NEW force \in Forces, Ask(s, force)
        PROVE  Carrying(a)' /\ name'[a] = name[a]
    <3>1. UNCHANGED name
      BY <2>1 DEF Ask, Subscribe
    <3>2. phase' = phase \/ \E h \in Addr : phase' = [phase EXCEPT ![h] = Stopped(@)]
      BY <2>1 DEF Ask, Subscribe, Found
    <3> QED BY <1>2, <3>1, <3>2 DEF Stopped
  <2>2. CASE ZorroGoesOn
    BY <1>2, <2>2 DEF ZorroGoesOn, Zorro, Start, Register, CheckRunning, Run, SetRunning,
                      JoinAndSpawn, Destroy
  <2>3. CASE Logout
    BY <1>2, <2>3 DEF Logout, UnsubscribeAll, Stopped
  <2>4. CASE IoGoesOn
    BY <1>2, <2>4 DEF IoGoesOn, IoControl, IoStart, IoRestart, IoCaught, IoReturns, IoClear,
                      IoExit, IoStopped, IoConnected
  <2>5. ASSUME NEW b \in Addr, Stops(b) PROVE Carrying(a)' /\ name'[a] = name[a]
    BY <1>2, <2>5 DEF Stops, IoStops
  <2> QED BY <2>1, <2>2, <2>3, <2>4, <2>5
<1> HIDE DEF Carrying
<1> QED BY <1>1, <1>2, CarryingKeeps

LEMMA FreshKept ==
    ASSUME ClientInv, OneSocket, FeedTypes, FreshInv, [FeedNext]_all
    PROVE  FeedTypes' /\ FreshInv'
<1>1. ASSUME NEW a \in Addr, Ends(a) PROVE FeedTypes' /\ FreshInv'
  <2>1. /\ wire' = [wire EXCEPT ![a] = <<>>] /\ phase' = [phase EXCEPT ![a] = "free"]
        /\ UNCHANGED <<name, quote, tickPrices, price>>
    BY <1>1 DEF Ends, IoDies, IoThrows
  <2>2. FeedTypes'
    BY <2>1 DEF FeedTypes
  <2>3. ASSUME NEW b \in Addr
        PROVE  /\ ~Carrying(b)' => wire'[b] = <<>>
               /\ Rising(wire'[b])
               /\ \A i \in DOMAIN wire'[b] :
                     tickPrices'[name'[b]] <= wire'[b][i] /\ wire'[b][i] <= quote'
    <3>1. CASE b = a
      <4>1. wire'[b] = <<>>
        BY <2>1, <3>1 DEF FeedTypes
      <4> QED BY <4>1 DEF Rising
    <3>2. CASE b # a
      <4>1. wire'[b] = wire[b] /\ phase'[b] = phase[b]
        BY <2>1, <3>2 DEF FeedTypes, ClientInv, TypeOK
      <4> QED BY <2>1, <4>1 DEF FreshInv, Carrying
    <3> QED BY <3>1, <3>2
  <2> QED BY <2>1, <2>2, <2>3 DEF FreshInv
<1>2. CASE LoggedOut
  <2>1. wire' = [a \in Addr |-> <<>>] /\ UNCHANGED <<quote, tickPrices, price>>
    BY <1>2 DEF LoggedOut, reader
  <2> QED BY <2>1 DEF FeedTypes, FreshInv, Rising
<1>3. CASE Read
  <2>1. UNCHANGED <<vars, quote, wire, tickPrices>>
    BY <1>3 DEF Read
  <2>2. price' = price \/ price' = [price EXCEPT ![stream] = tickPrices[stream]]
    BY <1>3 DEF Read
  <2>3. FeedTypes' /\ \A t \in Streams : price'[t] <= tickPrices[t]
    <3>1. stream \in Streams /\ tickPrices[stream] \in Nat
      BY DEF FeedTypes, ClientInv, TypeOK
    <3>2. price' \in [Streams -> Nat]
      BY <2>2, <3>1 DEF FeedTypes
    <3>3. \A t \in Streams : price'[t] <= tickPrices[t]
      <4>1. \A t \in Streams : price[t] <= tickPrices[t]
        BY DEF FreshInv
      <4>2. ASSUME NEW t \in Streams
            PROVE  price'[t] = price[t] \/ (t = stream /\ price'[t] = tickPrices[t])
        BY <2>2 DEF FeedTypes
      <4> QED BY <3>1, <4>1, <4>2
    <3> QED BY <2>1, <3>2, <3>3 DEF FeedTypes
  <2> QED BY <2>1, <2>3 DEF FreshInv, vars, Carrying
<1>4. CASE UNCHANGED all
  BY <1>4 DEF all, feed, reader, vars, FeedTypes, FreshInv, Carrying
<1> QED
  BY <1>1, <1>2, <1>3, <1>4, SocketStepsCarry, TickKeeps, NewQuoteKeeps DEF FeedNext

\* The price Zorro sees of a market never goes back to an older quote, although
\* connections die and are replaced while quotes are on the way: BrokerAsset asks
\* without force, so no second connection of the market can deliver.
THEOREM PricesGoForward ==
    ASSUME Forces \subseteq {FALSE}
    PROVE  FeedSpec => PriceNeverGoesBack
<1> DEFINE I == AllHeld /\ OneSocket /\ FeedTypes /\ FreshInv
<1>1. FeedInit => I
  <2> SUFFICES ASSUME FeedInit PROVE I
    OBVIOUS
  <2>1. Live = {}
    BY DEF FeedInit, Init, Live
  <2>2. AllHeld /\ OneSocket
    BY <2>1 DEF AllHeld, OneSocket, Held
  <2>3. FeedTypes /\ FreshInv
    <3>1. TypeOK
      BY SocketInit DEF FeedInit
    <3> QED BY <3>1 DEF FeedInit, FeedTypes, FreshInv, Rising, TypeOK
  <2> QED BY <2>2, <2>3
<1>2. ClientInv /\ I /\ [FeedNext]_all => I'
  BY OneSocketKept, FreshKept
<1>3. ClientInv /\ I /\ [FeedNext]_all => [\A s \in Streams : price'[s] >= price[s]]_price
  <2> SUFFICES ASSUME ClientInv, FeedTypes, FreshInv, FeedNext, price' # price, NEW s \in Streams
               PROVE  price'[s] >= price[s]
    BY DEF all, feed, reader
  <2>1. price' = [price EXCEPT ![stream] = tickPrices[stream]]
    BY DEF FeedNext, Ask, Read, ZorroGoesOn, Logout, LoggedOut, Tick, Stops, Ends, IoGoesOn, NewQuote,
           feed, reader
  <2> QED BY <2>1 DEF FeedTypes, FreshInv, ClientInv, TypeOK
<1> QED BY <1>1, <1>2, <1>3, ClientInvHolds, PTL DEF FeedSpec, PriceNeverGoesBack
=============================================================================
