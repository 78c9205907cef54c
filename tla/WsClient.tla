------------------------------ MODULE WsClient ------------------------------
(***************************************************************************)
(* WebSocketClient (ftx_ws_client.cpp) as WSStreamManager drives it        *)
(* (ftx_ws_stream_manager.cpp): the map of sockets, the io thread and the  *)
(* flag by which the two threads agree on whether that thread is running.  *)
(*                                                                         *)
(* The Zorro thread subscribes streams and, at logout, destroys the        *)
(* client.  The io thread runs the io_context until it is out of work.     *)
(* Each labelled step below is one access to shared state.                 *)
(*                                                                         *)
(* A socket is an object at an address, and the map is keyed by address    *)
(* with weak pointers as values: an entry may outlive its object, and then *)
(* it keeps the address taken (object and control block are allocated as   *)
(* one).  What a socket does in detail is the matter of module WebSocket.  *)
(***************************************************************************)
EXTENDS Naturals, FiniteSets

CONSTANTS
    Streams,    \* stream names (a channel, or a channel and a market)
    Addr,       \* addresses the allocator hands out: the bound on live sockets
    Forces      \* values of the force argument the callers use

ASSUME ForcesAssumption == Forces \subseteq BOOLEAN

VARIABLES
    zPc,        \* where the Zorro thread is
    stream,     \* the stream it is subscribing
    handle,     \* the socket it has created
    ioPc,       \* where the io thread is; "none" before the first run()
    isRunning,  \* m_isRunning
    stopped,    \* m_ioContext.stopped()
    name,       \* name[a]: stream of the socket at a
    phase,      \* phase[a]: state of the socket at a
    map,        \* keys of m_map
    valid       \* keys whose weak_ptr can be locked

vars == <<zPc, stream, handle, ioPc, isRunning, stopped, name, phase, map, valid>>

zorroVars  == <<zPc, stream, handle>>
threadVars == <<ioPc, isRunning, stopped>>
socketVars == <<name, phase, map, valid>>

\* "connecting" lasts from start() to the end of the TLS handshake, "handshake"
\* is that of the WebSocket, "closing" a socket one of the threads has stopped.
\* "abandoned" and "ghost": asked to stop while connecting, which only sets the
\* flag; the socket goes on connecting and then delivers events as before.
Phases == {"free", "connecting", "handshake", "open", "closing", "abandoned", "ghost"}

TypeOK ==
    /\ zPc \in {"idle", "start", "register", "checkRunning", "run", "set",
                "join", "destroy", "gone"}
    /\ stream \in Streams
    /\ handle \in Addr
    /\ ioPc \in {"none", "start", "restart", "running", "closing", "caught",
                 "returned", "leaving", "exited"}
    /\ isRunning \in BOOLEAN
    /\ stopped \in BOOLEAN
    /\ name \in [Addr -> Streams]
    /\ phase \in [Addr -> Phases]
    /\ map \subseteq Addr
    /\ valid \subseteq map

Live   == {a \in Addr : phase[a] # "free"}
\* The sockets nobody asked to stop.
Wanted == {a \in Addr : phase[a] \in {"connecting", "handshake", "open"}}

Init ==
    /\ zPc = "idle"
    /\ stream \in Streams
    /\ handle \in Addr
    /\ ioPc = "none"
    /\ isRunning = FALSE
    /\ stopped = FALSE
    /\ name \in [Addr -> Streams]
    /\ phase = [a \in Addr |-> "free"]
    /\ map = {}
    /\ valid = {}

-----------------------------------------------------------------------------
(* Slips.  Each operator below is the definition it is named after with a   *)
(* plausible mistake in it; none is part of the specification.  They show   *)
(* that the properties at the end notice the mistake.                       *)

\* The weak pointer is taken from the shared one that start() has moved away.
RegisterMoved ==
    /\ zPc = "register"
    /\ zPc' = "checkRunning"
    /\ map' = valid \cup {handle}
    /\ UNCHANGED <<stream, handle, threadVars, name, phase, valid>>

\* The keys are erased and the weak pointers kept, and no socket is stopped.
UnsubscribeAllHalf ==
    /\ zPc = "idle"
    /\ zPc' = "destroy"
    /\ map' = {}
    /\ UNCHANGED <<stream, handle, threadVars, name, phase, valid>>

\* Line 270 is missing.
IoStartUnflagged ==
    /\ ioPc = "start"
    /\ ioPc' = "restart"
    /\ UNCHANGED <<isRunning, stopped, zorroVars, socketVars>>

\* The catch clause leaves the loop.
IoCaughtBreaks ==
    /\ ioPc = "caught"
    /\ ioPc' = "leaving"
    /\ stopped' = FALSE
    /\ UNCHANGED <<isRunning, zorroVars, socketVars>>

\* The break after run() is missing.
IoClearLoops ==
    /\ ioPc = "returned"
    /\ ioPc' = "start"
    /\ isRunning' = FALSE
    /\ UNCHANGED <<stopped, zorroVars, socketVars>>

-----------------------------------------------------------------------------
(* The Zorro thread: subscribing.                                          *)

\* WebSocket::stop() as the map's owner calls it on a socket.
Stopped(p) ==
    CASE p \in {"handshake", "open"} -> "closing"
      [] p = "connecting"            -> "abandoned"
      [] OTHER                       -> p

\* Slips of Found: names never match (composed differently on the two sides),
\* and entries that cannot be locked are found.
FoundNever(s) == {}
FoundDead(s) == {a \in map : name[a] = s}

\* findStream: the entries that can be locked and carry the name.
Found(s) == {a \in valid : name[a] = s}

\* subscribe...Stream(s, force): keep a stream that is found, or replace it.
Subscribe(s, force) ==
    /\ zPc = "idle"
    /\ Live # Addr
    /\ stream' = s
    /\ \/ /\ Found(s) = {}
          /\ zPc' = "start"
          /\ map' = valid
          /\ UNCHANGED <<phase, valid>>
       \/ /\ Found(s) # {} /\ ~force
          /\ map' = valid
          /\ UNCHANGED <<zPc, phase, valid>>
       \/ \E h \in Found(s) :
          /\ force
          /\ zPc' = "start"
          /\ phase' = [phase EXCEPT ![h] = Stopped(@)]
          /\ valid' = valid \ {h}
          /\ map' = valid'
    /\ UNCHANGED <<handle, threadVars, name>>

\* startChannel, first half: a new object, whose start() gives the io_context
\* its first work.  It gets an address that neither a live object nor an entry
\* of the map still holds.
Start(h) ==
    /\ zPc = "start" /\ phase[h] = "free" /\ h \notin map
    /\ zPc' = "register"
    /\ handle' = h
    /\ name' = [name EXCEPT ![h] = stream]
    /\ phase' = [phase EXCEPT ![h] = "connecting"]
    /\ UNCHANGED <<stream, threadVars, map, valid>>

\* startChannel, second half: removeDeadWebsockets, then emplace.  The io thread
\* has had the socket since start() and may have stopped or released it.
Register ==
    /\ zPc = "register"
    /\ zPc' = "checkRunning"
    /\ map' = valid \cup {handle}
    /\ valid' = IF phase[handle] = "free" THEN valid ELSE valid \cup {handle}
    /\ UNCHANGED <<stream, handle, threadVars, name, phase>>

\* The manager asks isRunning() before it calls run().
CheckRunning ==
    /\ zPc = "checkRunning"
    /\ zPc' = IF isRunning THEN "idle" ELSE "run"
    /\ UNCHANGED <<stream, handle, threadVars, socketVars>>

\* run() asks again ...
Run ==
    /\ zPc = "run"
    /\ zPc' = IF isRunning THEN "idle" ELSE "set"
    /\ UNCHANGED <<stream, handle, threadVars, socketVars>>

\* ... claims the flag ...
SetRunning ==
    /\ zPc = "set"
    /\ zPc' = "join"
    /\ isRunning' = TRUE
    /\ UNCHANGED <<stream, handle, ioPc, stopped, socketVars>>

\* ... waits for the previous thread to end and starts the next one.
JoinAndSpawn ==
    /\ zPc = "join" /\ ioPc \in {"none", "exited"}
    /\ zPc' = "idle"
    /\ ioPc' = "start"
    /\ UNCHANGED <<stream, handle, isRunning, stopped, socketVars>>

-----------------------------------------------------------------------------
(* The Zorro thread: logout.                                               *)

\* ~WSStreamManager: unsubscribeAll stops what can be locked, empties the map.
UnsubscribeAll ==
    /\ zPc = "idle"
    /\ zPc' = "destroy"
    /\ phase' = [a \in Addr |-> IF a \in valid THEN Stopped(phase[a]) ELSE phase[a]]
    /\ map' = {}
    /\ valid' = {}
    /\ UNCHANGED <<stream, handle, threadVars, name>>

\* ~WebSocketClient joins the io thread; the io_context then drops every
\* handler it still holds, and with them the sockets.
Destroy ==
    /\ zPc = "destroy" /\ ioPc \in {"none", "exited"}
    /\ zPc' = "gone"
    /\ phase' = [a \in Addr |-> "free"]
    /\ UNCHANGED <<stream, handle, threadVars, name, map, valid>>

-----------------------------------------------------------------------------
(* The io thread (the lambda of run()).                                    *)

IoStart ==
    /\ ioPc = "start"
    /\ ioPc' = "restart"
    /\ isRunning' = TRUE
    /\ UNCHANGED <<stopped, zorroVars, socketVars>>

\* A context that ran out of work is stopped, and run() would return at once.
IoRestart ==
    /\ ioPc = "restart"
    /\ ioPc' = "running"
    /\ stopped' = FALSE
    /\ UNCHANGED <<isRunning, zorroVars, socketVars>>

\* Handlers run only inside io_context::run().
Serving == ioPc = "running" /\ ~stopped

\* What a handshake that succeeds makes of a socket.  The flag of an abandoned
\* one is not looked at.
NextPhase(p) ==
    CASE p = "connecting" -> "handshake"
      [] p = "handshake"  -> "open"
      [] p = "abandoned"  -> "ghost"

IoConnected(a) ==
    /\ Serving /\ phase[a] \in {"connecting", "handshake", "abandoned"}
    /\ phase' = [phase EXCEPT ![a] = NextPhase(@)]
    /\ UNCHANGED <<zorroVars, threadVars, name, map, valid>>

\* A handler stops its own socket: a failed read or handshake, an event the
\* callback rejects, an expired ping.  The flag is set and the thread waits in
\* the close for the peer; all the while the map's entry can be locked.
IoStops(a) ==
    /\ Serving /\ phase[a] \in {"handshake", "open", "ghost", "closing"}
    /\ ioPc' = "closing"
    /\ phase' = [phase EXCEPT ![a] = "closing"]
    /\ UNCHANGED <<zorroVars, isRunning, stopped, name, map, valid>>

\* The close returns: the peer has answered or the connection is gone.
IoStopped ==
    /\ ioPc = "closing"
    /\ ioPc' = "running"
    /\ UNCHANGED <<zorroVars, isRunning, stopped, socketVars>>

\* The last handler that holds the socket is done, after it stopped the socket
\* or before the WebSocket handshake: the object goes and its map entry, if it
\* has one, can no longer be locked.
IoDies(a) ==
    /\ Serving /\ phase[a] \in {"connecting", "abandoned", "closing"}
    /\ phase' = [phase EXCEPT ![a] = "free"]
    /\ valid' = valid \ {a}
    /\ UNCHANGED <<zorroVars, threadVars, name, map>>

\* The handler of an open stream throws (a frame that is not JSON): the socket
\* goes with the handler, and the exception leaves io_context::run().
IoThrows(a) ==
    /\ Serving /\ phase[a] \in {"open", "closing", "ghost"}
    /\ ioPc' = "caught"
    /\ phase' = [phase EXCEPT ![a] = "free"]
    /\ valid' = valid \ {a}
    /\ UNCHANGED <<zorroVars, isRunning, stopped, name, map>>

\* The catch clause restarts the context and the loop runs it again.
IoCaught ==
    /\ ioPc = "caught"
    /\ ioPc' = "start"
    /\ stopped' = FALSE
    /\ UNCHANGED <<isRunning, zorroVars, socketVars>>

\* io_context::run() returns when no work is left.
IoReturns ==
    /\ ioPc = "running" /\ (stopped \/ Live = {})
    /\ ioPc' = "returned"
    /\ stopped' = TRUE
    /\ UNCHANGED <<isRunning, zorroVars, socketVars>>

IoClear ==
    /\ ioPc = "returned"
    /\ ioPc' = "leaving"
    /\ isRunning' = FALSE
    /\ UNCHANGED <<stopped, zorroVars, socketVars>>

IoExit ==
    /\ ioPc = "leaving"
    /\ ioPc' = "exited"
    /\ isRunning' = FALSE
    /\ UNCHANGED <<stopped, zorroVars, socketVars>>

-----------------------------------------------------------------------------
Subscribing == \E s \in Streams, force \in Forces : Subscribe(s, force)

Zorro ==
    \/ \E h \in Addr : Start(h)
    \/ Register \/ CheckRunning \/ Run \/ SetRunning \/ JoinAndSpawn
    \/ Destroy

IoControl == IoStart \/ IoRestart \/ IoCaught \/ IoReturns \/ IoClear \/ IoExit

IoSocket(a) == IoConnected(a) \/ IoStops(a) \/ IoDies(a) \/ IoThrows(a)

Io == IoControl \/ IoStopped \/ \E a \in Addr : IoSocket(a)

Next == Subscribing \/ UnsubscribeAll \/ Zorro \/ Io

\* Both threads keep going, and a socket that was stopped is released in the end
\* (CloseEnds of module WebSocket).  Zorro need never call again, nothing ends a
\* connection that both sides keep open, and no close need ever return: a peer
\* that has fallen silent keeps the io thread inside it.
Fairness ==
    /\ WF_vars(Zorro)
    /\ WF_vars(IoControl)
    /\ \A a \in Addr : SF_vars(phase[a] = "closing" /\ IoDies(a))

Spec == Init /\ [][Next]_vars /\ Fairness

-----------------------------------------------------------------------------
(* Properties.                                                             *)

\* A thread that is inside io_context::run() has the flag set, although the
\* thread before it cleared the flag twice and once after run() had claimed it
\* (lines 261, 275, 286), and its context is not left over as stopped.
ServingThread == ioPc = "running" => isRunning /\ ~stopped

\* Every socket nobody asked to stop can be found by findStream, although the
\* io thread works on a socket before the map has it and lets go of sockets at
\* any moment (start, removeDeadWebsockets, emplace, lines 167-173).
MapFindsWanted ==
    \A a \in Wanted : a \in valid \/ (zPc = "register" /\ a = handle)

\* At most one connection serves a stream, besides those asked to stop.
NoDuplicateStream ==
    \A a, b \in Wanted : name[a] = name[b] => a = b

\* An exception in one stream's handler does not end the io thread: it serves
\* the other streams again (lines 268-285).
ExceptionContained == ioPc = "caught" ~> ioPc = "running"

\* Logout's join ends (line 230) when every socket was past its TLS handshake
\* and no peer keeps the io thread in a close for ever.
LogoutEnds ==
    []<>(ioPc # "closing") =>
        ((zPc = "destroy" /\ \A a \in Live : phase[a] = "closing") ~> zPc = "gone")

\* The flag means what ftx_ws_client.h:66-67 says, "True if WebSocket IO
\* Context is running": when the manager has subscribed and gone on, there is
\* a thread for its sockets.
NoStrandedStream ==
    ~(zPc = "idle" /\ Wanted # {} /\ ioPc = "exited")
=============================================================================
