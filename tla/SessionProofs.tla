---------------------------- MODULE SessionProofs ----------------------------
(***************************************************************************)
(* Proofs about Session for every set of credentials, results and events.  *)
(*                                                                         *)
(* The invariants of the run follow from how the client, the stream manager *)
(* and the log come and go together (Together), from who may call what in   *)
(* between (Calling), and from RequestInv.  That figures are real needs the  *)
(* reading of a struct as well: a member is what the object had for it,     *)
(* or a default that no test takes for a figure.                           *)
(***************************************************************************)
EXTENDS Session, TLAPS

(***************************************************************************)
(* Requests: whatever makes them, each of their steps is one of RestCall or *)
(* none.                                                                   *)
(***************************************************************************)
\* What a program that makes requests does to their variables.
RequestStep ==
    \/ \E to \in Endpoints, by \in Keys : Ask(to, by)
    \/ ClientSteps
    \/ Drops
    \/ ExchangeSteps
    \/ UNCHANGED requestVars

Says == reply.status = "ok" /\ reply.body = "json"
        /\ ReadValue("bool", reply.top, "success") = "true"

\* The requests on the wire are different ones and not carried out yet; the one
\* under way is not on the wire before it is written; one whose reply says so, or
\* which returned, has been carried out.
WireInv ==
    /\ asked \in Nat
    /\ acts \in [1..MaxRequests -> {0, 1}]
    /\ asked <= MaxRequests
    /\ \A r \in wire : r.n \in 1..asked /\ acts[r.n] = 0
    /\ \A r, q \in wire : r.n = q.n => r = q
    /\ \A n \in 1..MaxRequests : n > asked => acts[n] = 0

StageInv ==
    /\ stage \in Stages \cup {"idle"}
    /\ outcome \in {"none", "returned", "threw"}
    /\ stage # "idle" => asked > 0
    /\ stage \in Stages \ {"read"} =>
           /\ reply = NoReply
           /\ acts[asked] = 0
           /\ \A r \in wire : r.n # asked
    /\ stage = "read" /\ reply # NoReply /\ Says => acts[asked] = 1
    /\ stage = "idle" /\ outcome = "returned" => asked > 0 /\ acts[asked] = 1

RequestInv == WireInv /\ StageInv

-----------------------------------------------------------------------------
\* No refusal says success in a way handleFTXResponse takes for it.
LEMMA RefusalsRefuse ==
    ASSUME reply' \in Refusals
    PROVE  ~Says'
<1> USE DEF Says, ReadValue, Absent, Accepted
<1>1. CASE reply' \in [status : {"error"}, body : {"json"},
                       top : {[success |-> "false"]}, result : {NoResult}]
  BY <1>1
<1>2. CASE reply' \in [status : {"ok"}, body : {"text"}, top : {<<>>}, result : {NoResult}]
  BY <1>2
<1>3. CASE reply' \in [status : {"ok"}, body : {"json"},
                       top : {<<>>} \cup [success : {"null", "false", "number"}],
                       result : {NoResult}]
  <2>1. CASE reply'.top = <<>>
    <3>1. "success" \notin DOMAIN reply'.top
      BY <2>1
    <3> QED BY <3>1
  <2>2. CASE reply'.top \in [success : {"null", "false", "number"}]
    <3>1. reply'.top["success"] \in {"null", "false", "number"}
      BY <2>2
    <3> QED BY <3>1
  <2> QED BY <1>3, <2>1, <2>2
<1> QED BY <1>1, <1>2, <1>3 DEF Refusals

LEMMA RequestInvInit == RequestInit => RequestInv
BY RequestAssumption
DEF RequestInit, RequestInv, WireInv, StageInv, Stages, RequestAssumption

\* Every step of a request keeps the two invariants.
LEMMA RequestInvStep ==
    ASSUME RequestInv, RequestStep
    PROVE  RequestInv'
<1> USE RequestAssumption DEF RequestAssumption, RequestInv, WireInv, StageInv, Stages, Says
<1>1. CASE \E to \in Endpoints, by \in Keys : Ask(to, by)
  BY <1>1 DEF Ask
<1>2. CASE Connects
  BY <1>2 DEF Connects
<1>3. CASE Writes
  <2>1. /\ stage = "write" /\ stage' = "read"
        /\ wire' = wire \cup {Signed} /\ Signed.n = asked
        /\ UNCHANGED <<asked, acts, reply, outcome>>
    BY <1>3 DEF Writes, Signed
  <2>2. WireInv'
    BY <2>1
  <2>3. StageInv'
    BY <2>1
  <2> QED BY <2>2, <2>3
<1>4. CASE Breaks
  <2>1. /\ stage' = "idle" /\ outcome' = "threw" /\ reply' = NoReply
        /\ UNCHANGED <<asked, acts>>
        /\ Signed.n = asked /\ stage # "idle"
    BY <1>4 DEF Breaks, Signed
  <2>2. wire' = wire \/ (stage = "write" /\ wire' = wire \cup {Signed})
    BY <1>4 DEF Breaks
  <2>3. WireInv'
    BY <2>1, <2>2
  <2>4. StageInv'
    BY <2>1
  <2> QED BY <2>3, <2>4
<1>5. CASE Reads
  BY <1>5 DEF Reads, CheckResponse, HandleFTXResponse
<1>6. CASE Drops
  BY <1>6 DEF Drops
<1>7. CASE ExchangeSteps
  <2>1. PICK r \in wire : ExchangeServes(r) \/ ExchangeRefuses(r)
    BY <1>7 DEF ExchangeSteps
  <2>2. /\ wire' = wire \ {r} /\ r.n \in 1..asked /\ r.n \in 1..MaxRequests
        /\ UNCHANGED <<stage, asked, outcome>>
    BY <2>1 DEF ExchangeServes, ExchangeRefuses
  <2>3. acts' = [acts EXCEPT ![r.n] = 1] \/ UNCHANGED acts
    BY <2>1, <2>2 DEF ExchangeServes, ExchangeRefuses
  <2>4. WireInv'
    BY <2>2, <2>3
  <2>5. stage = "read" /\ reply' # NoReply /\ Says' => acts'[asked] = 1
    <3>1. CASE UNCHANGED reply
      BY <2>2, <2>3, <3>1
    <3>2. CASE reply' \in Refusals
      BY <3>2, RefusalsRefuse
    <3>3. CASE ExchangeServes(r) /\ r.n = asked
      BY <2>2, <2>3, <3>3 DEF ExchangeServes
    <3> QED BY <2>1, <3>1, <3>2, <3>3 DEF ExchangeServes, ExchangeRefuses, Arrives
  <2>6. stage # "read" => UNCHANGED reply
    BY <2>1 DEF ExchangeServes, ExchangeRefuses, Arrives
  <2>7. StageInv'
    BY <2>2, <2>3, <2>5, <2>6
  <2> QED BY <2>4, <2>7
<1>8. CASE UNCHANGED requestVars
  BY <1>8 DEF requestVars
<1> QED
  BY <1>1, <1>2, <1>3, <1>4, <1>5, <1>6, <1>7, <1>8 DEF RequestStep, ClientSteps

-----------------------------------------------------------------------------
LEMMA CallInit == RequestInit => Call!Init
BY DEF RequestInit, Call!Init

\* Every step of a request is a step of the promise, or none.
LEMMA StepKeepsCall ==
    ASSUME RequestInv, RequestStep
    PROVE  [Call!Next]_(Call!vars)
<1> USE RequestAssumption
    DEF RequestAssumption, RequestInv, WireInv, StageInv, Stages, Says,
        Call!Next, Call!vars, Call!Ask, Call!Act, Call!Return, Call!Throw
<1>1. CASE \E to \in Endpoints, by \in Keys : Ask(to, by)
  BY <1>1 DEF Ask
<1>2. CASE Connects \/ Writes
  BY <1>2 DEF Connects, Writes
<1>3. CASE Breaks
  BY <1>3 DEF Breaks
<1>4. CASE Reads
  BY <1>4 DEF Reads, CheckResponse, HandleFTXResponse
<1>5. CASE Drops
  BY <1>5 DEF Drops
<1>6. CASE ExchangeSteps
  <2>1. PICK r \in wire : ExchangeServes(r) \/ ExchangeRefuses(r)
    BY <1>6 DEF ExchangeSteps
  <2>2. /\ r.n \in 1..asked /\ r.n \in 1..MaxRequests /\ acts[r.n] = 0
        /\ UNCHANGED <<stage, asked, outcome>>
    BY <2>1 DEF ExchangeServes, ExchangeRefuses
  <2>3. acts' = [acts EXCEPT ![r.n] = 1] \/ UNCHANGED acts
    BY <2>1, <2>2 DEF ExchangeServes, ExchangeRefuses
  <2> QED BY <2>2, <2>3
<1>7. CASE UNCHANGED requestVars
  BY <1>7 DEF requestVars
<1> QED
  BY <1>1, <1>2, <1>3, <1>4, <1>5, <1>6, <1>7 DEF RequestStep, ClientSteps
-----------------------------------------------------------------------------
(***************************************************************************)
(* The session.                                                            *)
(***************************************************************************)

\* The types of what belongs to the session itself.
SessionTypeOK ==
    /\ logger \in {"console", "file", "null"}
    /\ client \in Keys \cup {None}
    /\ http \in Keys \cup {None}
    /\ streams \in Keys \cup {None}
    /\ io \in BOOLEAN
    /\ at \in {"idle", "request", "quote", "joining", "dropping", "crashed"}
    /\ call \in Calls
    /\ ret \in {"none", "failure", "success", "escaped"}
    /\ lastLogin \in Keys \cup {None}
    /\ emptied \in BOOLEAN
    /\ opened \in BOOLEAN

\* Client, streams and log exist together, except in the middle of a logout and
\* after a login without credentials.
Together ==
    /\ client # None => logger = "file" /\ http = client /\ lastLogin = client
    /\ streams # None => client # None
    /\ io => client # None
    /\ client # None => streams # None \/ at \in {"joining", "dropping"}
    /\ at = "dropping" => ~io
    /\ at \in {"joining", "dropping"} => streams = None
    /\ at = "crashed" => client = None /\ logger = "null"
    /\ client = None /\ logger = "file" => emptied \/ at \in {"joining", "dropping"}
    /\ EscapesOnlyAfterEmpty

\* What a call in progress is.
Calling ==
    /\ at # "request" => stage = "idle"
    /\ at \in {"request", "quote"} => client # None
    /\ at = "request" => /\ call \in DOMAIN Endpoint
                         /\ request = [to |-> Endpoint[call], by |-> lastLogin]
    /\ at = "quote" => call = "quote"
    /\ at \in {"joining", "dropping"} => call = "logout"
    /\ at \notin {"idle", "crashed"} => ret = "none"
    /\ SuccessIsServed

SessionInv == SessionTypeOK /\ Together /\ Calling /\ RequestInv

-----------------------------------------------------------------------------
\* Every step of a session makes a step of its request, or none.
LEMMA StepIsRequestStep ==
    ASSUME SessionInv, [Next]_vars
    PROVE  RequestStep
<1> USE DEF SessionInv, RequestStep
<1>1. CASE Demo \/ LoginEscapes \/ LoginWithout \/ Logout \/ Joined \/ LogoutEnds
  BY <1>1 DEF Demo, LoginEscapes, LoginWithout, MakesLog, Logout, Joined, LogoutEnds
<1>2. CASE LoginEnds \/ AskFails \/ AssetEnds \/ AccountEnds \/ PositionEnds \/ CancelEnds
  BY <1>2 DEF LoginEnds, AskFails, AssetEnds, AccountEnds, PositionEnds, CancelEnds
<1>3. CASE \E k \in Keys : LoginFirst(k) \/ LoginAgain(k)
  BY <1>3 DEF LoginFirst, LoginAgain, MakesLog, SetCredentials, Asks, Endpoint, Endpoints
<1>4. CASE \E c \in Calls : NoClient(c) \/ AskExchange(c)
  <2>1. client # None => http \in Keys
    BY DEF SessionTypeOK, Together
  <2>2. \A c \in {"asset", "account", "position", "cancel"} : Endpoint[c] \in Endpoints
    BY DEF Endpoint, Endpoints
  <2> QED BY <1>4, <2>1, <2>2 DEF NoClient, AskExchange, Asks
<1>5. CASE PlainCommand \/ BrokerTime \/ Quote \/ QuoteEnds \/ \E e \in Events : EventArrives(e)
  BY <1>5 DEF PlainCommand, BrokerTime, Quote, QuoteEnds, EventArrives
<1>6. CASE Network
  BY <1>6 DEF Network
<1>7. CASE UNCHANGED vars
  BY <1>7 DEF vars
<1> QED
  BY <1>1, <1>2, <1>3, <1>4, <1>5, <1>6, <1>7 DEF Next

LEMMA SessionInvInit == Init => SessionInv
BY RequestInvInit, SessionAssumption
DEF Init, SessionInv, SessionTypeOK, Together, Calling, Calls, EscapesOnlyAfterEmpty,
    SuccessIsServed, RequestInit, Endpoint, SessionAssumption

\* Every step of every thread keeps the session's invariant.
LEMMA SessionInvStep ==
    ASSUME SessionInv, [Next]_vars
    PROVE  SessionInv'
<1> USE SessionAssumption
    DEF SessionAssumption, SessionTypeOK, Together, Calling, SuccessIsServed,
        EscapesOnlyAfterEmpty, Calls, logins, prices, history, Begins, Returns,
        LogsAndReturns
<1>1. RequestInv'
  BY StepIsRequestStep, RequestInvStep DEF SessionInv
<1>2. SessionTypeOK /\ Together /\ Calling
  BY DEF SessionInv
<1>3. DOMAIN Endpoint = {"login", "asset", "account", "position", "cancel"}
  BY DEF Endpoint
<1>4. CASE Demo \/ LoginEscapes \/ LoginWithout
  <2>1. CASE Demo
    BY <1>1, <1>2, <1>3, <2>1 DEF Demo, SessionInv, requestVars
  <2>2. CASE LoginEscapes
    BY <1>1, <1>2, <1>3, <2>2 DEF LoginEscapes, SessionInv, requestVars
  <2>3. CASE LoginWithout
    BY <1>1, <1>2, <1>3, <2>3 DEF LoginWithout, MakesLog, SessionInv, requestVars
  <2> QED BY <1>4, <2>1, <2>2, <2>3
<1>5. CASE \E k \in Keys : LoginFirst(k)
  BY <1>1, <1>2, <1>3, <1>5 DEF LoginFirst, MakesLog, SessionInv, Asks, Ask
<1>6. CASE \E k \in Keys : LoginAgain(k)
  BY <1>1, <1>2, <1>3, <1>6 DEF LoginAgain, SetCredentials, SessionInv, Asks, Ask
<1>7. CASE LoginEnds \/ AssetEnds \/ AccountEnds \/ PositionEnds \/ CancelEnds \/ AskFails
  <2>1. RequestInv
    BY DEF SessionInv
  <2>2. /\ at = "request" /\ stage = "idle" /\ UNCHANGED call
        /\ at' = "idle"
        /\ ret' \in {"success", "failure"}
        /\ ret' = "success" => outcome = "returned"
        /\ Drops
        /\ UNCHANGED <<logger, logins, prices, history>>
    BY <1>2, <1>7
    DEF LoginEnds, AssetEnds, AccountEnds, PositionEnds, CancelEnds, AskFails, Ended
  <2>3. UNCHANGED <<stage, request, asked, acts>>
    BY <2>2 DEF Drops
  <2>4. outcome = "returned" => acts[asked] = 1
    BY <2>1, <2>2 DEF RequestInv, StageInv
  <2> QED BY <1>1, <1>2, <1>3, <2>2, <2>3, <2>4 DEF SessionInv
<1>8. CASE Logout \/ Joined \/ LogoutEnds
  <2>1. CASE Logout
    BY <1>1, <1>2, <1>3, <2>1 DEF Logout, SessionInv, requestVars
  <2>2. CASE Joined
    BY <1>1, <1>2, <1>3, <2>2 DEF Joined, SessionInv, requestVars
  <2>3. CASE LogoutEnds
    BY <1>1, <1>2, <1>3, <2>3 DEF LogoutEnds, SessionInv, requestVars
  <2> QED BY <1>8, <2>1, <2>2, <2>3
<1>9. CASE \E c \in Calls : NoClient(c)
  BY <1>1, <1>2, <1>3, <1>9 DEF NoClient, SessionInv, requestVars
<1>10. CASE \E c \in Calls : AskExchange(c)
  BY <1>1, <1>2, <1>3, <1>10 DEF AskExchange, SessionInv, Asks, Ask
<1>11. CASE PlainCommand \/ BrokerTime \/ Quote \/ QuoteEnds
  <2>1. CASE BrokerTime
    BY <1>1, <1>2, <1>3, <2>1 DEF BrokerTime, SessionInv, requestVars
  <2>2. CASE Quote
    BY <1>1, <1>2, <1>3, <2>2 DEF Quote, SessionInv, requestVars
  <2>3. CASE QuoteEnds
    BY <1>1, <1>2, <1>3, <2>3 DEF QuoteEnds, SessionInv, requestVars
  <2>4. CASE PlainCommand
    BY <1>1, <1>2, <1>3, <2>4 DEF PlainCommand, SessionInv, requestVars
  <2> QED BY <1>11, <2>1, <2>2, <2>3, <2>4
<1>12. CASE \E e \in Events : EventArrives(e)
  BY <1>1, <1>2, <1>3, <1>12 DEF EventArrives, SessionInv, requestVars
<1>13. CASE Network /\ at # "crashed" /\ ClientSteps
  <2>1. UNCHANGED sessionVars /\ UNCHANGED <<request, asked, acts>> /\ stage # "idle"
    BY <1>13 DEF Network, ClientSteps, Connects, Writes, Breaks, Reads, Stages
  <2> QED BY <1>1, <1>2, <1>3, <2>1 DEF SessionInv, sessionVars
<1>14. CASE Network /\ ExchangeSteps
  <2>1. PICK r \in wire : ExchangeServes(r) \/ ExchangeRefuses(r)
    BY <1>14 DEF ExchangeSteps
  <2>2. RequestInv
    BY DEF SessionInv
  <2>3. /\ acts[r.n] = 0 /\ r.n \in 1..MaxRequests /\ asked \in 1..MaxRequests
        /\ acts \in [1..MaxRequests -> {0, 1}]
    BY <2>2, RequestAssumption DEF RequestInv, WireInv, RequestAssumption
  <2>4. acts[asked] = 1 => acts'[asked] = 1
    <3>1. CASE acts' = [acts EXCEPT ![r.n] = @ + 1]
      BY <2>3, <3>1
    <3>2. CASE UNCHANGED acts
      BY <3>2
    <3> QED BY <2>1, <3>1, <3>2 DEF ExchangeServes, ExchangeRefuses
  <2>5. UNCHANGED <<stage, request, asked>>
    BY <2>1 DEF ExchangeServes, ExchangeRefuses
  <2>6. UNCHANGED sessionVars
    BY <1>14 DEF Network
  <2> QED BY <1>1, <1>2, <1>3, <2>4, <2>5, <2>6 DEF SessionInv, sessionVars
<1>15. CASE UNCHANGED vars
  BY <1>1, <1>2, <1>15 DEF vars, SessionInv, requestVars
<1> QED
  BY <1>4, <1>5, <1>6, <1>7, <1>8, <1>9, <1>10, <1>11, <1>12, <1>13, <1>14, <1>15
  DEF Next, Network

LEMMA SessionInvHolds == Spec => []SessionInv
<1> QED BY SessionInvInit, SessionInvStep, PTL DEF Spec

-----------------------------------------------------------------------------
\* The session's variables keep their types.
THEOREM TypeCorrect == Spec => []SessionTypeOK
<1>1. SessionInv => SessionTypeOK
  BY DEF SessionInv
<1> QED BY <1>1, SessionInvHolds, PTL

\* The session implements RestCall: no login, logout, or broken connection
\* has a request carried out twice, or returns one that was not.
THEOREM CallsAreKept == Spec => KeepsCall
<1>1. Init => Call!Init
  BY CallInit DEF Init
<1>2. SessionInv /\ [Next]_vars => [Call!Next]_(Call!vars)
  BY StepIsRequestStep, StepKeepsCall DEF SessionInv
<1> QED BY <1>1, <1>2, SessionInvHolds, PTL DEF Spec, KeepsCall, Call!Spec

\* A call that reports success had its own request carried out, signed with the
\* credentials of the last login.
THEOREM SuccessesAreServed == Spec => []SuccessIsServed
<1>1. SessionInv => SuccessIsServed
  BY DEF SessionInv, Calling
<1> QED BY <1>1, SessionInvHolds, PTL

\* The io thread never meets a log that is gone.
THEOREM IoThreadLogs == Spec => []IoThreadCanLog
<1>1. SessionInv => IoThreadCanLog
  BY DEF SessionInv, Together, IoThreadCanLog
<1> QED BY <1>1, SessionInvHolds, PTL

\* What kills the plugin is a call that logs after the logout, and nothing else.
THEOREM NobodyDiesLoggedIn == Spec => []DiesOnlyLoggedOut
<1>1. SessionInv => DiesOnlyLoggedOut
  BY DEF SessionInv, Together, DiesOnlyLoggedOut
<1> QED BY <1>1, SessionInvHolds, PTL

\* A login escapes to Zorro only after one without credentials or when the log file
\* cannot be opened.
THEOREM EscapesAreEmpty == Spec => []EscapesOnlyAfterEmpty
<1>1. SessionInv => EscapesOnlyAfterEmpty
  BY DEF SessionInv, Together
<1> QED BY <1>1, SessionInvHolds, PTL

-----------------------------------------------------------------------------
(* Figures.  What a struct holds and is neither a default nor unreadable    *)
(* was in the object; a double other than zero was a number there.         *)

Read(v) == v \notin {"default", "throws"}

LEMMA ReadIsThere ==
    ASSUME NEW table, NEW json, NEW key \in Members(table), Read(FromJson(table, json)[key])
    PROVE  key \in DOMAIN json /\ json[key] = FromJson(table, json)[key]
<1> DEFINE type == CHOOSE t \in DOMAIN table \ {"enum"} : key \in table[t]
<1>1. FromJson(table, json)[key] \in {ReadEnum(json, key), ReadValue(type, json, key)}
  BY DEF FromJson
<1> HIDE DEF type
<1> QED BY <1>1 DEF Read, ReadEnum, ReadValue, Absent

\* The prices are doubles in both structs that have them.
LEMMA PriceIsNumber ==
    ASSUME NEW table \in {MarketTable, TickerDataTable}, NEW json,
           ~Throws(FromJson(table, json)),
           ~IsZero(FromJson(table, json)["ask"], FromJson(table, json)["bid"])
    PROVE  Priced(json)
<1> SUFFICES ASSUME NEW key \in {"ask", "bid"}
             PROVE  key \in DOMAIN json /\ json[key] = "number"
  BY DEF Priced
<1> DEFINE type == CHOOSE t \in DOMAIN table \ {"enum"} : key \in table[t]
<1>1. key \in Members(table)
  BY DEF Members, MarketTable, TickerDataTable
<1>2. Read(FromJson(table, json)[key]) /\ FromJson(table, json)[key] # "zero"
  <2>1. DOMAIN FromJson(table, json) = Members(table)
    BY DEF FromJson
  <2> QED BY <1>1, <2>1 DEF Throws, IsZero, Read
<1>3. type = "double"
  <2>1. /\ "double" \in DOMAIN table \ {"enum"} /\ key \in table["double"]
        /\ \A t \in DOMAIN table \ {"enum"} : key \in table[t] => t = "double"
    BY DEF MarketTable, TickerDataTable
  <2> QED BY <2>1
<1>4. "enum" \in DOMAIN table => key \notin table["enum"]
  BY DEF MarketTable, TickerDataTable
<1>5. FromJson(table, json)[key] = ReadValue("double", json, key)
  BY <1>1, <1>3, <1>4 DEF FromJson
<1>6. FromJson(table, json)[key] \in {"default", "throws", "zero", "number"}
  BY <1>5 DEF ReadValue, Accepted
<1> QED BY <1>1, <1>2, <1>6, ReadIsThere DEF Read

\* What the calls look at is what the last message said.
Reading ==
    /\ at = "request" /\ stage = "idle" /\ outcome = "returned" =>
           /\ answer = ResultFromJson(request.to, reply.result)
           /\ ~ResultThrows(request.to, reply.result)
    /\ tick = FromJson(TickerDataTable, source)
    /\ ~Throws(tick)

LEMMA ReadingInit == Init => Reading
<1> SUFFICES ASSUME Init PROVE Reading
  OBVIOUS
<1>1. tick = FromJson(TickerDataTable, <<>>) /\ source = <<>> /\ at = "idle"
  BY DEF Init, NoTick
<1>2. \A key \in Members(TickerDataTable) :
          FromJson(TickerDataTable, <<>>)[key] = "default"
  BY DEF FromJson, ReadValue, ReadEnum, Absent
<1>3. DOMAIN FromJson(TickerDataTable, <<>>) = Members(TickerDataTable)
  BY DEF FromJson
<1> QED BY <1>1, <1>2, <1>3 DEF Reading, Throws

LEMMA ReadingStep ==
    ASSUME SessionInv, Reading, [Next]_vars
    PROVE  Reading'
<1> USE DEF Reading, Begins, Returns, LogsAndReturns, logins, prices, history, requestVars
<1>1. CASE Demo \/ LoginEscapes \/ LoginWithout \/ Logout \/ LogoutEnds
  BY <1>1 DEF Demo, LoginEscapes, LoginWithout, Logout, LogoutEnds
<1>2. CASE LoginEnds \/ AskFails \/ AssetEnds \/ AccountEnds \/ PositionEnds \/ CancelEnds
  <2>1. at' \in {"idle", "crashed"} /\ UNCHANGED prices
    BY <1>2
    DEF LoginEnds, AskFails, AssetEnds, AccountEnds, PositionEnds, CancelEnds, Ended
  <2> QED BY <2>1
<1>3. CASE \E k \in Keys : LoginFirst(k) \/ LoginAgain(k)
  <2>1. stage' = "resolve" /\ UNCHANGED prices
    BY <1>3 DEF LoginFirst, LoginAgain, Asks, Ask
  <2> QED BY <2>1
<1>4. CASE \E c \in Calls : NoClient(c) \/ AskExchange(c)
  <2>1. (stage' = "resolve" \/ at' \in {"idle", "crashed"}) /\ UNCHANGED prices
    BY <1>4 DEF NoClient, AskExchange, Asks, Ask
  <2> QED BY <2>1
<1>5. CASE PlainCommand \/ BrokerTime \/ Quote \/ QuoteEnds
  <2>1. at' # "request" /\ UNCHANGED <<tick, source>>
    BY <1>5 DEF PlainCommand, BrokerTime, Quote, QuoteEnds
  <2> QED BY <2>1
<1>6. CASE Joined
  <2>1. at' = "dropping" /\ tick' = FromJson(TickerDataTable, <<>>) /\ source' = <<>>
    BY <1>6 DEF Joined, NoTick
  <2>2. ~Throws(FromJson(TickerDataTable, <<>>))
    BY DEF FromJson, ReadValue, ReadEnum, Absent, Throws
  <2> QED BY <2>1, <2>2
<1>7. CASE \E e \in Events : EventArrives(e)
  <2>1. PICK e \in Events : EventArrives(e)
    BY <1>7
  <2>2. CASE Prices(e)
    <3>1. EventData(e) = FromJson(TickerDataTable, e.data) /\ ~Throws(EventData(e))
      BY <2>2 DEF Prices, HasPrice, EventData, EventThrows
    <3>2. tick' = EventData(e) /\ source' = e.data /\ UNCHANGED <<at, requestVars>>
      BY <2>1, <2>2 DEF EventArrives, Prices
    <3> QED BY <3>1, <3>2
  <2>3. CASE ~Prices(e)
    BY <2>1, <2>3 DEF EventArrives
  <2> QED BY <2>2, <2>3
<1>8. CASE Network
  <2>1. UNCHANGED <<at, tick, source>>
    BY <1>8 DEF Network, sessionVars
  <2>2. CASE Connects \/ Writes \/ Breaks
    BY <2>1, <2>2 DEF Connects, Writes, Breaks
  <2>3. CASE Reads
    <3>1. CASE outcome' = "returned"
      <4>1. /\ answer' = ResultFromJson(request.to, reply.result)
            /\ ~ResultThrows(request.to, reply.result)
            /\ UNCHANGED <<request, reply>>
        BY <2>3, <3>1 DEF Reads, HandleFTXResponse
      <4> QED BY <2>1, <4>1
    <3>2. CASE outcome' # "returned"
      BY <2>1, <3>2
    <3> QED BY <3>1, <3>2
  <2>4. CASE ExchangeSteps
    <3>1. UNCHANGED <<stage, request, answer, outcome>> /\ (stage = "idle" => UNCHANGED reply)
      BY <2>4 DEF ExchangeSteps, ExchangeServes, ExchangeRefuses, Arrives
    <3> QED BY <2>1, <3>1
  <2> QED BY <1>8, <2>2, <2>3, <2>4 DEF Network, ClientSteps
<1>9. CASE UNCHANGED vars
  BY <1>9 DEF vars
<1> QED
  BY <1>1, <1>2, <1>3, <1>4, <1>5, <1>6, <1>7, <1>8, <1>9 DEF Next

\* No figure that BrokerAsset or GET_POSITION hands to Zorro as a success is the
\* default of a struct whose member the exchange left out.
THEOREM FiguresAreTheExchanges == Spec => FiguresAreReal
<1> DEFINE Ends == at # "idle" /\ at' = "idle" /\ ret' = "success"
           Figures ==
               /\ call = "asset" => Priced(reply.result.members)
               /\ call = "quote" => Priced(source)
               /\ call = "position" =>
                      \E i \in DOMAIN reply.result.list :
                          LET position == reply.result.list[i]
                          IN  /\ "future" \in DOMAIN position /\ position["future"] = "word"
                              /\ "openSize" \in DOMAIN position
                              /\ position["openSize"] = "number"
<1>1. ASSUME SessionInv, Reading, [Next]_vars, Ends PROVE Figures
  <2> USE DEF Begins, Returns, LogsAndReturns
  <2>1. CASE AssetEnds
    <3>1. /\ call = "asset" /\ at = "request" /\ stage = "idle" /\ outcome = "returned"
          /\ ~IsZero(answer.object["ask"], answer.object["bid"])
      BY <1>1, <2>1 DEF AssetEnds, Ended
    <3>2. request.to = "market"
      BY <1>1, <3>1 DEF SessionInv, Calling, Endpoint
    <3>3. /\ answer.object = FromJson(MarketTable, reply.result.members)
          /\ ~Throws(answer.object)
      BY <1>1, <3>1, <3>2 DEF Reading, ResultFromJson, ResultThrows
    <3>4. Priced(reply.result.members)
      BY <3>1, <3>3, PriceIsNumber
    <3> QED BY <3>1, <3>4
  <2>2. CASE QuoteEnds
    <3>1. call = "quote" /\ ~IsZero(tick["ask"], tick["bid"])
      BY <1>1, <2>2 DEF QuoteEnds, SessionInv, Calling
    <3>2. tick = FromJson(TickerDataTable, source) /\ ~Throws(tick)
      BY <1>1 DEF Reading
    <3>3. Priced(source)
      BY <3>1, <3>2, PriceIsNumber
    <3> QED BY <3>1, <3>3
  <2>3. CASE PositionEnds
    <3>1. /\ call = "position" /\ at = "request" /\ stage = "idle" /\ outcome = "returned"
      BY <2>3 DEF PositionEnds, Ended
    <3>2. PICK i \in Found : answer.list[i]["openSize"] = "number"
      BY <1>1, <2>3 DEF PositionEnds
    <3>3. answer.list = PositionsFromJson(reply.result.list)
      <4>1. request.to = "positions"
        BY <1>1, <3>1 DEF SessionInv, Calling, Endpoint
      <4> QED BY <1>1, <3>1, <4>1 DEF Reading, ResultFromJson
    <3>4. /\ i \in DOMAIN reply.result.list
          /\ answer.list[i] = FromJson(PositionTable, reply.result.list[i])
          /\ answer.list[i]["future"] = "word"
      BY <3>2, <3>3 DEF Found, PositionsFromJson
    <3>5. {"future", "openSize"} \subseteq Members(PositionTable)
      BY DEF Members, PositionTable
    <3>6. \A key \in {"future", "openSize"} :
              /\ key \in DOMAIN reply.result.list[i]
              /\ reply.result.list[i][key] = answer.list[i][key]
      BY <3>2, <3>4, <3>5, ReadIsThere DEF Read
    <3> QED BY <3>1, <3>2, <3>4, <3>6
  <2>4. CASE LoginEnds \/ AccountEnds \/ CancelEnds
    BY <2>4 DEF LoginEnds, AccountEnds, CancelEnds, Ended
  <2>5. CASE LogoutEnds
    BY <1>1, <2>5 DEF LogoutEnds, SessionInv, Calling
  <2>6. ~AskFails
    BY <1>1 DEF AskFails
  <2>7. /\ ~(Demo \/ LoginEscapes \/ LoginWithout \/ Logout \/ Joined)
        /\ ~(PlainCommand \/ BrokerTime \/ Quote)
    BY <1>1
    DEF Demo, LoginEscapes, LoginWithout, Logout, Joined, PlainCommand, BrokerTime, Quote
  <2>8. /\ ~\E k \in Keys : LoginFirst(k) \/ LoginAgain(k)
        /\ ~\E c \in Calls : NoClient(c) \/ AskExchange(c)
    BY <1>1 DEF LoginFirst, LoginAgain, NoClient, AskExchange
  <2>9. ~\E e \in Events : EventArrives(e)
    BY <1>1 DEF EventArrives
  <2>10. ~Network
    BY <1>1 DEF Network, sessionVars
  <2>11. ~UNCHANGED vars
    BY <1>1 DEF vars
  <2> QED
    BY <1>1, <2>1, <2>2, <2>3, <2>4, <2>5, <2>6, <2>7, <2>8, <2>9, <2>10, <2>11 DEF Next
<1>2. SessionInv /\ Reading /\ [Next]_vars => [Ends => Figures]_vars
  BY <1>1
<1>3. SessionInv /\ Reading /\ [Next]_vars => Reading'
  BY ReadingStep
<1> QED BY <1>2, <1>3, SessionInvHolds, ReadingInit, PTL DEF Spec, FiguresAreReal
=============================================================================
