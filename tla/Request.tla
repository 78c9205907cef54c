------------------------------- MODULE Request -------------------------------
(***************************************************************************)
(* One blocking HTTPS request: HTTPSession::P::request and what RESTClient  *)
(* makes of the response (checkResponse, handleFTXResponse).               *)
(*                                                                         *)
(* A request goes through resolve, connect, handshake, write and read on a  *)
(* connection of its own, and any of them may throw.  A request that has    *)
(* been written is on the wire, and the exchange may act on it although     *)
(* nobody waits for its reply any more.  None of the stages has a timeout.  *)
(***************************************************************************)
EXTENDS Models

CONSTANTS
    Keys,           \* credentials: key, secret and sub-account together
    Known,          \* those the exchange accepts
    Results,        \* by endpoint, the "result" values the exchange may send
    MaxRequests     \* bound on the requests of a behaviour

Endpoints == {"account", "market", "positions", "cancel"}
Public    == {"market"}

ASSUME RequestAssumption ==
    /\ Known \subseteq Keys
    /\ DOMAIN Results = Endpoints
    /\ MaxRequests \in Nat

VARIABLES
    stage,      \* "idle" or where the request is
    request,    \* its endpoint and the credentials it is signed with
    asked,      \* requests made so far, and so the number of this one
    wire,       \* requests written and not yet seen by the exchange
    acts,       \* by request: how often the exchange carried it out
    reply,      \* the exchange's answer on this request's connection
    answer,     \* the value it returned
    outcome     \* how the last one ended: "none", "returned", "threw"

requestVars == <<stage, request, asked, wire, acts, reply, answer, outcome>>

Stages  == {"resolve", "connect", "handshake", "write", "read"}
NoRequest == [to |-> "none"]
NoReply == [status |-> "none"]
NoAnswer == [object |-> FromJson(Nothing, <<>>), list |-> <<>>]

RequestInit ==
    /\ stage = "idle"
    /\ request = NoRequest
    /\ asked = 0
    /\ wire = {}
    /\ acts = [n \in 1..MaxRequests |-> 0]
    /\ reply = NoReply
    /\ answer = NoAnswer
    /\ outcome = "none"

-----------------------------------------------------------------------------
(* The client's side.                                                      *)

Ask(to, by) ==
    /\ stage = "idle"
    /\ asked < MaxRequests
    /\ stage' = "resolve"
    /\ request' = [to |-> to, by |-> by]
    /\ asked' = asked + 1
    /\ reply' = NoReply
    /\ outcome' = "none"
    /\ UNCHANGED <<wire, acts, answer>>

\* A stage of the connection succeeds.
Connects ==
    /\ \/ stage = "resolve" /\ stage' = "connect"
       \/ stage = "connect" /\ stage' = "handshake"
       \/ stage = "handshake" /\ stage' = "write"
    /\ UNCHANGED <<request, asked, wire, acts, reply, answer, outcome>>

\* The request as authenticate() signs it.
Signed == [n |-> asked, to |-> request.to, by |-> request.by]

Writes ==
    /\ stage = "write"
    /\ stage' = "read"
    /\ wire' = wire \cup {Signed}
    /\ UNCHANGED <<request, asked, acts, reply, answer, outcome>>

\* A slip of Breaks: a broken connection is tried again.
BreaksAndRetries ==
    /\ stage \in Stages
    /\ wire' \in {wire} \cup (IF stage = "write" THEN {wire \cup {Signed}} ELSE {})
    /\ stage' = "resolve"
    /\ reply' = NoReply
    /\ UNCHANGED <<request, asked, acts, answer, outcome>>

\* A network error throws.  One met while writing leaves open whether the
\* exchange gets the request, one met while reading whether it acts.
Breaks ==
    /\ stage \in Stages
    /\ wire' \in {wire} \cup (IF stage = "write" THEN {wire \cup {Signed}} ELSE {})
    /\ stage' = "idle"
    /\ reply' = NoReply
    /\ outcome' = "threw"
    /\ UNCHANGED <<request, asked, acts, answer>>

\* What fromJson makes of a result.
ResultFromJson(to, result) ==
    [object |-> FromJson(CASE to = "account" -> AccountTable
                           [] to = "market"  -> MarketTable
                           [] OTHER          -> Nothing, result.members),
     list   |-> IF to \in {"account", "positions"}
                THEN PositionsFromJson(result.list) ELSE <<>>]

\* It throws for an unreadable member at any depth, and Account::fromJson for a
\* result that is no object (it indexes it).
ResultThrows(to, result) ==
    LET value == ResultFromJson(to, result)
    IN  \/ Throws(value.object)
        \/ \E i \in DOMAIN value.list : Throws(value.list[i])
        \/ to = "account" /\ ~result.object

\* checkResponse throws unless the status is 200.
CheckResponse == reply.status = "ok"

\* handleFTXResponse throws unless the body is JSON, says success and can be read.
HandleFTXResponse ==
    /\ reply.body = "json"
    /\ ReadValue("bool", reply.top, "success") = "true"
    /\ ~ResultThrows(request.to, reply.result)

\* The response is there: the request returns its value or throws.
Reads ==
    /\ stage = "read"
    /\ reply # NoReply
    /\ stage' = "idle"
    /\ \/ /\ CheckResponse /\ HandleFTXResponse
          /\ outcome' = "returned"
          /\ answer' = ResultFromJson(request.to, reply.result)
       \/ /\ ~(CheckResponse /\ HandleFTXResponse)
          /\ outcome' = "threw"
          /\ UNCHANGED answer
    /\ UNCHANGED <<request, asked, wire, acts, reply>>

\* The call that made the request ends, and response and value with it.
Drops ==
    /\ reply' = NoReply
    /\ answer' = NoAnswer
    /\ UNCHANGED <<stage, request, asked, wire, acts, outcome>>

-----------------------------------------------------------------------------
(* The exchange and the network.                                           *)

NoResult == [object |-> FALSE, members |-> <<>>, list |-> <<>>]

Replies(result) ==
    {[status |-> "ok", body |-> "json", top |-> [success |-> "true"], result |-> result]}

\* A refusal says so in the status, in the body, or in no way the client can read.
Refusals ==
    [status : {"error"}, body : {"json"}, top : {[success |-> "false"]}, result : {NoResult}]
    \cup [status : {"ok"}, body : {"text"}, top : {<<>>}, result : {NoResult}]
    \cup [status : {"ok"}, body : {"json"},
          top : {<<>>} \cup [success : {"null", "false", "number"}], result : {NoResult}]

\* Whoever waits on the request's connection gets the reply, others get nothing.
Arrives(r, replies) ==
    IF stage = "read" /\ r.n = asked THEN reply' \in replies ELSE UNCHANGED reply

\* The exchange carries a request out; a gateway may spoil the reply.
ExchangeServes(r) ==
    /\ r \in wire
    /\ r.to \in Public \/ r.by \in Known
    /\ wire' = wire \ {r}
    /\ acts' = [acts EXCEPT ![r.n] = @ + 1]
    /\ \/ \E result \in Results[r.to] : Arrives(r, Replies(result))
       \/ Arrives(r, Refusals)
    /\ UNCHANGED <<stage, request, asked, answer, outcome>>

ExchangeRefuses(r) ==
    /\ r \in wire
    /\ wire' = wire \ {r}
    /\ Arrives(r, Refusals)
    /\ UNCHANGED <<stage, request, asked, acts, answer, outcome>>

-----------------------------------------------------------------------------
ClientSteps   == Connects \/ Writes \/ Breaks \/ Reads
ExchangeSteps == \E r \in wire : ExchangeServes(r) \/ ExchangeRefuses(r)

\* The promise to the caller: a call under way is asked, an ended one is what its
\* outcome says.
Call == INSTANCE RestCall WITH phase <- IF stage = "idle" THEN outcome ELSE "asked"
=============================================================================
