------------------------------- MODULE RestCall -------------------------------
(***************************************************************************)
(* What a method of RESTClient promises to the plugin function that calls   *)
(* it, whatever the network and the exchange do:                           *)
(*                                                                         *)
(*   - it ends by returning or by throwing;                                *)
(*   - when it returns, the exchange has carried its request out;          *)
(*   - when it throws, the exchange may have carried it out, or may still  *)
(*     do so, during later calls;                                          *)
(*   - in no case is a request carried out twice.                          *)
(***************************************************************************)
EXTENDS Naturals

CONSTANT MaxRequests    \* bound on the requests of a behaviour

VARIABLES
    asked,  \* requests made so far
    phase,  \* of the last one: "none", "asked", "returned", "threw"
    acts    \* by request: how often the exchange carried it out

vars == <<asked, phase, acts>>

Init ==
    /\ asked = 0
    /\ phase = "none"
    /\ acts = [n \in 1..MaxRequests |-> 0]

Ask ==
    /\ phase # "asked"
    /\ asked < MaxRequests
    /\ asked' = asked + 1
    /\ phase' = "asked"
    /\ UNCHANGED acts

\* The exchange carries a request out, now or long after its call has thrown.
Act(n) ==
    /\ n <= asked
    /\ acts[n] = 0
    /\ acts' = [acts EXCEPT ![n] = 1]
    /\ UNCHANGED <<asked, phase>>

Return ==
    /\ phase = "asked"
    /\ acts[asked] = 1
    /\ phase' = "returned"
    /\ UNCHANGED <<asked, acts>>

Throw ==
    /\ phase = "asked"
    /\ phase' = "threw"
    /\ UNCHANGED <<asked, acts>>

Next == Ask \/ Return \/ Throw \/ \E n \in 1..MaxRequests : Act(n)

Spec == Init /\ [][Next]_vars
=============================================================================
