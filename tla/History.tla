------------------------------- MODULE History -------------------------------
(***************************************************************************)
(* Price history: BrokerHistory2 (ftx.cpp) over the paging of              *)
(* RESTClient::getHistoricalPrices (ftx_rest_client.cpp).                   *)
(*                                                                         *)
(* The exchange hands out the newest candles of a window, a page at most.  *)
(* The client walks back in time: after each page it asks for what lies    *)
(* before the page's first candle.  Meanwhile the exchange may finish      *)
(* further candles.  Any request may fail, and then the call has failed.   *)
(*                                                                         *)
(* A candle is its number b; it starts at b * resolution.  That its start  *)
(* time as text becomes this number of seconds is the matter of module     *)
(* Calendar.                                                               *)
(***************************************************************************)
EXTENDS Integers, FiniteSets, Sequences, SequencesExt

CONSTANTS
    Minutes,    \* values of nTickMinutes
    Ends,       \* values of convertTime(tEnd)
    MaxTicks,   \* bound on nTicks
    LastBar,    \* bound on the candles' numbers
    PageLimit   \* most candles the exchange puts on a page

ASSUME HistoryAssumption ==
    /\ Minutes \subseteq Nat /\ Ends \subseteq Nat
    /\ MaxTicks \in Nat /\ LastBar \in Nat
    /\ PageLimit \in Nat \ {0}

VARIABLES
    bars,       \* the candles the exchange has
    known,      \* those it had when the first page of this call was served
    pc,         \* "idle", "fetch", "page"
    resolution, \* in seconds
    nTicks,     \* slots of the caller's array
    from, to,   \* the window
    lastTo,     \* the end of the next page
    candles,    \* the page just received
    retVal,     \* what the pages have brought, oldest first
    ticks,      \* what the last call wrote into the caller's array
    outcome     \* how it ended: "none" yet, "rejected", "error", "ok"

request == <<resolution, nTicks, from, to>>
paging  == <<known, lastTo, candles, retVal>>
result  == <<ticks, outcome>>
vars    == <<bars, pc, request, paging, result>>

Bars     == 0..LastBar
StartOf(b) == b * resolution

Init ==
    /\ bars \in SUBSET Bars
    /\ known = {}
    /\ pc = "idle"
    /\ resolution = 0 /\ nTicks = 0 /\ from = 0 /\ to = 0 /\ lastTo = 0
    /\ candles = <<>> /\ retVal = <<>> /\ ticks = <<>>
    /\ outcome = "none"

-----------------------------------------------------------------------------
(* Slips.  Each operator below is the definition it is named after with a   *)
(* plausible mistake in it; none is part of the specification.             *)

\* Every candle of the window is written, although the array has nTicks slots.
NewestFirstUncut(cs, n) == Reverse(cs)

\* The candles are cut before they are reversed.
NewestFirstCutEarly(cs, n) == Reverse(SubSeq(cs, 1, IF n < Len(cs) THEN n ELSE Len(cs)))

\* The next page ends with the page's first candle.
TakePageTwice ==
    /\ pc = "page" /\ candles # <<>>
    /\ pc' = "fetch"
    /\ retVal' = candles \o retVal
    /\ lastTo' = StartOf(Head(candles))
    /\ candles' = <<>>
    /\ UNCHANGED <<bars, known, request, result>>

\* The end of the next page stays where it is.
TakePageStays ==
    /\ pc = "page" /\ candles # <<>>
    /\ pc' = "fetch"
    /\ retVal' = candles
    /\ candles' = <<>>
    /\ UNCHANGED <<bars, known, lastTo, request, result>>

-----------------------------------------------------------------------------
(* BrokerHistory2 up to the first page.                                    *)

isValidCandleResolution(r) ==
    \/ r > 86400 /\ r % 86400 = 0
    \/ r \in {15, 60, 300, 900, 3600, 14400, 86400}

\* Nothing asked for, or a resolution the exchange does not have.
Reject(n, minutes) ==
    /\ pc = "idle"
    /\ n = 0 \/ ~isValidCandleResolution(minutes * 60)
    /\ ticks' = <<>> /\ outcome' = "rejected"
    /\ UNCHANGED <<bars, pc, request, paging>>

\* The window reaches back nTicks resolutions; tStart plays no part.
BrokerHistory2(end, n, minutes) ==
    /\ pc = "idle"
    /\ n # 0 /\ isValidCandleResolution(minutes * 60)
    /\ pc' = "fetch"
    /\ resolution' = minutes * 60
    /\ nTicks' = n
    /\ to' = end
    /\ from' = end - n * minutes * 60
    /\ lastTo' = end
    /\ candles' = <<>> /\ retVal' = <<>> /\ ticks' = <<>>
    /\ outcome' = "none"
    /\ UNCHANGED <<bars, known>>

-----------------------------------------------------------------------------
(* Paging.                                                                 *)

\* What the exchange may answer: the newest candles that start in the window, at
\* most a page of them, oldest first.
Newest(first, last) ==
    LET window == {b \in bars : first <= StartOf(b) /\ StartOf(b) <= last}
    IN  {b \in window : Cardinality({c \in window : c > b}) < PageLimit}

Served(first, last) ==
    LET newest == Newest(first, last)
    IN  {page \in [1..Cardinality(newest) -> newest] :
            \A i, j \in DOMAIN page : i < j => page[i] < page[j]}

\* A page is asked for only while there is something left of the window.
Fetch ==
    /\ pc = "fetch"
    /\ pc' = "page"
    /\ candles' \in IF from < lastTo THEN Served(from, lastTo) ELSE {<<>>}
    /\ known' = IF retVal = <<>> THEN bars ELSE known
    /\ UNCHANGED <<bars, request, lastTo, retVal, result>>

\* The request fails or its reply does: what earlier pages brought is dropped.
FetchFails ==
    /\ pc = "fetch" /\ from < lastTo
    /\ pc' = "idle"
    /\ outcome' = "error"
    /\ UNCHANGED <<bars, request, paging, ticks>>

\* The page goes before what is there, and the next one ends a resolution before
\* its first candle.
TakePage ==
    /\ pc = "page" /\ candles # <<>>
    /\ pc' = "fetch"
    /\ retVal' = candles \o retVal
    /\ lastTo' = StartOf(Head(candles)) - resolution
    /\ candles' = <<>>
    /\ UNCHANGED <<bars, known, request, result>>

\* The candles reversed, as many as the array takes.
NewestFirst(cs, n) == SubSeq(Reverse(cs), 1, IF n < Len(cs) THEN n ELSE Len(cs))

Deliver ==
    /\ pc = "page" /\ candles = <<>>
    /\ pc' = "idle"
    /\ ticks' = NewestFirst(retVal, nTicks)
    /\ outcome' = "ok"
    /\ UNCHANGED <<bars, request, paging>>

\* The exchange finishes a candle newer than those it has.
NewBar(b) ==
    /\ \A c \in bars : c < b
    /\ bars' = bars \cup {b}
    /\ UNCHANGED <<pc, request, paging, result>>

-----------------------------------------------------------------------------
InCall == Fetch \/ FetchFails \/ TakePage \/ Deliver

Next ==
    \/ \E n \in 0..MaxTicks, m \in Minutes : Reject(n, m)
    \/ \E end \in Ends, n \in 0..MaxTicks, m \in Minutes : BrokerHistory2(end, n, m)
    \/ InCall
    \/ \E b \in Bars : NewBar(b)

\* The call goes on: every request returns or throws.
Spec == Init /\ [][Next]_vars /\ WF_vars(InCall)

-----------------------------------------------------------------------------
(* Properties.                                                             *)

\* The pages fit together: no candle twice, none out of order, in what has been
\* collected at any moment of the walk back (rest_client lines 196-209).
PagesFit ==
    \A i, j \in 1..Len(retVal) : i < j => retVal[i] < retVal[j]

\* The caller's array of nTicks slots is not overrun, although a window whose
\* ends are candle starts holds nTicks + 1 candles (ftx.cpp lines 285-289).
TicksFit == Len(ticks) <= nTicks

\* A call that succeeds has the newest candles of the window, without a gap: one
\* that the exchange had when the call began is missing only if the array is
\* full of newer ones, or if it starts at the very beginning of the window.
NoGap ==
    outcome = "ok" =>
        \A b \in known :
            from < StartOf(b) /\ StartOf(b) <= to =>
                \/ b \in Range(ticks)
                \/ Len(ticks) = nTicks /\ \A c \in Range(ticks) : b < c

\* The walk back ends, whatever the exchange has and goes on to add.
PagingEnds == pc # "idle" ~> pc = "idle"
=============================================================================
