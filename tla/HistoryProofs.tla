---------------------------- MODULE HistoryProofs ----------------------------
(***************************************************************************)
(* Proofs about History, for every page limit, every array and every end:  *)
(* the walk back loses no candle and takes none twice, and what is handed   *)
(* over fits the caller's array.                                           *)
(***************************************************************************)
EXTENDS History, FiniteSetTheorems, SequenceTheorems, WellFoundedInduction, TLAPS

Rising(s) == \A i, j \in 1..Len(s) : i < j => s[i] < s[j]

HistoryTypes ==
    /\ bars \in SUBSET Bars /\ known \in SUBSET bars
    /\ pc \in {"idle", "fetch", "page"}
    /\ resolution \in Nat /\ nTicks \in Nat
    /\ from \in Int /\ to \in Int /\ lastTo \in Int
    /\ candles \in Seq(Bars) /\ retVal \in Seq(Bars) /\ ticks \in Seq(Bars)
    /\ pc # "idle" => resolution > 0 /\ outcome = "none"

\* The page received goes before everything collected: it ends a resolution
\* before the first candle there.
WalkInv ==
    /\ PagesFit
    /\ pc # "idle" =>
           lastTo = IF retVal = <<>> THEN to ELSE StartOf(retVal[1]) - resolution
    /\ pc = "page" =>
           /\ Rising(candles)
           /\ \A i \in 1..Len(candles) : StartOf(candles[i]) <= lastTo
           /\ candles # <<>> => from < lastTo

\* Nothing of the window is lost: what lies after the walk's end is collected, and
\* what lies before it is on the page or before the page.
CoverInv ==
    /\ pc # "idle" =>
           \A b \in known :
               from < StartOf(b) /\ StartOf(b) <= to /\ lastTo < StartOf(b)
                   => b \in Range(retVal)
    /\ pc = "page" =>
           \A b \in known :
               from < StartOf(b) /\ StartOf(b) <= lastTo
                   => b \in Range(candles) \/ (candles # <<>> /\ b < candles[1])

HistoryInv == HistoryTypes /\ WalkInv /\ CoverInv /\ TicksFit /\ NoGap

-----------------------------------------------------------------------------
\* A set of candles that is not empty has a newest one.
LEMMA NewestThere ==
    ASSUME NEW S, S \subseteq Bars, S # {}
    PROVE  \E m \in S : \A b \in S : b <= m
<1> DEFINE R == OpToRel(<, Nat)
           T == {n \in Nat : \E b \in S : n = LastBar - b}
<1>0. LastBar \in Nat /\ S \subseteq 0..LastBar
  BY HistoryAssumption DEF HistoryAssumption, Bars
<1>1. \A a, b \in Nat : a < b => <<a, b>> \in R
  BY DEF OpToRel
<1>2. IsWellFoundedOn(R, Nat)
  BY NatLessThanWellFounded
<1> HIDE DEF R
<1>3. T # {} /\ T \subseteq Nat
  <2>1. PICK s \in S : TRUE
    OBVIOUS
  <2>2. LastBar - s \in Nat
    BY <1>0
  <2> QED BY <2>1, <2>2
<1>4. \E x \in T : \A y \in T : ~(<<y, x>> \in R)
  BY <1>2, <1>3, WFMin
<1>5. PICK x \in T : \A y \in T : ~(<<y, x>> \in R)
  BY <1>4
<1>6. PICK m \in S : x = LastBar - m
  BY <1>5
<1>7. ASSUME NEW b \in S PROVE b <= m
  <2>1. LastBar - b \in T /\ x \in Nat
    BY <1>0
  <2>2. ~(LastBar - b < x)
    BY <2>1, <1>5, <1>1
  <2> QED BY <2>2, <1>6, <1>0
<1> QED BY <1>7

\* Candles start in the order of their numbers, a resolution apart.
LEMMA StartsApart ==
    ASSUME NEW r \in Nat, r > 0, NEW a \in Nat, NEW b \in Nat
    PROVE  /\ a * r \in Nat
           /\ a * r <= b * r - r <=> a < b
<1>1. a * r \in Nat /\ b * r \in Nat
  OBVIOUS
<1>2. CASE a < b
  <2>1. PICK d \in Nat : b = a + 1 + d
    <3>1. b - a - 1 \in Nat /\ b = a + 1 + (b - a - 1)
      BY <1>2
    <3> QED BY <3>1
  <2>2. b * r = a * r + r + d * r /\ d * r \in Nat
    BY <2>1
  <2> QED BY <1>1, <1>2, <2>2
<1>3. CASE b <= a
  <2>1. PICK d \in Nat : a = b + d
    <3>1. a - b \in Nat /\ a = b + (a - b)
      BY <1>3
    <3> QED BY <3>1
  <2>2. a * r = b * r + d * r /\ d * r \in Nat
    BY <2>1
  <2> QED BY <1>1, <1>3, <2>2
<1> QED BY <1>2, <1>3

\* A page is a rising sequence of candles of the window, and what the window has
\* besides is older.
LEMMA PageIsNewest ==
    ASSUME bars \subseteq Bars, resolution \in Nat,
           NEW first \in Int, NEW last \in Int, NEW page \in Served(first, last)
    PROVE  /\ page \in Seq(Bars)
           /\ Rising(page)
           /\ \A i \in 1..Len(page) : StartOf(page[i]) <= last
           /\ \A b \in bars :
                  first <= StartOf(b) /\ StartOf(b) <= last
                      => b \in Range(page) \/ (page # <<>> /\ b < page[1])
<1> DEFINE W == {b \in bars : first <= StartOf(b) /\ StartOf(b) <= last}
           Newer(b) == {c \in W : c > b}
           N == Newest(first, last)
           n == Cardinality(N)
<1>1. /\ LastBar \in Nat /\ PageLimit \in Nat /\ PageLimit > 0
      /\ Bars = 0..LastBar /\ Bars \subseteq Nat
  BY HistoryAssumption DEF HistoryAssumption, Bars
<1>2. N = {b \in W : Cardinality(Newer(b)) < PageLimit}
  BY DEF Newest
<1>3. W \subseteq Bars /\ N \subseteq W
  BY <1>2
<1>4. IsFiniteSet(W) /\ IsFiniteSet(N) /\ n \in Nat
  <2>1. IsFiniteSet(Bars)
    BY <1>1, FS_Interval
  <2>2. IsFiniteSet(W)
    BY <2>1, <1>3, FS_Subset
  <2>3. IsFiniteSet(N)
    BY <2>2, <1>3, FS_Subset
  <2> QED BY <2>2, <2>3, FS_CardinalityType
<1>5. \A b : IsFiniteSet(Newer(b)) /\ Cardinality(Newer(b)) \in Nat
  BY <1>4, FS_Subset, FS_CardinalityType
<1>6. /\ page \in [1..n -> N]
      /\ \A i, j \in 1..n : i < j => page[i] < page[j]
  BY DEF Served
<1> HIDE DEF W, N, n
<1>7. Len(page) = n /\ page \in Seq(Bars) /\ \A i \in 1..n : page[i] \in N
  BY <1>3, <1>4, <1>6
<1>8. Rising(page)
  BY <1>6, <1>7 DEF Rising
<1>9. \A b \in N : b \in Range(page)
  <2>1. page \in Injection(1..n, N)
    <3>1. ASSUME NEW i \in 1..n, NEW j \in 1..n, page[i] = page[j]
          PROVE  i = j
      <4>1. page[i] \in Nat /\ i \in Int /\ j \in Int
        BY <1>1, <1>3, <1>4, <1>7
      <4> QED BY <1>6, <3>1, <4>1
    <3> QED BY <1>6, <3>1 DEF Injection, IsInjective
  <2>2. Cardinality(1..n) = n
    BY <1>4, FS_Interval
  <2>3. page \in Surjection(1..n, N)
    BY <1>4, <2>1, <2>2, FS_Injection DEF n
  <2> QED BY <2>3, <1>6 DEF Surjection, Range
<1>10. ASSUME NEW b \in W, b \notin N
       PROVE  page # <<>> /\ b < page[1]
  <2>1. ~(Cardinality(Newer(b)) < PageLimit)
    BY <1>2, <1>10
  <2>2. PICK m \in W : \A c \in W : c <= m
    BY <1>3, NewestThere
  <2>3. Newer(m) = {}
    <3>1. ASSUME NEW c \in W PROVE ~(c > m)
      <4>1. c \in Nat /\ m \in Nat /\ c <= m
        BY <1>1, <1>3, <2>2
      <4> QED BY <4>1
    <3> QED BY <3>1
  <2>4. m \in N
    BY <2>3, <1>1, <1>2, FS_EmptySet
  <2>5. n # 0
    BY <2>4, <1>4, FS_EmptySet DEF n
  <2>6. page # <<>> /\ page[1] \in N
    BY <2>5, <1>4, <1>7
  <2>7. Cardinality(Newer(page[1])) < PageLimit
    BY <2>6, <1>2
  <2>8. page[1] \in Nat /\ b \in Nat /\ \A c \in W : c \in Nat
    BY <2>6, <1>1, <1>3
  <2>9. ASSUME page[1] <= b PROVE FALSE
    <3>1. \A c \in W : c > b => c > page[1]
      BY <2>8, <2>9
    <3>2. Newer(b) \subseteq Newer(page[1])
      BY <3>1
    <3>3. Cardinality(Newer(b)) <= Cardinality(Newer(page[1]))
      BY <3>2, <1>5, FS_Subset
    <3>4. Cardinality(Newer(b)) \in Nat /\ Cardinality(Newer(page[1])) \in Nat
      BY <1>5
    <3> HIDE DEF Newer
    <3> QED BY <3>3, <3>4, <2>1, <2>7, <1>1
  <2> QED BY <2>6, <2>8, <2>9
<1>11. \A b \in W : StartOf(b) <= last
  BY DEF W
<1>12. \A i \in 1..Len(page) : StartOf(page[i]) <= last
  BY <1>3, <1>7, <1>11
<1>13. \A b \in bars : first <= StartOf(b) /\ StartOf(b) <= last => b \in W
  BY DEF W
<1> QED BY <1>7, <1>8, <1>9, <1>10, <1>12, <1>13

-----------------------------------------------------------------------------
\* What is handed over are the last candles, newest first.
LEMMA NewestFirstIs ==
    ASSUME NEW cs \in Seq(Bars), NEW n \in Nat
    PROVE  LET k == IF n < Len(cs) THEN n ELSE Len(cs)
           IN  /\ NewestFirst(cs, n) \in Seq(Bars)
               /\ Len(NewestFirst(cs, n)) = k
               /\ \A i \in 1..k : NewestFirst(cs, n)[i] = cs[Len(cs) - i + 1]
<1> DEFINE k == IF n < Len(cs) THEN n ELSE Len(cs)
           rs == Reverse(cs)
<1>1. Len(cs) \in Nat /\ k \in Nat /\ k <= Len(cs)
  OBVIOUS
<1>2. \A i \in 1..Len(cs) : rs[i] = cs[Len(cs) - i + 1] /\ rs[i] \in Bars
  BY <1>1 DEF Reverse
<1>3. NewestFirst(cs, n) = SubSeq(rs, 1, k)
  BY DEF NewestFirst
<1> HIDE DEF rs, k
<1>4. \A i \in 1..k : rs[i] \in Bars
  BY <1>1, <1>2
<1>5. /\ SubSeq(rs, 1, k) \in Seq(Bars)
      /\ Len(SubSeq(rs, 1, k)) = IF 1 <= k THEN k - 1 + 1 ELSE 0
      /\ \A i \in 1..(k - 1 + 1) : SubSeq(rs, 1, k)[i] = rs[1 + i - 1]
  BY <1>1, <1>4, SubSeqProperties
<1>6. Len(SubSeq(rs, 1, k)) = k
  BY <1>1, <1>5
<1>7. ASSUME NEW i \in 1..k PROVE SubSeq(rs, 1, k)[i] = cs[Len(cs) - i + 1]
  BY <1>1, <1>2, <1>5
<1> QED BY <1>3, <1>5, <1>6, <1>7 DEF k

-----------------------------------------------------------------------------
LEMMA InvInit == Init => HistoryInv
<1> SUFFICES ASSUME Init PROVE HistoryInv
  OBVIOUS
<1>1. Len(retVal) = 0 /\ Len(ticks) = 0
  BY DEF Init
<1>2. HistoryTypes
  BY DEF Init, HistoryTypes
<1>3. WalkInv
  BY <1>1 DEF Init, WalkInv, PagesFit
<1>4. CoverInv /\ TicksFit /\ NoGap
  BY <1>1 DEF Init, CoverInv, TicksFit, NoGap
<1> QED BY <1>2, <1>3, <1>4 DEF HistoryInv

\* A call that begins: its resolution is a positive number of seconds.
LEMMA CallBegins ==
    ASSUME HistoryInv, NEW end \in Ends, NEW n \in 0..MaxTicks, NEW m \in Minutes,
           BrokerHistory2(end, n, m)
    PROVE  HistoryInv'
<1>1. n \in Nat /\ m \in Nat /\ end \in Nat /\ n # 0
  BY HistoryAssumption DEF HistoryAssumption, BrokerHistory2
<1>2. m * 60 \in Nat /\ m * 60 > 0
  BY <1>1 DEF BrokerHistory2, isValidCandleResolution
<1>3. n * m \in Nat
  BY <1>1
<1>4. n * m * 60 \in Int
  BY <1>3
<1>5. end - n * m * 60 \in Int
  BY <1>1, <1>4
<1>6. /\ pc' = "fetch" /\ resolution' = m * 60 /\ nTicks' = n
      /\ to' = end /\ from' = end - n * m * 60 /\ lastTo' = end
      /\ candles' = <<>> /\ retVal' = <<>> /\ ticks' = <<>> /\ outcome' = "none"
      /\ bars' = bars /\ known' = known
  BY DEF BrokerHistory2
<1>7. Len(retVal') = 0 /\ Len(ticks') = 0
  BY <1>6
<1>8. HistoryTypes'
  <2>1. bars' \in SUBSET Bars /\ known' \in SUBSET bars'
    BY <1>6 DEF HistoryInv, HistoryTypes
  <2>2. /\ from' \in Int /\ to' \in Int /\ lastTo' \in Int
        /\ resolution' \in Nat /\ resolution' > 0 /\ nTicks' \in Nat
    BY <1>1, <1>2, <1>5, <1>6
  <2>3. candles' \in Seq(Bars) /\ retVal' \in Seq(Bars) /\ ticks' \in Seq(Bars)
    BY <1>6
  <2> QED BY <1>6, <2>1, <2>2, <2>3 DEF HistoryTypes
<1>9. WalkInv'
  BY <1>6, <1>7 DEF WalkInv, PagesFit
<1>10. CoverInv'
  <2>1. \A b \in known : StartOf(b)' \in Int
    <3>1. \A b \in known : b \in Nat
      BY HistoryAssumption DEF HistoryAssumption, HistoryInv, HistoryTypes, Bars
    <3> QED BY <3>1, <1>2, <1>6 DEF StartOf
  <2> QED BY <1>1, <1>6, <2>1 DEF CoverInv
<1>11. TicksFit' /\ NoGap'
  BY <1>1, <1>6, <1>7 DEF TicksFit, NoGap
<1> QED BY <1>8, <1>9, <1>10, <1>11 DEF HistoryInv

\* A page received is the newest part of what is left of the window.
LEMMA PageArrives ==
    ASSUME HistoryInv, Fetch
    PROVE  HistoryInv'
<1> USE DEF HistoryInv, HistoryTypes
<1>1. /\ pc = "fetch" /\ pc' = "page"
      /\ known' = IF retVal = <<>> THEN bars ELSE known
      /\ UNCHANGED <<bars, resolution, nTicks, from, to, lastTo, retVal, ticks, outcome>>
  BY DEF Fetch, request, result
<1>2. /\ candles' \in Seq(Bars)
      /\ Rising(candles')
      /\ \A i \in 1..Len(candles') : StartOf(candles'[i]) <= lastTo
      /\ \A b \in bars :
             from < StartOf(b) /\ StartOf(b) <= lastTo
                 => b \in Range(candles') \/ (candles' # <<>> /\ b < candles'[1])
      /\ candles' # <<>> => from < lastTo
  <2>0. \A b \in bars : StartOf(b) \in Int
    <3>1. \A b \in bars : b \in Nat
      BY HistoryAssumption DEF HistoryAssumption, Bars
    <3> QED BY <3>1 DEF StartOf
  <2>1. CASE from < lastTo
    <3>1. candles' \in Served(from, lastTo)
      BY <2>1 DEF Fetch
    <3>2. \A b \in bars : from < StartOf(b) => from <= StartOf(b)
      BY <2>0
    <3> QED BY <2>1, <3>1, <3>2, PageIsNewest
  <2>2. CASE ~(from < lastTo)
    <3>1. candles' = <<>> /\ Len(candles') = 0
      BY <2>2 DEF Fetch
    <3>2. \A b \in bars : ~(from < StartOf(b) /\ StartOf(b) <= lastTo)
      BY <2>0, <2>2
    <3> QED BY <3>1, <3>2 DEF Rising
  <2> QED BY <2>1, <2>2
<1>3. HistoryTypes'
  BY <1>1, <1>2
<1>4. WalkInv'
  BY <1>1, <1>2 DEF WalkInv, PagesFit, StartOf
<1>5. CoverInv'
  <2>1. ASSUME NEW b \in known', from < StartOf(b), StartOf(b) <= to, lastTo < StartOf(b)
        PROVE  b \in Range(retVal)
    <3>1. CASE retVal = <<>>
      <4>1. StartOf(b) \in Int /\ lastTo = to
        <5>1. b \in Nat
          BY <1>1 DEF Bars
        <5> QED BY <5>1, <3>1, <1>1 DEF StartOf, WalkInv
      <4> QED BY <4>1, <2>1
    <3>2. CASE retVal # <<>>
      BY <3>2, <2>1, <1>1 DEF CoverInv
    <3> QED BY <3>1, <3>2
  <2>2. \A b \in known' : b \in bars
    BY <1>1
  <2> QED BY <1>1, <1>2, <2>1, <2>2 DEF CoverInv, StartOf
<1>6. TicksFit' /\ NoGap'
  BY <1>1 DEF TicksFit, NoGap
<1> QED BY <1>3, <1>4, <1>5, <1>6

\* The page goes before what is there: the order stays, and the walk goes on where
\* the page begins.
LEMMA PageIsTaken ==
    ASSUME HistoryInv, TakePage
    PROVE  HistoryInv'
<1> DEFINE both == candles \o retVal
<1>1. /\ pc = "page" /\ pc' = "fetch" /\ candles # <<>> /\ candles' = <<>>
      /\ retVal' = both
      /\ lastTo' = StartOf(Head(candles)) - resolution
      /\ UNCHANGED <<bars, known, resolution, nTicks, from, to, ticks, outcome>>
  BY DEF TakePage, request, result
<1>2. /\ candles \in Seq(Bars) /\ retVal \in Seq(Bars)
      /\ resolution \in Nat /\ resolution > 0
      /\ Bars \subseteq Nat /\ \A b \in known : b \in Nat
  BY <1>1, HistoryAssumption DEF HistoryInv, HistoryTypes, HistoryAssumption, Bars
<1>3. /\ both \in Seq(Bars)
      /\ Len(both) = Len(candles) + Len(retVal)
      /\ \A i \in 1..Len(candles) + Len(retVal) :
            both[i] = IF i <= Len(candles) THEN candles[i] ELSE retVal[i - Len(candles)]
  BY <1>2, ConcatProperties
<1>4. /\ Len(candles) \in Nat /\ Len(candles) > 0 /\ Len(retVal) \in Nat
      /\ Head(candles) = candles[1] /\ candles[1] \in Nat
      /\ \A i \in 1..Len(candles) : candles[i] \in Nat
      /\ \A i \in 1..Len(retVal) : retVal[i] \in Nat
  <2>1. /\ \A i \in 1..Len(candles) : candles[i] \in Bars
        /\ \A i \in 1..Len(retVal) : retVal[i] \in Bars
    BY <1>2
  <2>2. Len(candles) \in Nat /\ Len(candles) > 0 /\ Len(retVal) \in Nat
    BY <1>1, <1>2
  <2>3. Head(candles) = candles[1] /\ 1 \in 1..Len(candles)
    BY <1>1, <1>2, <2>2
  <2>4. Bars \subseteq Nat
    BY <1>2
  <2> QED BY <2>1, <2>2, <2>3, <2>4
<1> HIDE DEF both
<1>5. both # <<>> /\ both[1] = candles[1]
  BY <1>3, <1>4
<1>6. StartOf(candles[1]) \in Int
  BY <1>2, <1>4 DEF StartOf
<1>7. HistoryTypes'
  <2>1. lastTo' \in Int
    BY <1>1, <1>2, <1>4, <1>6
  <2> QED BY <1>1, <1>3, <2>1 DEF HistoryInv, HistoryTypes
<1>8. ASSUME NEW i \in 1..Len(candles), NEW j \in 1..Len(retVal)
      PROVE  candles[i] < retVal[j]
  <2>1. candles[i] \in Nat /\ retVal[1] \in Nat /\ retVal[j] \in Nat /\ retVal # <<>>
    BY <1>2, <1>4
  <2>2. retVal[1] <= retVal[j]
    <3>1. CASE j = 1
      BY <2>1, <3>1
    <3>2. CASE j # 1
      <4>1. 1 \in 1..Len(retVal) /\ 1 < j
        BY <3>2, <1>4
      <4> QED BY <2>1, <4>1 DEF HistoryInv, WalkInv, PagesFit
    <3> QED BY <3>1, <3>2
  <2>3. candles[i] * resolution <= retVal[1] * resolution - resolution
    BY <1>1, <2>1 DEF HistoryInv, WalkInv, StartOf
  <2>4. candles[i] < retVal[1]
    BY <1>2, <2>1, <2>3, StartsApart
  <2> QED BY <2>1, <2>2, <2>4
<1>9. WalkInv'
  <2>1. ASSUME NEW i \in 1..Len(both), NEW j \in 1..Len(both), i < j
        PROVE  both[i] < both[j]
    <3>1. CASE j <= Len(candles)
      BY <1>1, <1>3, <1>4, <2>1, <3>1 DEF HistoryInv, WalkInv, Rising
    <3>2. CASE i <= Len(candles) /\ ~(j <= Len(candles))
      <4>1. i \in 1..Len(candles) /\ j - Len(candles) \in 1..Len(retVal)
        BY <1>3, <1>4, <3>2
      <4>2. both[i] = candles[i] /\ both[j] = retVal[j - Len(candles)]
        BY <1>3, <3>2
      <4> QED BY <1>8, <4>1, <4>2
    <3>3. CASE ~(i <= Len(candles))
      <4>1. /\ i - Len(candles) \in 1..Len(retVal)
            /\ j - Len(candles) \in 1..Len(retVal)
            /\ i - Len(candles) < j - Len(candles)
            /\ both[i] = retVal[i - Len(candles)]
            /\ both[j] = retVal[j - Len(candles)]
        BY <1>3, <1>4, <2>1, <3>3
      <4> QED BY <4>1 DEF HistoryInv, WalkInv, PagesFit
    <3> QED BY <2>1, <3>1, <3>2, <3>3
  <2>2. PagesFit'
    BY <1>1, <2>1 DEF PagesFit
  <2>3. retVal'[1] = candles[1] /\ retVal' # <<>>
    BY <1>1, <1>5
  <2>4. lastTo' = StartOf(retVal[1])' - resolution'
    BY <1>1, <1>4, <2>3 DEF StartOf
  <2> QED BY <1>1, <2>2, <2>3, <2>4 DEF WalkInv
<1>10. CoverInv'
  <2>1. ASSUME NEW b \in known, from < StartOf(b), StartOf(b) <= to, lastTo' < StartOf(b)
        PROVE  b \in Range(both)
    <3>1. StartOf(b) \in Int /\ lastTo \in Int /\ b \in Nat
      BY <1>2 DEF StartOf, HistoryInv, HistoryTypes
    <3>2. CASE lastTo < StartOf(b)
      <4>1. PICK j \in 1..Len(retVal) : b = retVal[j]
        BY <1>1, <1>2, <2>1, <3>2 DEF HistoryInv, CoverInv, Range
      <4>2. /\ j + Len(candles) \in 1..Len(both)
            /\ both[j + Len(candles)] = retVal[j]
        BY <1>3, <1>4
      <4>3. DOMAIN both = 1..Len(both)
        BY <1>3
      <4> QED BY <4>1, <4>2, <4>3 DEF Range
    <3>3. CASE StartOf(b) <= lastTo
      <4>1. ~(b < candles[1])
        <5>1. ~(b * resolution <= candles[1] * resolution - resolution)
          BY <1>1, <1>2, <1>4, <1>6, <2>1, <3>1 DEF StartOf
        <5> QED BY <1>2, <1>4, <3>1, <5>1, StartsApart
      <4>2. PICK i \in 1..Len(candles) : b = candles[i]
        BY <1>1, <1>2, <2>1, <3>3, <4>1 DEF HistoryInv, CoverInv, Range
      <4>3. i \in 1..Len(both) /\ both[i] = candles[i]
        BY <1>3, <1>4
      <4> QED BY <1>3, <4>2, <4>3 DEF Range
    <3> QED BY <3>1, <3>2, <3>3
  <2> QED BY <1>1, <2>1 DEF CoverInv, StartOf
<1>11. TicksFit' /\ NoGap'
  BY <1>1 DEF HistoryInv, HistoryTypes, TicksFit, NoGap
<1> QED BY <1>7, <1>9, <1>10, <1>11 DEF HistoryInv

\* The call ends: what is missing in the array is older than all that is in it, or
\* was not in the window.
LEMMA CallDelivers ==
    ASSUME HistoryInv, Deliver
    PROVE  HistoryInv'
<1> DEFINE k == IF nTicks < Len(retVal) THEN nTicks ELSE Len(retVal)
<1>1. /\ pc = "page" /\ pc' = "idle" /\ candles = <<>> /\ outcome' = "ok"
      /\ ticks' = NewestFirst(retVal, nTicks)
      /\ UNCHANGED <<bars, resolution, nTicks, from, to, known, lastTo, candles, retVal>>
  BY DEF Deliver, request, paging
<1>2. /\ retVal \in Seq(Bars) /\ nTicks \in Nat
      /\ Bars \subseteq Nat /\ \A b \in known : b \in Nat
      /\ resolution \in Nat /\ lastTo \in Int
  BY HistoryAssumption DEF HistoryInv, HistoryTypes, HistoryAssumption, Bars
<1>3. /\ ticks' \in Seq(Bars)
      /\ Len(ticks') = k
      /\ \A i \in 1..k : ticks'[i] = retVal[Len(retVal) - i + 1]
  BY <1>1, <1>2, NewestFirstIs
<1>4. Len(retVal) \in Nat /\ k \in Nat /\ k <= nTicks /\ k <= Len(retVal)
  BY <1>2
<1>5. (k = Len(retVal)) \/ (k = nTicks /\ k < Len(retVal))
  BY <1>2
<1> HIDE DEF k
<1>6. HistoryTypes'
  BY <1>1, <1>3 DEF HistoryInv, HistoryTypes
<1>7. WalkInv' /\ CoverInv'
  BY <1>1 DEF HistoryInv, WalkInv, CoverInv, PagesFit
<1>8. TicksFit'
  BY <1>1, <1>3, <1>4 DEF TicksFit
<1>9. NoGap'
  <2>1. ASSUME NEW b \in known, from < StartOf(b), StartOf(b) <= to
        PROVE  \/ b \in Range(ticks')
               \/ Len(ticks') = nTicks /\ \A c \in Range(ticks') : b < c
    <3>1. b \in Range(retVal)
      <4>1. StartOf(b) \in Int
        BY <1>2 DEF StartOf
      <4>2. Range(candles) = {}
        BY <1>1 DEF Range
      <4> QED BY <1>1, <1>2, <2>1, <4>1, <4>2 DEF HistoryInv, CoverInv
    <3>2. PICK j \in 1..Len(retVal) : b = retVal[j]
      BY <1>2, <3>1 DEF Range
    <3>3. CASE Len(retVal) - j + 1 <= k
      <4>1. /\ Len(retVal) - j + 1 \in 1..k
            /\ Len(retVal) - (Len(retVal) - j + 1) + 1 = j
        BY <1>4, <3>3
      <4>2. ticks'[Len(retVal) - j + 1] = b
        BY <1>3, <3>2, <4>1
      <4>3. DOMAIN ticks' = 1..k
        BY <1>3
      <4> QED BY <4>1, <4>2, <4>3 DEF Range
    <3>4. CASE ~(Len(retVal) - j + 1 <= k)
      <4>1. k = nTicks
        BY <1>4, <1>5, <3>4
      <4>2. ASSUME NEW i \in 1..k PROVE b < ticks'[i]
        <5>1. Len(retVal) - i + 1 \in 1..Len(retVal) /\ j < Len(retVal) - i + 1
          BY <1>4, <3>4
        <5>2. retVal[j] < retVal[Len(retVal) - i + 1]
          BY <5>1 DEF HistoryInv, WalkInv, PagesFit
        <5> QED BY <1>3, <3>2, <5>2
      <4>3. DOMAIN ticks' = 1..k
        BY <1>3
      <4> QED BY <1>3, <4>1, <4>2, <4>3 DEF Range
    <3> QED BY <3>3, <3>4
  <2>2. UNCHANGED <<known, from, to, nTicks, resolution>>
    BY <1>1
  <2> QED BY <2>1, <2>2 DEF NoGap, StartOf
<1> QED BY <1>6, <1>7, <1>8, <1>9 DEF HistoryInv

LEMMA InvStep == HistoryInv /\ [Next]_vars => HistoryInv'
<1> SUFFICES ASSUME HistoryInv, [Next]_vars PROVE HistoryInv'
  OBVIOUS
<1>1. CASE \E n \in 0..MaxTicks, m \in Minutes : Reject(n, m)
  <2>1. /\ pc = "idle" /\ ticks' = <<>> /\ outcome' = "rejected"
        /\ UNCHANGED <<bars, pc, resolution, nTicks, from, to, known, lastTo, candles, retVal>>
    BY <1>1 DEF Reject, request, paging
  <2>2. Len(ticks') = 0
    BY <2>1
  <2>3. HistoryTypes'
    BY <2>1 DEF HistoryInv, HistoryTypes
  <2>4. WalkInv' /\ CoverInv'
    BY <2>1 DEF HistoryInv, WalkInv, CoverInv, PagesFit
  <2>5. TicksFit' /\ NoGap'
    BY <2>1, <2>2 DEF HistoryInv, HistoryTypes, TicksFit, NoGap
  <2> QED BY <2>3, <2>4, <2>5 DEF HistoryInv
<1>2. CASE \E end \in Ends, n \in 0..MaxTicks, m \in Minutes : BrokerHistory2(end, n, m)
  BY <1>2, CallBegins
<1>3. CASE Fetch
  BY <1>3, PageArrives
<1>4. CASE FetchFails
  <2>1. /\ pc' = "idle" /\ outcome' = "error"
        /\ UNCHANGED <<bars, resolution, nTicks, from, to, known, lastTo, candles, retVal, ticks>>
    BY <1>4 DEF FetchFails, request, paging
  <2>2. HistoryTypes'
    BY <2>1 DEF HistoryInv, HistoryTypes
  <2>3. WalkInv' /\ CoverInv' /\ TicksFit' /\ NoGap'
    BY <2>1 DEF HistoryInv, WalkInv, CoverInv, PagesFit, TicksFit, NoGap
  <2> QED BY <2>2, <2>3 DEF HistoryInv
<1>5. CASE TakePage
  BY <1>5, PageIsTaken
<1>6. CASE Deliver
  BY <1>6, CallDelivers
<1>7. CASE \E b \in Bars : NewBar(b)
  <2>1. PICK b \in Bars : NewBar(b)
    BY <1>7
  <2>2. /\ bars' = bars \cup {b}
        /\ UNCHANGED <<pc, resolution, nTicks, from, to, known, lastTo, candles, retVal,
                       ticks, outcome>>
    BY <2>1 DEF NewBar, request, paging, result
  <2>3. HistoryTypes'
    BY <2>2 DEF HistoryInv, HistoryTypes
  <2>4. WalkInv' /\ CoverInv' /\ TicksFit' /\ NoGap'
    BY <2>2 DEF HistoryInv, WalkInv, CoverInv, PagesFit, TicksFit, NoGap, StartOf
  <2> QED BY <2>3, <2>4 DEF HistoryInv
<1>8. CASE UNCHANGED vars
  BY <1>8 DEF vars, request, paging, result, HistoryInv, HistoryTypes, WalkInv, CoverInv,
              PagesFit, TicksFit, NoGap, StartOf
<1> QED
  BY <1>1, <1>2, <1>3, <1>4, <1>5, <1>6, <1>7, <1>8 DEF Next, InCall

LEMMA InvHolds == Spec => []HistoryInv
BY InvInit, InvStep, PTL DEF Spec

-----------------------------------------------------------------------------
\* However many pages a walk takes, no candle comes twice and none out of order
\* (rest_client lines 196-209).
THEOREM PagesAlwaysFit == Spec => []PagesFit
<1>1. HistoryInv => PagesFit
  BY DEF HistoryInv, WalkInv
<1> QED BY <1>1, InvHolds, PTL

\* The caller's array is not overrun, whatever the exchange has (ftx.cpp lines
\* 285-289).
THEOREM TicksAlwaysFit == Spec => []TicksFit
<1>1. HistoryInv => TicksFit
  BY DEF HistoryInv
<1> QED BY <1>1, InvHolds, PTL

\* A call that succeeds has the newest candles of its window without a gap, although
\* the exchange may add candles between its pages.
THEOREM NothingIsMissing == Spec => []NoGap
<1>1. HistoryInv => NoGap
  BY DEF HistoryInv
<1> QED BY <1>1, InvHolds, PTL

\* The walk back ends after finitely many pages: each one taken moves the end of the
\* next by a resolution at least, and none comes once that end is not after the
\* beginning of the window (rest_client lines 194-209).
WalkGoesBack == TakePage => from < lastTo /\ resolution > 0 /\ lastTo' <= lastTo - resolution

\* So it is for every page limit and every window; that a page is taken at all is
\* fairness, and stays with the run.
THEOREM WalkAlwaysGoesBack == Spec => [][WalkGoesBack]_vars
<1>1. HistoryInv /\ [Next]_vars => [WalkGoesBack]_vars
  <2> SUFFICES ASSUME HistoryInv, TakePage
               PROVE  from < lastTo /\ resolution > 0 /\ lastTo' <= lastTo - resolution
    BY DEF WalkGoesBack
  <2>1. /\ pc = "page" /\ candles # <<>> /\ candles \in Seq(Bars) /\ Bars \subseteq Nat
        /\ resolution \in Nat /\ resolution > 0 /\ lastTo \in Int
        /\ lastTo' = StartOf(Head(candles)) - resolution
    BY HistoryAssumption DEF HistoryInv, HistoryTypes, HistoryAssumption, TakePage, Bars
  <2>2. 1 \in 1..Len(candles) /\ Head(candles) = candles[1]
    BY <2>1
  <2>3. candles[1] \in Nat
    <3>1. candles[1] \in Bars
      BY <2>1, <2>2
    <3> QED BY <2>1, <3>1
  <2>4. StartOf(candles[1]) \in Int
    BY <2>1, <2>3 DEF StartOf
  <2>5. StartOf(candles[1]) <= lastTo /\ from < lastTo
    BY <2>1, <2>2 DEF HistoryInv, WalkInv
  <2> QED BY <2>1, <2>2, <2>4, <2>5
<1> QED BY <1>1, InvHolds, PTL DEF Spec
=============================================================================
