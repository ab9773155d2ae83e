---------------------------- MODULE IncidentProofs ----------------------------
(***************************************************************************)
(* What is read of the telemetry: the span index that hydration builds for *)
(* any window, chunks and limit of rows; what is said of times, for any of *)
(* them; and what the tools make of the spans of an incident, for any set  *)
(* of services, graph of calls, fault and index.                           *)
(***************************************************************************)
EXTENDS Incident, FiniteSetTheorems, SequenceTheorems, WellFoundedInduction, TLAPS

(* Hydration leaves the backend alone, whose spans are those of the window. *)
WindowedInit == StoreInit /\ \A s \in remote : s.time \in 0..WindowEnd

StoreSpec == WindowedInit /\ [][StoreNext]_<<remote, store>>

Stretch == {c \in Nat \X Nat : c[1] <= c[2]}

(* A span that a chunk too short to be split may lack.                      *)
Crowded(s) ==
  \E lo \in 0..s.time, len \in 0..MinChunk : lo + len >= s.time /\ Full(<<lo, lo + len>>)

(* While hydration is under way each span has been fetched, is too crowded  *)
(* to be, or is in a chunk that is still to be fetched.                     *)
Found(s) ==
  s \in raw \/ Crowded(s) \/ \E i \in 1..Len(pending) : s \in Rows(pending[i])

StoreInv ==
  /\ \A s \in remote : s.time \in 0..WindowEnd
  /\ pending \in Seq(Stretch)
  /\ pending # <<>> => backend = "newrelic" /\ \A s \in remote : Found(s)
  /\ raw \subseteq remote
  /\ IndexComplete

(* The least of two numbers is the one that is no larger.                   *)
LEMMA MinOfTwo ==
  ASSUME NEW a \in Int, NEW b \in Int
  PROVE  Min({a, b}) = IF a <= b THEN a ELSE b
<1>1. \E x \in {a, b} : \A y \in {a, b} : x =< y
  BY SMT
<1>2. Min({a, b}) \in {a, b} /\ \A y \in {a, b} : Min({a, b}) =< y
  BY <1>1 DEF Min
<1> QED BY <1>2

(* How many chunks there are: enough of them, and none is beyond the end.   *)
LEMMA Quotient ==
  ASSUME NEW a \in Nat \ {0}, NEW b \in Nat \ {0}
  PROVE  LET n == (a + b - 1) \div b
         IN  /\ n \in Nat \ {0} /\ a <= n * b /\ (n - 1) * b < a
BY Z3

(* The chunks cover the window.                                             *)
LEMMA ChunksCover ==
  /\ Chunks \in Seq(Stretch)
  /\ \A t \in 0..WindowEnd :
       \E i \in 1..Len(Chunks) : Chunks[i][1] <= t /\ t <= Chunks[i][2]
<1> DEFINE n == (WindowEnd + ChunkLen - 1) \div ChunkLen
<1>1. WindowEnd \in Nat \ {0} /\ ChunkLen \in Nat \ {0}
  BY StoreAssumption
<1>2. n \in Nat \ {0} /\ WindowEnd <= n * ChunkLen /\ (n - 1) * ChunkLen < WindowEnd
  BY <1>1, Quotient
<1>3. Chunks = [i \in 1..n |-> <<(i - 1) * ChunkLen, Min({i * ChunkLen, WindowEnd})>>]
  BY DEF Chunks
<1> HIDE DEF n
<1>4. ASSUME NEW i \in 1..n
      PROVE  /\ (i - 1) * ChunkLen \in Nat /\ i * ChunkLen \in Nat
             /\ (i - 1) * ChunkLen < WindowEnd
             /\ i * ChunkLen = (i - 1) * ChunkLen + ChunkLen
             /\ Min({i * ChunkLen, WindowEnd}) \in Nat
             /\ (i - 1) * ChunkLen <= Min({i * ChunkLen, WindowEnd})
             /\ Min({i * ChunkLen, WindowEnd}) = i * ChunkLen \/ Min({i * ChunkLen, WindowEnd}) = WindowEnd
  <2>1. i \in Nat /\ i - 1 \in Nat /\ i - 1 <= n - 1
    BY <1>2
  <2>2. i * ChunkLen = (i - 1) * ChunkLen + ChunkLen /\ i * ChunkLen \in Nat /\ (i - 1) * ChunkLen \in Nat
    BY <1>1, <2>1
  <2>3. (i - 1) * ChunkLen <= (n - 1) * ChunkLen
    BY <1>1, <1>2, <2>1, Z3
  <2>4. (i - 1) * ChunkLen < WindowEnd
    <3>1. (n - 1) * ChunkLen \in Int
      BY <1>1, <1>2
    <3> QED BY <1>1, <1>2, <2>2, <2>3, <3>1
  <2> QED BY <1>1, <2>2, <2>4, MinOfTwo
<1>5. Chunks \in Seq(Stretch) /\ Len(Chunks) = n
  <2>1. \A i \in 1..n : <<(i - 1) * ChunkLen, Min({i * ChunkLen, WindowEnd})>> \in Stretch
    BY <1>4 DEF Stretch
  <2> QED BY <1>2, <1>3, <2>1, IsASeq
<1>6. ASSUME NEW t \in 0..WindowEnd
      PROVE  \E i \in 1..n : Chunks[i][1] <= t /\ t <= Chunks[i][2]
  <2>1. CASE t = 0
    <3>1. 1 \in 1..n /\ (1 - 1) * ChunkLen = 0
      BY <1>1, <1>2
    <3>2. Chunks[1][1] = 0 /\ Chunks[1][2] = Min({1 * ChunkLen, WindowEnd})
      BY <1>3, <3>1
    <3> QED BY <2>1, <3>1, <3>2, <1>4
  <2>2. CASE t # 0
    <3> DEFINE k == (t + ChunkLen - 1) \div ChunkLen
    <3>1. k \in Nat \ {0} /\ t <= k * ChunkLen /\ (k - 1) * ChunkLen < t
      BY <1>1, <2>2, Quotient
    <3> HIDE DEF k
    <3>2. k <= n
      <4>1. SUFFICES ASSUME k - 1 >= n PROVE FALSE
        BY <1>2, <3>1
      <4>2. (k - 1) * ChunkLen >= n * ChunkLen
        BY <1>1, <1>2, <3>1, <4>1, Z3
      <4>3. (k - 1) * ChunkLen \in Int /\ n * ChunkLen \in Int
        BY <1>1, <1>2, <3>1
      <4> QED BY <1>1, <1>2, <3>1, <4>2, <4>3
    <3>3. k \in 1..n
      BY <1>2, <3>1, <3>2
    <3>4. Chunks[k][1] = (k - 1) * ChunkLen /\ Chunks[k][2] = Min({k * ChunkLen, WindowEnd})
      BY <1>3, <3>3
    <3> QED BY <3>1, <3>3, <3>4, <1>4
  <2> QED BY <2>1, <2>2
<1> QED BY <1>5, <1>6

(* What a store answers for a chunk it does not split: rows that the backend *)
(* has, and all of them unless the chunk is crowded.                         *)
LEMMA PageIsHonest ==
  ASSUME NEW c \in Stretch, NEW page \in Pages(c), Full(c) => c[2] - c[1] <= MinChunk
  PROVE  /\ page \subseteq Rows(c)
         /\ \A s \in Rows(c) : s.time \in Nat => s \in page \/ Crowded(s)
<1>1. page \subseteq Rows(c) /\ (~Full(c) => page = Rows(c))
  BY DEF Pages, kSubset
<1>2. ASSUME NEW s \in Rows(c), s.time \in Nat, Full(c)
      PROVE  Crowded(s)
  <2>1. c = <<c[1], c[2]>> /\ c[1] \in Nat /\ c[2] \in Nat /\ c[1] <= c[2]
    BY DEF Stretch
  <2>2. c[1] <= s.time /\ s.time <= c[2]
    BY DEF Rows
  <2> DEFINE len == c[2] - c[1]
  <2>3. c[1] \in 0..s.time /\ len \in 0..MinChunk /\ c[1] + len = c[2]
    BY <1>2, <2>1, <2>2, StoreAssumption
  <2>4. Full(<<c[1], c[1] + len>>)
    BY <1>2, <2>1, <2>3
  <2> QED BY <2>2, <2>3, <2>4, Zenon DEF Crowded
<1> QED BY <1>1, <1>2

(* Hydration starts, goes on and ends with the index complete. The backend  *)
(* stays as it is, and with it what is crowded.                             *)
LEMMA StoreStep ==
  ASSUME StoreInv, StoreNext
  PROVE  StoreInv'
<1> DEFINE Timely == \A s \in remote : s.time \in 0..WindowEnd
<1>1. remote' = remote /\ backend' = backend
  BY DEF StoreNext, LoadFixture, Hydrate, Split, Fetch, Stored, FetchFails, HydrateTraces, TracesFail
<1>2. /\ \A s : Crowded(s)' = Crowded(s)
      /\ \A c : Rows(c)' = Rows(c)
  BY <1>1 DEF Crowded, Full, Rows
<1>3. Timely /\ Timely'
  BY <1>1 DEF StoreInv
<1>4. IndexComplete <=> (index # None /\ backend = "newrelic" =>
                           index \subseteq remote /\ \A s \in remote \ index : Crowded(s))
  BY DEF IndexComplete, Crowded
<1>5. IndexComplete' <=> (index' # None /\ backend' = "newrelic" =>
                            index' \subseteq remote' /\ \A s \in remote' \ index' : Crowded(s)')
  BY DEF IndexComplete, Crowded
<1>6. CASE Hydrate
  <2>1. /\ pending' = Chunks /\ raw' = {} /\ UNCHANGED index /\ backend = "newrelic"
    BY <1>6 DEF Hydrate
  <2>2. pending' \in Seq(Stretch)
    BY <2>1, ChunksCover
  <2>3. \A s \in remote : \E i \in 1..Len(pending') : s \in Rows(pending'[i])
    BY <1>3, <2>1, ChunksCover DEF Rows
  <2>4. \A s \in remote' : Found(s)'
    BY <1>1, <1>2, <2>3 DEF Found
  <2>5. IndexComplete'
    BY <1>1, <1>2, <1>4, <1>5, <2>1 DEF StoreInv
  <2> QED BY <1>1, <1>3, <2>1, <2>2, <2>4, <2>5 DEF StoreInv
<1>7. CASE Split
  <2> DEFINE c == Head(pending)  rest == Tail(pending)  middle == (c[1] + c[2]) \div 2
  <2>1. /\ pending # <<>> /\ pending' = Halves(c) \o rest
        /\ UNCHANGED <<index, raw>>
    BY <1>7 DEF Split
  <2>2. pending \in Seq(Stretch) /\ backend = "newrelic" /\ \A s \in remote : Found(s)
    BY <2>1 DEF StoreInv
  <2>3. /\ c \in Stretch /\ rest \in Seq(Stretch) /\ Len(rest) = Len(pending) - 1
        /\ \A i \in 1..Len(rest) : rest[i] = pending[i + 1]
        /\ c = pending[1] /\ Len(pending) \in Nat \ {0}
    BY <2>1, <2>2, HeadTailProperties
  <2>4. middle \in Nat /\ c[1] <= middle /\ middle <= c[2] /\ c[1] \in Nat /\ c[2] \in Nat
    <3>1. c[1] \in Nat /\ c[2] \in Nat /\ c[1] <= c[2]
      BY <2>3 DEF Stretch
    <3> HIDE DEF c
    <3> QED BY <3>1, Z3
  <2>5. Halves(c) = << <<c[1], middle>>, <<middle, c[2]>> >>
    BY DEF Halves
  <2> HIDE DEF c, rest, middle
  <2>6. /\ Halves(c) \in Seq(Stretch) /\ Len(Halves(c)) = 2
        /\ Halves(c)[1] = <<c[1], middle>> /\ Halves(c)[2] = <<middle, c[2]>>
    <3>1. <<c[1], middle>> \in Stretch /\ <<middle, c[2]>> \in Stretch
      BY <2>4 DEF Stretch
    <3> QED BY <2>5, <3>1
  <2>7. /\ pending' \in Seq(Stretch) /\ Len(pending') = 2 + Len(rest) /\ Len(rest) \in Nat
        /\ pending'[1] = <<c[1], middle>> /\ pending'[2] = <<middle, c[2]>>
        /\ \A i \in 1..Len(rest) : pending'[i + 2] = rest[i]
    <3> HIDE DEF Halves
    <3>1. /\ pending' \in Seq(Stretch) /\ Len(pending') = 2 + Len(rest) /\ Len(rest) \in Nat
          /\ \A i \in 1..(2 + Len(rest)) : pending'[i] = IF i <= 2 THEN Halves(c)[i] ELSE rest[i - 2]
      <4> DEFINE h == Halves(c)
      <4>1. pending' = h \o rest /\ h \in Seq(Stretch) /\ rest \in Seq(Stretch) /\ Len(h) = 2
        BY <2>1, <2>3, <2>6
      <4> HIDE DEF h
      <4>2. /\ pending' \in Seq(Stretch) /\ Len(pending') = Len(h) + Len(rest)
            /\ \A i \in 1..(Len(h) + Len(rest)) :
                 pending'[i] = IF i <= Len(h) THEN h[i] ELSE rest[i - Len(h)]
        BY <4>1, ConcatProperties
      <4>3. Len(rest) \in Nat
        BY <2>3
      <4> QED BY <4>1, <4>2, <4>3 DEF h
    <3> QED BY <2>6, <3>1
  <2>8. ASSUME NEW s \in remote PROVE Found(s)'
    <3>1. CASE s \in raw \/ Crowded(s)
      BY <1>1, <1>2, <2>1, <3>1 DEF Found
    <3>2. CASE \E i \in 1..Len(pending) : s \in Rows(pending[i])
      <4>1. PICK i \in 1..Len(pending) : s \in Rows(pending[i])
        BY <3>2
      <4>2. CASE i = 1
        <5>1. c[1] <= s.time /\ s.time <= c[2] /\ s.time \in Nat
          BY <1>3, <2>3, <4>1, <4>2 DEF Rows
        <5>2. s \in Rows(pending'[1]) \/ s \in Rows(pending'[2])
          BY <2>4, <2>7, <5>1 DEF Rows
        <5>3. 1 \in 1..Len(pending') /\ 2 \in 1..Len(pending')
          BY <2>7
        <5> QED BY <1>2, <5>2, <5>3 DEF Found
      <4>3. CASE i # 1
        <5>1. i - 1 \in 1..Len(rest) /\ rest[i - 1] = pending[i] /\ i + 1 \in 1..Len(pending')
          BY <2>3, <2>7, <4>3
        <5>2. pending'[i + 1] = pending[i]
          <6>1. pending'[(i - 1) + 2] = rest[i - 1]
            BY <2>7, <5>1
          <6> QED BY <5>1, <6>1
        <5> QED BY <1>2, <4>1, <5>1, <5>2 DEF Found
      <4> QED BY <4>2, <4>3
    <3> QED BY <2>2, <3>1, <3>2 DEF Found
  <2>9. IndexComplete'
    BY <1>1, <1>2, <1>4, <1>5, <2>1 DEF StoreInv
  <2> QED BY <1>1, <1>3, <2>1, <2>2, <2>7, <2>8, <2>9 DEF StoreInv
<1>8. CASE Fetch
  <2> DEFINE c == Head(pending)  rest == Tail(pending)
  <2>1. PICK page \in Pages(c) : Stored(page)
    BY <1>8 DEF Fetch
  <2>2. pending # <<>> /\ (Full(c) => c[2] - c[1] <= MinChunk)
    BY <1>8 DEF Fetch
  <2>3. /\ pending \in Seq(Stretch) /\ backend = "newrelic" /\ raw \subseteq remote
        /\ \A s \in remote : Found(s)
    BY <2>2 DEF StoreInv
  <2>4. /\ c \in Stretch /\ rest \in Seq(Stretch) /\ Len(rest) = Len(pending) - 1
        /\ \A i \in 1..Len(rest) : rest[i] = pending[i + 1]
        /\ c = pending[1] /\ Len(pending) \in Nat \ {0}
    BY <2>2, <2>3, HeadTailProperties
  <2>5. /\ page \subseteq remote
        /\ \A s \in Rows(c) : s \in page \/ Crowded(s)
    BY <1>3, <2>1, <2>2, <2>4, PageIsHonest DEF Rows
  <2>6. /\ pending' = rest
        /\ Len(pending) = 1 => index' = raw \cup page /\ raw' = {}
        /\ Len(pending) # 1 => raw' = raw \cup page /\ index' = index
    BY <2>1 DEF Stored
  <2> HIDE DEF c, rest
  <2>7. ASSUME NEW s \in remote
        PROVE  \/ s \in raw \cup page \/ Crowded(s)
               \/ \E i \in 1..Len(rest) : s \in Rows(rest[i])
    <3>1. CASE s \in raw \/ Crowded(s)
      BY <3>1
    <3>2. CASE \E i \in 1..Len(pending) : s \in Rows(pending[i])
      <4>1. PICK i \in 1..Len(pending) : s \in Rows(pending[i])
        BY <3>2
      <4>2. CASE i = 1
        BY <2>4, <2>5, <4>1, <4>2
      <4>3. CASE i # 1
        <5>1. i - 1 \in 1..Len(rest) /\ rest[i - 1] = pending[i]
          BY <2>4, <4>3
        <5> QED BY <4>1, <5>1
      <4> QED BY <4>2, <4>3
    <3> QED BY <2>3, <3>1, <3>2 DEF Found
  <2>8. CASE Len(pending) = 1
    <3>1. Len(rest) = 0 /\ pending' = <<>> /\ raw' = {} /\ index' = raw \cup page
      BY <2>4, <2>6, <2>8
    <3>2. IndexComplete'
      BY <1>1, <1>2, <1>5, <2>3, <2>5, <2>7, <3>1
    <3> QED BY <1>3, <3>1, <3>2 DEF StoreInv
  <2>9. CASE Len(pending) # 1
    <3>1. raw' = raw \cup page /\ index' = index
      BY <2>6, <2>9
    <3>2. \A s \in remote' : Found(s)'
      BY <1>1, <1>2, <2>6, <2>7, <3>1 DEF Found
    <3>3. IndexComplete'
      BY <1>1, <1>2, <1>4, <1>5, <3>1 DEF StoreInv
    <3> QED BY <1>1, <1>3, <2>3, <2>4, <2>5, <2>6, <3>1, <3>2, <3>3 DEF StoreInv
  <2> QED BY <2>8, <2>9
<1>9. CASE FetchFails
  BY <1>1, <1>2, <1>3, <1>4, <1>5, <1>9 DEF FetchFails, StoreInv
<1>10. CASE LoadFixture \/ HydrateTraces \/ TracesFail
  <2>1. backend # "newrelic" /\ UNCHANGED <<pending, raw>>
    BY <1>10 DEF LoadFixture, HydrateTraces, TracesFail
  <2>2. IndexComplete'
    BY <1>1, <1>5, <2>1
  <2> QED BY <1>1, <1>3, <2>1, <2>2 DEF StoreInv
<1> QED BY <1>6, <1>7, <1>8, <1>9, <1>10 DEF StoreNext

(* IndexComplete: the index lacks a span of the window only where a chunk   *)
(* too short to be split is crowded with as many as one answer holds,       *)
(* whatever was split and however often hydration failed and began anew     *)
(* (newrelic/store.py:220-254).                                             *)
THEOREM HydrationIsComplete == StoreSpec => []IndexComplete
<1>1. WindowedInit => StoreInv
  BY DEF WindowedInit, StoreInit, StoreInv, IndexComplete
<1>2. StoreInv /\ [StoreNext]_<<remote, store>> => StoreInv'
  <2>1. ASSUME StoreInv, UNCHANGED <<remote, store>>
        PROVE  StoreInv'
    <3>1. UNCHANGED <<remote, index, pending, raw, backend>>
      BY <2>1 DEF store
    <3>2. (\A s : Crowded(s)' = Crowded(s)) /\ \A c : Rows(c)' = Rows(c)
      BY <3>1 DEF Crowded, Full, Rows
    <3>3. \A s : Found(s)' = Found(s)
      BY <3>1, <3>2 DEF Found
    <3>4. IndexComplete' = IndexComplete
      BY <3>1 DEF IndexComplete, Full, Rows
    <3> QED BY <2>1, <3>1, <3>3, <3>4 DEF StoreInv
  <2> QED BY <2>1, StoreStep
<1>3. StoreInv => IndexComplete
  BY DEF StoreInv
<1> QED BY <1>1, <1>2, <1>3, PTL DEF StoreSpec
-----------------------------------------------------------------------------
(* What is first and what is last in a set of points in time.               *)
LEMMA LeastIsMin ==
  ASSUME NEW S \in SUBSET Nat, S # {}
  PROVE  Min(S) \in S /\ \A t \in S : Min(S) <= t
<1>1. PICK i \in S : \A j \in S : ~(<<j, i>> \in OpToRel(<, Nat))
  BY NatLessThanWellFounded, WFMin
<1>2. ASSUME NEW j \in S PROVE i =< j
  <2>1. <<j, i>> \notin OpToRel(<, Nat)
    BY <1>1
  <2>2. i \in Nat /\ j \in Nat
    BY <1>1
  <2>3. ~(j < i)
    BY <2>1, <2>2, Zenon DEF OpToRel
  <2> QED BY <2>2, <2>3
<1> QED BY <1>2, Zenon DEF Min

(* The largest of numbers that are bounded is one of them.                  *)
LEMMA GreatestIsMax ==
  ASSUME NEW S \in SUBSET Nat, S # {}, NEW end \in Nat, \A t \in S : t <= end
  PROVE  Max(S) \in S /\ \A t \in S : t <= Max(S)
<1> DEFINE Remaining == {end - t : t \in S}  m == Min(Remaining)
<1>1. Remaining \in SUBSET Nat /\ Remaining # {}
  <2>1. \A t \in S : end - t \in Nat
    OBVIOUS
  <2> QED BY <2>1
<1>2. m \in Remaining /\ \A d \in Remaining : m <= d
  <2> HIDE DEF Remaining
  <2> QED BY <1>1, LeastIsMin
<1>3. PICK x \in S : m = end - x
  BY <1>2
<1>4. ASSUME NEW t \in S PROVE x >= t
  <2>1. m <= end - t
    BY <1>2
  <2> HIDE DEF m
  <2> QED BY <1>3, <2>1
<1>5. \A y \in S : Max(S) >= y /\ Max(S) \in S
  BY <1>4, Zenon DEF Max
<1> QED BY <1>5

(* The agreed onset is never later than the first error span, one of the    *)
(* times it was agreed from, and not moved by error logs long before it,    *)
(* whatever the spans and the logs (correlate.py:151-181).                  *)
THEOREM OnsetIsRight ==
  ASSUME Agreement \in Nat, NEW spans \in SUBSET Nat, NEW logs \in SUBSET Nat
  PROVE  OnsetIsFirstError(spans, logs)
<1> DEFINE s == Min(spans)  l == Min(logs)  b == Min(spans \cup logs)
           onset == correlate_onset_consensus(spans, logs)
<1>1. spans # {} => s \in spans /\ s \in Nat /\ \A t \in spans : s <= t
  BY LeastIsMin
<1>2. logs # {} => l \in logs /\ l \in Nat /\ \A t \in logs : l <= t
  BY LeastIsMin
<1>3. spans # {} => b \in spans \cup logs /\ b \in Nat /\ \A t \in spans \cup logs : b <= t
  <2> DEFINE both == spans \cup logs
  <2>1. spans # {} => both \in SUBSET Nat /\ both # {}
    OBVIOUS
  <2> HIDE DEF both
  <2>2. spans # {} => Min(both) \in both /\ \A t \in both : Min(both) <= t
    BY <2>1, LeastIsMin
  <2> QED BY <2>1, <2>2 DEF both
<1>4. CASE spans = {}
  <2>1. logs # {} => onset = l
    BY <1>4 DEF correlate_onset_consensus
  <2> QED BY <1>2, <1>4, <2>1 DEF OnsetIsFirstError
<1>5. CASE spans # {} /\ logs # {} /\ Magnitude(s - l) <= Agreement
  <2>1. onset = b
    BY <1>5 DEF correlate_onset_consensus
  <2>2. s - Agreement <= l /\ l <= s + Agreement
    BY <1>1, <1>2, <1>5 DEF Magnitude
  <2>3. b \in (s - Agreement)..s
    <3>1. b <= s /\ (b \in spans \/ b \in logs)
      BY <1>1, <1>3, <1>5
    <3>2. s - Agreement <= b
      BY <1>1, <1>2, <1>3, <1>5, <2>2, <3>1
    <3> QED BY <1>1, <1>3, <1>5, <3>1, <3>2
  <2>4. (\A t \in logs : t > s \/ t < s - Agreement) => b = s
    <3>1. b \in spans \/ b \in logs
      BY <1>3, <1>5
    <3> QED BY <1>1, <1>2, <1>3, <1>5, <2>2, <2>3, <3>1
  <2> HIDE DEF s, l, b
  <2> QED BY <1>3, <1>5, <2>1, <2>3, <2>4 DEF OnsetIsFirstError, s
<1>6. CASE spans # {} /\ ~(logs # {} /\ Magnitude(s - l) <= Agreement)
  <2>1. onset = s
    BY <1>6 DEF correlate_onset_consensus
  <2>2. s \in (s - Agreement)..s
    BY <1>1, <1>6
  <2> QED BY <1>1, <1>6, <2>1, <2>2 DEF OnsetIsFirstError
<1> QED BY <1>4, <1>5, <1>6

(* A moment is in the bucket that it is counted to.                         *)
LEMMA InItsBucket ==
  ASSUME NEW t \in Nat, NEW bucket \in Nat \ {0}
  PROVE  /\ t \div bucket \in Nat
         /\ \A b \in Nat : (t < b * bucket) = (t \div bucket < b)
<1>1. t \div bucket \in Nat /\ (t \div bucket) * bucket <= t /\ t < (t \div bucket + 1) * bucket
  BY Z3
<1> DEFINE q == t \div bucket
<1> HIDE DEF q
<1>2. ASSUME NEW b \in Nat PROVE (t < b * bucket) = (q < b)
  <2>0. q \in Nat /\ q * bucket <= t /\ t < (q + 1) * bucket /\ q * bucket \in Nat /\ b * bucket \in Nat /\ (q + 1) * bucket \in Nat
    BY <1>1 DEF q
  <2>1. CASE q < b
    <3>1. (q + 1) * bucket <= b * bucket
      BY <2>0, <2>1, Z3
    <3> QED BY <2>0, <2>1, <3>1
  <2>2. CASE ~(q < b)
    <3>1. b * bucket <= q * bucket
      BY <2>0, <2>2, Z3
    <3> QED BY <2>0, <2>2, <3>1
  <2> QED BY <2>1, <2>2
<1> QED BY <1>1, <1>2 DEF q

(* A product grows with its factor.                                         *)
LEMMA TimesIsMonotone ==
  ASSUME NEW x \in Nat, NEW y \in Nat, NEW k \in Nat, x <= y
  PROVE  x * k <= y * k /\ x * k \in Nat /\ y * k \in Nat
BY Z3

(* Nothing was emitted in what is called a gap, it was resumed exactly if    *)
(* something was emitted since, and a bucket without emissions between two   *)
(* that have some, or before the last bucket of the window and after all     *)
(* that have some, is in a gap, for any moments of emission, length of       *)
(* bucket and end (traces.py:349-393).                                       *)
THEOREM SilenceIsReal ==
  ASSUME NEW bucket \in Nat \ {0}, NEW end \in Nat, NEW latest \in Nat, NEW S \in SUBSET (0..latest)
  PROVE  SilencesAreReal(S, bucket, end)
<1> DEFINE active == {t \div bucket : t \in S}
           gaps == traces_emission_gaps(S, bucket, end)
           later(b) == {c \in active : c > b}
           earlier(b) == {c \in active : c < b}
           final == Max(active)
           lastBucket == end \div bucket
<1>1. \A t \in S : /\ t \in Nat /\ t \div bucket \in active /\ t \div bucket \in Nat
                   /\ t \div bucket <= latest
                   /\ \A b \in Nat : (t < b * bucket) = (t \div bucket < b)
  <2>1. ASSUME NEW t \in S PROVE t \div bucket <= latest /\ t \div bucket \in active /\ t \in Nat
    <3>1. t \div bucket <= t
      BY Z3
    <3>2. t \div bucket \in Nat
      BY InItsBucket
    <3> QED BY <3>1, <3>2
  <2> QED BY <2>1, InItsBucket
<1>2. /\ active \in SUBSET Nat /\ \A c \in active : c <= latest
      /\ \A c \in active : \E t \in S : t \div bucket = c
  BY <1>1
<1>3. lastBucket \in Nat /\ lastBucket * bucket <= end
  BY Z3
<1>4. gaps = IF Cardinality(active) < 2 THEN {}
             ELSE Between(active, bucket) \cup
                  IF final < lastBucket - 1 THEN {Gap((final + 1) * bucket, end, FALSE)} ELSE {}
  BY DEF traces_emission_gaps
<1>5. Between(active, bucket) =
        {Gap((b + 1) * bucket, Min(later(b)) * bucket, TRUE) :
           b \in {a \in active : a + 1 \notin active /\ \E c \in active : c > a}}
  BY DEF Between
<1>6. ~(Cardinality(active) < 2) => active # {}
  BY FS_EmptySet
<1> HIDE DEF active, gaps, lastBucket
<1>7. active # {} => final \in active /\ \A c \in active : c <= final
  BY <1>2, GreatestIsMax
<1>8. ASSUME NEW b \in Nat, later(b) # {}
      PROVE  Min(later(b)) \in active /\ Min(later(b)) > b /\ \A c \in active : c > b => Min(later(b)) <= c
  <2> DEFINE L == later(b)
  <2>1. L \in SUBSET Nat /\ L # {}
    BY <1>2, <1>8
  <2>2. \A c \in L : c \in active /\ c > b
    OBVIOUS
  <2>3. \A c \in active : c > b => c \in L
    OBVIOUS
  <2> HIDE DEF L
  <2>4. Min(L) \in L /\ \A c \in L : Min(L) <= c
    BY <2>1, LeastIsMin
  <2>5. Min(L) \in active /\ Min(L) > b /\ \A c \in active : c > b => Min(L) <= c
    BY <2>2, <2>3, <2>4
  <2> QED BY <2>5 DEF L
<1>9. ASSUME NEW b \in Nat, earlier(b) # {}
      PROVE  Max(earlier(b)) \in active /\ Max(earlier(b)) < b /\ \A c \in active : c < b => c <= Max(earlier(b))
  <2> DEFINE E == earlier(b)
  <2>1. E \in SUBSET Nat /\ E # {} /\ \A c \in E : c <= latest
    BY <1>2, <1>9
  <2>2. \A c \in E : c \in active /\ c < b
    OBVIOUS
  <2>3. \A c \in active : c < b => c \in E
    OBVIOUS
  <2> HIDE DEF E
  <2>4. Max(E) \in E /\ \A c \in E : c <= Max(E)
    BY <2>1, GreatestIsMax
  <2>5. Max(E) \in active /\ Max(E) < b /\ \A c \in active : c < b => c <= Max(E)
    BY <2>2, <2>3, <2>4
  <2> QED BY <2>5 DEF E
<1> HIDE DEF later, earlier, final
<1>10. ASSUME NEW g \in gaps
       PROVE  /\ ~\E t \in S : g.start <= t /\ t < g.end
              /\ g.resumed = (\E t \in S : t >= g.end)
  <2>1. CASE g \in Between(active, bucket)
    <3>1. PICK b \in active : /\ g = Gap((b + 1) * bucket, Min(later(b)) * bucket, TRUE)
                              /\ \E c \in active : c > b
      BY <1>5, <2>1
    <3> DEFINE d == Min(later(b))
    <3>2. b \in Nat /\ d \in active /\ d \in Nat /\ d > b /\ \A c \in active : c > b => d <= c
      <4>1. b \in Nat /\ later(b) # {}
        BY <1>2, <3>1 DEF later
      <4> QED BY <1>2, <1>8, <4>1
    <3>3. g.start = (b + 1) * bucket /\ g.end = d * bucket /\ g.resumed = TRUE
      BY <3>1 DEF Gap
    <3> HIDE DEF d
    <3>4. ASSUME NEW t \in S, g.start <= t, t < g.end PROVE FALSE
      <4>1. t \div bucket < d
        BY <1>1, <3>2, <3>3, <3>4
      <4>2. ~(t < (b + 1) * bucket)
        <5>1. (b + 1) * bucket \in Nat /\ t \in Nat
          BY <1>1, <3>2
        <5> QED BY <3>3, <3>4, <5>1
      <4>3. ~(t \div bucket < b + 1)
        BY <1>1, <3>2, <4>2
      <4> QED BY <1>1, <3>2, <4>1, <4>3
    <3>5. \E t \in S : t >= g.end
      <4>1. PICK t \in S : t \div bucket = d
        BY <1>2, <3>2
      <4>2. ~(t < d * bucket) /\ t \in Nat /\ d * bucket \in Nat
        BY <1>1, <3>2, <4>1
      <4> QED BY <3>3, <4>2
    <3> QED BY <3>3, <3>4, <3>5
  <2>2. CASE g \notin Between(active, bucket)
    <3>1. active # {} /\ final < lastBucket - 1 /\ g = Gap((final + 1) * bucket, end, FALSE)
      BY <1>4, <1>6, <2>2
    <3>2. final \in Nat /\ \A t \in S : t < (final + 1) * bucket
      <4>1. final \in Nat /\ \A c \in active : c <= final
        BY <1>2, <1>7, <3>1
      <4>2. ASSUME NEW t \in S PROVE t < (final + 1) * bucket
        <5>1. t \div bucket < final + 1 /\ final + 1 \in Nat
          BY <1>1, <4>1
        <5> QED BY <1>1, <5>1
      <4> QED BY <4>1, <4>2
    <3>3. g.start = (final + 1) * bucket /\ g.end = end /\ g.resumed = FALSE
      BY <3>1 DEF Gap
    <3>4. (final + 1) * bucket <= lastBucket * bucket /\ (final + 1) * bucket \in Nat /\ lastBucket * bucket \in Nat
      BY <1>3, <3>1, <3>2, TimesIsMonotone
    <3>5. \A t \in S : t < g.start /\ t < g.end
      BY <1>1, <1>3, <3>2, <3>3, <3>4
    <3>6. \A t \in S : t \in Nat /\ ~(g.start <= t) /\ ~(t >= g.end)
      BY <1>1, <3>3, <3>4, <3>5
    <3> QED BY <3>3, <3>6
  <2> QED BY <2>1, <2>2
<1>11. ASSUME Cardinality(active) > 1, NEW b \in Nat, b \notin active,
              \E c \in active : c < b, \E c \in active : c > b
       PROVE  \E g \in gaps : g.start <= b * bucket /\ (b + 1) * bucket <= g.end
  <2> DEFINE a == Max(earlier(b))  d == Min(later(a))
  <2>1. a \in active /\ a \in Nat /\ a < b /\ \A c \in active : c < b => c <= a
    <3>1. earlier(b) # {}
      BY <1>11 DEF earlier
    <3> QED BY <1>2, <1>9, <3>1
  <2> HIDE DEF a
  <2>2. a + 1 \notin active /\ \E c \in active : c > a
    <3>1. ASSUME a + 1 \in active PROVE FALSE
      <4>1. a + 1 # b /\ a + 1 <= b
        BY <1>11, <2>1, <3>1
      <4>2. a + 1 <= a
        BY <2>1, <3>1, <4>1
      <4> QED BY <2>1, <4>2
    <3>2. PICK c \in active : c > b
      BY <1>11
    <3>3. c \in Nat /\ c > a
      BY <1>2, <2>1, <3>2
    <3> QED BY <3>1, <3>3
  <2>3. d \in active /\ d \in Nat /\ d > a
    <3>1. later(a) # {}
      BY <2>2 DEF later
    <3> QED BY <1>2, <1>8, <2>1, <3>1
  <2>4. d > b
    BY <1>11, <2>1, <2>3
  <2> DEFINE g == Gap((a + 1) * bucket, d * bucket, TRUE)
  <2>5. g \in Between(active, bucket)
    BY <1>5, <2>1, <2>2
  <2>6. g \in gaps
    <3>1. ~(Cardinality(active) < 2)
      <4>1. IsFiniteSet(active)
        BY <1>2, FS_BoundedSetOfNaturals
      <4>2. Cardinality(active) \in Nat
        BY <4>1, FS_CardinalityType
      <4> QED BY <1>11, <4>2
    <3> QED BY <1>4, <2>5, <3>1
  <2>7. g.start = (a + 1) * bucket /\ g.end = d * bucket
    BY DEF Gap
  <2>8. (a + 1) * bucket <= b * bucket /\ (b + 1) * bucket <= d * bucket
    <3> HIDE DEF d, g
    <3>1. a + 1 \in Nat /\ a + 1 <= b /\ b + 1 \in Nat /\ b + 1 <= d /\ bucket \in Nat
      BY <2>1, <2>3, <2>4
    <3> QED BY <2>3, <3>1, TimesIsMonotone
  <2> HIDE DEF g
  <2> QED BY <2>6, <2>7, <2>8
<1>12. ASSUME Cardinality(active) > 1, NEW b \in Nat, \A c \in active : c < b, b < lastBucket - 1
       PROVE  \E g \in gaps : g.start <= b * bucket /\ end <= g.end
  <2> DEFINE g == Gap((final + 1) * bucket, end, FALSE)
  <2>1. ~(Cardinality(active) < 2)
    <3>1. IsFiniteSet(active)
      BY <1>2, FS_BoundedSetOfNaturals
    <3>2. Cardinality(active) \in Nat
      BY <3>1, FS_CardinalityType
    <3> QED BY <1>12, <3>2
  <2>2. final \in active /\ final \in Nat /\ final + 1 <= b
    <3>1. final \in active
      BY <1>6, <1>7, <2>1
    <3>2. final < b /\ final \in Nat
      BY <1>2, <1>12, <3>1
    <3> QED BY <3>1, <3>2
  <2>3. g \in gaps
    <3>1. final < lastBucket - 1
      BY <1>3, <1>12, <2>2
    <3>2. gaps = Between(active, bucket) \cup {g}
      BY <1>4, <2>1, <3>1
    <3> QED BY <3>2
  <2>4. g.start = (final + 1) * bucket /\ g.end = end
    BY DEF Gap
  <2>5. (final + 1) * bucket <= b * bucket
    BY <2>2, TimesIsMonotone
  <2> HIDE DEF g
  <2> QED BY <2>3, <2>4, <2>5
<1> QED
  <2>1. 0..(lastBucket - 1) \subseteq Nat
    OBVIOUS
  <2> QED BY <1>10, <1>11, <1>12, <2>1 DEF SilencesAreReal, active, gaps, lastBucket

(* Every part of the window that has logs is represented among those that    *)
(* are recorded, and complete when its rows fit its share, for any rows, any *)
(* number of parts and any limit (workflow.py:254-291).                      *)
THEOREM RecordedLogsAreSpread ==
  ASSUME NEW rows, IsFiniteSet(rows), \A r \in rows : r.time \in Nat /\ r.id \in Nat,
         NEW end \in Nat, NEW buckets \in Nat \ {0}, NEW limit \in Nat \ {0}
  PROVE  LogsAreSpread(rows, end, buckets, limit)
<1> DEFINE share == (limit + buckets - 1) \div buckets
           within(i) == {r \in rows : (i - 1) * end <= r.time * buckets /\ r.time * buckets <= i * end}
           sooner(R, r) == {q \in R : q.time < r.time \/ (q.time = r.time /\ q.id < r.id)}
           earliest(R) == {r \in R : Cardinality(sooner(R, r)) < share}
           kept == _collect_bucketed_logs(rows, end, buckets, limit)
<1>1. kept = UNION {earliest(within(i)) : i \in 1..buckets}
  BY Zenon DEF _collect_bucketed_logs
<1>2. share \in Nat \ {0} /\ limit <= share * buckets
  BY Quotient
<1>3. \A i : within(i) \subseteq rows
  OBVIOUS
<1> HIDE DEF share, within, kept
<1>4. ASSUME NEW R \in SUBSET rows, R # {}
      PROVE  earliest(R) # {}
  <2> DEFINE Times == {r.time : r \in R}  t == Min(Times)
             Ids == {r.id : r \in {q \in R : q.time = t}}  d == Min(Ids)
  <2>1. Times \in SUBSET Nat /\ Times # {}
    BY <1>4
  <2>2. t \in Times /\ \A u \in Times : t <= u
    <3> HIDE DEF Times
    <3> QED BY <2>1, LeastIsMin
  <2>3. PICK q \in R : q.time = t
    BY <2>2
  <2>4. \A r \in R : t <= r.time
    BY <2>2
  <2> HIDE DEF t
  <2>5. Ids \in SUBSET Nat /\ Ids # {}
    BY <2>3
  <2>6. d \in Ids /\ \A u \in Ids : d <= u
    <3> HIDE DEF Ids
    <3> QED BY <2>5, LeastIsMin
  <2>7. PICK r \in R : r.time = t /\ r.id = d
    BY <2>6
  <2>8. \A u \in R : u.time = t => d <= u.id
    BY <2>6
  <2> HIDE DEF d
  <2>9. sooner(R, r) = {}
    <3>1. ASSUME NEW u \in R, u.time < r.time \/ (u.time = r.time /\ u.id < r.id) PROVE FALSE
      <4>1. u.time \in Nat /\ u.id \in Nat /\ r.time \in Nat /\ r.id \in Nat
        OBVIOUS
      <4> QED BY <2>4, <2>7, <2>8, <3>1, <4>1
    <3> QED BY <3>1
  <2>10. Cardinality(sooner(R, r)) < share
    <3> HIDE DEF sooner
    <3>1. Cardinality(sooner(R, r)) = 0
      BY <2>9, FS_EmptySet
    <3> QED BY <1>2, <3>1
  <2> HIDE DEF sooner
  <2> QED BY <2>10
<1>5. ASSUME NEW R \in SUBSET rows, buckets * Cardinality(R) <= limit
      PROVE  earliest(R) = R
  <2>1. IsFiniteSet(R) /\ Cardinality(R) \in Nat
    BY FS_Subset, FS_CardinalityType
  <2>2. Cardinality(R) <= share
    <3>1. SUFFICES ASSUME share + 1 <= Cardinality(R) PROVE FALSE
      BY <1>2, <2>1
    <3> DEFINE k == Cardinality(R)
    <3>2. share + 1 \in Nat /\ k \in Nat /\ share + 1 <= k /\ buckets * k <= limit
      BY <1>2, <1>5, <2>1, <3>1
    <3> HIDE DEF k
    <3>3. (share + 1) * buckets <= k * buckets
      BY <3>2, TimesIsMonotone
    <3>4. (share + 1) * buckets = share * buckets + buckets /\ buckets * k = k * buckets
          /\ share * buckets \in Nat /\ k * buckets \in Nat
      BY <1>2, <3>2, Z3
    <3> QED BY <1>2, <3>2, <3>3, <3>4
  <2>3. ASSUME NEW r \in R PROVE Cardinality(sooner(R, r)) < share
    <3>1. r \notin sooner(R, r)
      <4>1. r.time \in Nat /\ r.id \in Nat
        OBVIOUS
      <4> QED BY <4>1
    <3>2. sooner(R, r) \in SUBSET R
      OBVIOUS
    <3> HIDE DEF sooner
    <3>3. /\ Cardinality(sooner(R, r)) \in Nat /\ Cardinality(sooner(R, r)) <= Cardinality(R)
          /\ Cardinality(R) = Cardinality(sooner(R, r)) => R = sooner(R, r)
      BY <2>1, <3>2, FS_Subset, FS_CardinalityType
    <3>4. Cardinality(sooner(R, r)) # Cardinality(R)
      BY <3>1, <3>3
    <3> QED BY <1>2, <2>1, <2>2, <3>3, <3>4
  <2> HIDE DEF sooner
  <2> QED BY <2>3
<1>6. kept \subseteq rows /\ \A i \in 1..buckets : earliest(within(i)) \subseteq kept
  BY <1>1, <1>3
<1>7. \A i : earliest(within(i)) \subseteq within(i)
  OBVIOUS
<1> HIDE DEF earliest
<1>8. \A i \in 1..buckets :
        /\ within(i) # {} => within(i) \cap kept # {}
        /\ buckets * Cardinality(within(i)) <= limit => within(i) \subseteq kept
  <2> TAKE i \in 1..buckets
  <2> DEFINE W == within(i)
  <2>1. W \in SUBSET rows /\ earliest(W) \subseteq W /\ earliest(W) \subseteq kept
    BY <1>3, <1>6, <1>7
  <2> HIDE DEF W
  <2>2. W # {} => earliest(W) # {}
    BY <1>4, <2>1
  <2>3. buckets * Cardinality(W) <= limit => earliest(W) = W
    BY <1>5, <2>1
  <2>4. (W # {} => W \cap kept # {}) /\ (buckets * Cardinality(W) <= limit => W \subseteq kept)
    BY <2>1, <2>2, <2>3
  <2> QED BY <2>4 DEF W
<1> QED BY <1>6, <1>8, Zenon DEF LogsAreSpread, within, kept
-----------------------------------------------------------------------------
(* Alerts and decoys that are accepted, and the spans, points and lines of  *)
(* a system as three backends have them.                                     *)

(* Scenarios that are accepted fire an alert each, and the same as another   *)
(* scenario; and the second test finds nothing by itself, for any finite     *)
(* matrix of the alerts that scenarios fire (coverage.py:27-54).             *)
THEOREM NoAlertIsTelling ==
  ASSUME NEW matrix, IsFiniteSet(DOMAIN matrix)
  PROVE  NoAlertTells(matrix)
<1> DEFINE scenarios == DOMAIN matrix
           fired == UNION {matrix[s] : s \in scenarios}
           firing(a) == {s \in scenarios : a \in matrix[s]}
           alike(s) == {u \in scenarios : matrix[u] = matrix[s]}
           found == assert_coverage_invariants(matrix)
<1>1. found = {"E1" : s \in {t \in scenarios : matrix[t] = {}}}
                \cup {"E2" : a \in {b \in fired : Cardinality(firing(b)) < 2}}
                \cup {"E3" : s \in {t \in scenarios : Cardinality(alike(t)) < 2}}
  BY Zenon DEF assert_coverage_invariants
<1>2. ASSUME NEW S \in SUBSET scenarios, NEW s \in S
      PROVE  (Cardinality(S) < 2) = (S = {s})
  <2>1. IsFiniteSet(S) /\ Cardinality(S) \in Nat
    BY FS_Subset, FS_CardinalityType
  <2>2. Cardinality({s}) = 1 /\ IsFiniteSet({s})
    BY FS_Singleton
  <2>3. {s} \in SUBSET S /\ Cardinality({s}) <= Cardinality(S)
    BY <2>1, FS_Subset
  <2>4. Cardinality(S) = 1 => S = {s}
    BY <2>1, <2>2, <2>3, FS_Subset
  <2> QED BY <2>1, <2>2, <2>3, <2>4
<1>3. ASSUME found = {}, NEW s \in scenarios
      PROVE  matrix[s] # {} /\ \E t \in scenarios \ {s} : matrix[s] = matrix[t]
  <2>1. matrix[s] # {}
    BY <1>1, <1>3
  <2>2. ~(Cardinality(alike(s)) < 2)
    BY <1>1, <1>3
  <2>3. alike(s) \in SUBSET scenarios /\ s \in alike(s)
    OBVIOUS
  <2>4. alike(s) # {s}
    <3> HIDE DEF alike
    <3> QED BY <1>2, <2>2, <2>3
  <2> QED BY <2>1, <2>3, <2>4
<1>4. ASSUME "E2" \in found PROVE "E3" \in found
  <2>1. PICK a \in fired : Cardinality(firing(a)) < 2
    BY <1>1, <1>4
  <2>2. PICK s \in scenarios : a \in matrix[s]
    BY <2>1
  <2>3. firing(a) \in SUBSET scenarios /\ s \in firing(a)
    BY <2>2
  <2>4. firing(a) = {s}
    <3> HIDE DEF firing
    <3> QED BY <1>2, <2>1, <2>3
  <2>5. alike(s) = {s}
    BY <2>2, <2>4
  <2>6. alike(s) \in SUBSET scenarios /\ s \in alike(s)
    OBVIOUS
  <2>7. Cardinality(alike(s)) < 2
    <3> HIDE DEF alike
    <3> QED BY <1>2, <2>5, <2>6
  <2> HIDE DEF alike, firing
  <2> QED BY <1>1, <2>7
<1> QED BY <1>3, <1>4, Zenon DEF NoAlertTells

(* Accepted decoys are changes of the fixture, as the culprit is, and other  *)
(* than it; that a decoy be identical to the culprit is only complained of   *)
(* when it is the culprit, for any changes and any ground truth              *)
(* (validator.py:126-147).                                                   *)
THEOREM AcceptedDecoysAreOthers ==
  ASSUME NEW changed, NEW truth
  PROVE  DecoysAreOthers(changed, truth)
<1> DEFINE named(id) == {c \in changed : c.id = id}
           culprit == named(truth.culprit)
           is(p, complaint) == IF p THEN {complaint} ELSE {}
           judged(d) == IF named(d) = {} THEN {"no decoy"}
                        ELSE is(d = truth.culprit, "duplicates") \cup is(named(d) = culprit, "identical")
           found == _validate_decoys(changed, truth)
<1>1. found = IF truth.decoys = {} THEN {"no decoys"}
              ELSE is(culprit = {}, "no culprit") \cup UNION {judged(d) : d \in truth.decoys}
  BY Zenon DEF _validate_decoys
<1>2. \A d : /\ judged(d) = {} => named(d) # {} /\ d # truth.culprit
             /\ "identical" \in judged(d) => named(d) # {} /\ named(d) = culprit
             /\ named(d) # {} /\ d = truth.culprit => "duplicates" \in judged(d)
  OBVIOUS
<1>3. /\ is(culprit = {}, "no culprit") = {} => culprit # {}
      /\ "identical" \notin is(culprit = {}, "no culprit")
  OBVIOUS
<1> HIDE DEF found, judged, is
<1>4. ASSUME found = {}
      PROVE  /\ truth.decoys \cup {truth.culprit} \subseteq {c.id : c \in changed}
             /\ truth.culprit \notin truth.decoys /\ truth.decoys # {}
  <2>1. truth.decoys # {} /\ is(culprit = {}, "no culprit") = {}
        /\ \A d \in truth.decoys : judged(d) = {}
    BY <1>1, <1>4
  <2>2. culprit # {} /\ \A d \in truth.decoys : named(d) # {} /\ d # truth.culprit
    BY <1>2, <1>3, <2>1
  <2> QED BY <2>1, <2>2
<1>5. ASSUME "identical" \in found PROVE "duplicates" \in found
  <2>1. truth.decoys # {} /\ \E d \in truth.decoys : "identical" \in judged(d)
    BY <1>1, <1>3, <1>5
  <2>2. PICK d \in truth.decoys : "identical" \in judged(d)
    BY <2>1
  <2>3. named(d) # {} /\ named(d) = culprit
    BY <1>2, <2>2
  <2>4. d = truth.culprit
    BY <2>3
  <2>5. "duplicates" \in judged(d)
    BY <1>2, <2>3, <2>4
  <2> QED BY <1>1, <2>1, <2>5
<1> QED BY <1>4, <1>5, Zenon DEF DecoysAreOthers, found

(* What is before the window is said to be of its beginning.                *)
LEMMA NotBelowZero ==
  ASSUME NEW x \in Int
  PROVE  Max({0, x}) = IF x < 0 THEN 0 ELSE x
<1>1. \E m \in {0, x} : \A y \in {0, x} : m >= y
  OBVIOUS
<1>2. Max({0, x}) \in {0, x} /\ \A y \in {0, x} : Max({0, x}) >= y
  BY <1>1, Zenon DEF Max
<1> QED BY <1>2

(* Both count full seconds q, and the recording one more when the rest r is *)
(* above a half, or is a half and q is odd.                                  *)
LEMMA SecondIs ==
  ASSUME NEW t \in Int
  PROVE  \E q \in Int, r \in 0..3, up \in 0..1 :
           /\ t = 4 * q + r
           /\ (r = 3 => up = 1) /\ (r = 2 => up = q % 2) /\ (r < 2 => up = 0)
           /\ rel_seconds(t) = IF q < 0 THEN 0 ELSE q
           /\ _relative_second(t) = IF q + up < 0 THEN 0 ELSE q + up
<1> DEFINE q == t \div 4
           r == t % 4
           above == r > 2 \/ (r = 2 /\ q % 2 = 1)
<1>1. q \in Int /\ r \in 0..3 /\ t = 4 * q + r
  BY Z3
<1>2. rel_seconds(t) = Max({0, q})
  BY Zenon DEF rel_seconds
<1>3. _relative_second(t) = Max({0, IF above THEN q + 1 ELSE q})
  BY Zenon DEF _relative_second
<1> HIDE DEF q, r
<1>4. q % 2 \in 0..1
  BY <1>1
<1>5. rel_seconds(t) = IF q < 0 THEN 0 ELSE q
  BY <1>1, <1>2, NotBelowZero
<1>6. CASE above
  <2>1. _relative_second(t) = Max({0, q + 1}) /\ q + 1 \in Int
    BY <1>1, <1>3, <1>6
  <2>2. _relative_second(t) = IF q + 1 < 0 THEN 0 ELSE q + 1
    BY <2>1, NotBelowZero
  <2>3. (r = 3 => 1 = 1) /\ (r = 2 => 1 = q % 2) /\ (r < 2 => 1 = 0)
    BY <1>1, <1>6
  <2>4. 1 \in 0..1
    OBVIOUS
  <2> QED BY <1>1, <1>5, <2>2, <2>3, <2>4, Zenon
<1>7. CASE ~above
  <2>1. _relative_second(t) = Max({0, q + 0}) /\ q + 0 \in Int
    BY <1>1, <1>3, <1>7
  <2>2. _relative_second(t) = IF q + 0 < 0 THEN 0 ELSE q + 0
    BY <2>1, NotBelowZero
  <2>3. (r = 3 => 0 = 1) /\ (r = 2 => 0 = q % 2) /\ (r < 2 => 0 = 0)
    BY <1>1, <1>4, <1>7
  <2>4. 0 \in 0..1
    OBVIOUS
  <2> QED BY <1>1, <1>5, <2>2, <2>3, <2>4, Zenon
<1> QED BY <1>6, <1>7

(* The seconds that the backends give to a moment are no more than one       *)
(* apart, the recording's never the earlier, and neither goes back in time.  *)
LEMMA SecondsAre ==
  ASSUME NEW t \in Int
  PROVE  /\ rel_seconds(t) \in Nat /\ _relative_second(t) \in Nat
         /\ _relative_second(t) - rel_seconds(t) \in 0..1
         /\ t >= 0 => /\ 4 * _relative_second(t) - t \in -2..2
                      /\ 4 * rel_seconds(t) - t \in -3..0
         /\ \A u \in Int : t <= u => /\ rel_seconds(t) <= rel_seconds(u)
                                    /\ _relative_second(t) <= _relative_second(u)
<1>1. PICK q \in Int, r \in 0..3, up \in 0..1 :
        /\ t = 4 * q + r
        /\ (r = 3 => up = 1) /\ (r = 2 => up = q % 2) /\ (r < 2 => up = 0)
        /\ rel_seconds(t) = IF q < 0 THEN 0 ELSE q
        /\ _relative_second(t) = IF q + up < 0 THEN 0 ELSE q + up
  BY SecondIs, Zenon
<1> DEFINE a == rel_seconds(t)   b == _relative_second(t)
<1>2. a = (IF q < 0 THEN 0 ELSE q) /\ b = (IF q + up < 0 THEN 0 ELSE q + up)
  BY <1>1
<1> HIDE DEF a, b
<1>3. a \in Nat /\ b \in Nat /\ b - a \in 0..1
  BY <1>2
<1>4. t >= 0 => 4 * b - t \in -2..2 /\ 4 * a - t \in -3..0
  BY <1>1, <1>2
<1>5. ASSUME NEW u \in Int, t <= u
      PROVE  a <= rel_seconds(u) /\ b <= _relative_second(u)
  <2>1. PICK p \in Int, s \in 0..3, on \in 0..1 :
          /\ u = 4 * p + s
          /\ (s = 3 => on = 1) /\ (s = 2 => on = p % 2) /\ (s < 2 => on = 0)
          /\ rel_seconds(u) = IF p < 0 THEN 0 ELSE p
          /\ _relative_second(u) = IF p + on < 0 THEN 0 ELSE p + on
    BY SecondIs, Zenon
  <2> DEFINE c == rel_seconds(u)   d == _relative_second(u)
  <2>2. c = (IF p < 0 THEN 0 ELSE p) /\ d = (IF p + on < 0 THEN 0 ELSE p + on)
    BY <2>1
  <2> HIDE DEF c, d
  <2>3. q <= p
    BY <1>1, <1>5, <2>1
  <2>4. q + up <= p + on
    <3>1. CASE q = p
      <4>1. r <= s
        BY <1>1, <1>5, <2>1, <3>1
      <4>2. up <= on
        BY <1>1, <2>1, <3>1, <4>1
      <4> QED BY <3>1, <4>2
    <3>2. CASE q # p
      BY <2>3, <3>2
    <3> QED BY <3>1, <3>2
  <2>5. a <= c /\ b <= d
    BY <1>2, <2>2, <2>3, <2>4
  <2> QED BY <2>5 DEF c, d
<1> QED BY <1>3, <1>4, <1>5 DEF a, b

(* Spans of one system, with an id each: the live index, Tempo and the       *)
(* recording hold the same ones, in the same order and less than a second    *)
(* and a half apart, and disagree on an error only for the codes of a call,  *)
(* for any spans (mapping.py:35-51, lgtm/store.py:260-283,                   *)
(* normalizer.py:62-99).                                                     *)
THEOREM SpansAreOfOneSystem ==
  ASSUME NEW emitted,
         \A s \in emitted : /\ s.time \in Int /\ s.service # Anonymous
                            /\ s.grpc \in {0, 5, Nothing} /\ s.http \in {Nothing, 404, 500},
         \A s, t \in emitted : s.id = t.id => s = t
  PROVE  SpansAgree(emitted)
<1> DEFINE live == UNION {to_trace_row(s) : s \in emitted}
           kept == UNION {normalize_jaeger_traces(s) : s \in emitted}
           tempo == UNION {_parse_trace(s) : s \in emitted}
           known == {s \in emitted : s.service # Nothing}
           liveRow(s) == SpanRow(s, rel_seconds(s.time), s.otel = "error")
           keptRow(s) == SpanRow(s, _relative_second(s.time), _span_status(s))
<1>1. live = {liveRow(s) : s \in known}
  BY DEF to_trace_row
<1>2. kept = {keptRow(s) : s \in known}
  BY DEF normalize_jaeger_traces
<1>3. tempo = {liveRow(s) : s \in emitted}
  BY DEF _parse_trace
<1>4. \A s \in emitted :
        /\ liveRow(s).id = s.id /\ liveRow(s).time = rel_seconds(s.time)
        /\ liveRow(s).error = (s.otel = "error")
        /\ (liveRow(s).service = Anonymous) = (s.service = Nothing)
        /\ keptRow(s).id = s.id /\ keptRow(s).time = _relative_second(s.time)
        /\ keptRow(s).error = _span_status(s)
  BY DEF SpanRow, Served
<1> HIDE DEF live, kept, tempo, liveRow, keptRow
<1>5. {r.id : r \in live} = {r.id : r \in kept}
  <2>1. {r.id : r \in live} = {s.id : s \in known}
    BY <1>1, <1>4
  <2>2. {r.id : r \in kept} = {s.id : s \in known}
    BY <1>2, <1>4
  <2> QED BY <2>1, <2>2
<1>6. {r \in tempo : r.service # Anonymous} = live
  BY <1>1, <1>3, <1>4
<1>7. InOrder(emitted, tempo)
  <2>1. ASSUME NEW s \in emitted, NEW t \in emitted, NEW p \in tempo, NEW q \in tempo,
               p.id = s.id, q.id = t.id, s.time <= t.time
        PROVE  p.time <= q.time
    <3>1. p = liveRow(s) /\ q = liveRow(t)
      BY <1>3, <1>4, <2>1
    <3> QED BY <1>4, <2>1, <3>1, SecondsAre
  <2> QED BY <2>1 DEF InOrder
<1>8. InOrder(emitted, live)
  <2>1. live \subseteq tempo
    BY <1>6
  <2> QED BY <1>7, <2>1 DEF InOrder
<1>9. InOrder(emitted, kept)
  <2>1. ASSUME NEW s \in emitted, NEW t \in emitted, NEW p \in kept, NEW q \in kept,
               p.id = s.id, q.id = t.id, s.time <= t.time
        PROVE  p.time <= q.time
    <3>1. p = keptRow(s) /\ q = keptRow(t)
      BY <1>2, <1>4, <2>1
    <3> QED BY <1>4, <2>1, <3>1, SecondsAre
  <2> QED BY <2>1 DEF InOrder
<1>10. ASSUME NEW r \in live, NEW k \in kept, r.id = k.id
       PROVE  /\ k.time - r.time \in 0..1
              /\ r.error => k.error
              /\ k.error /\ ~r.error => \E s \in emitted : s.id = k.id /\ (s.grpc = 5 \/ s.http = 500)
  <2>1. PICK s \in known : r = liveRow(s)
    BY <1>1
  <2>2. PICK t \in known : k = keptRow(t)
    BY <1>2
  <2>3. s \in emitted /\ t \in emitted /\ s = t
    BY <1>4, <1>10, <2>1, <2>2
  <2>4. k.time - r.time \in 0..1
    BY <1>4, <2>1, <2>2, <2>3, SecondsAre
  <2>5. r.error => k.error
    BY <1>4, <2>1, <2>2, <2>3 DEF _span_status
  <2>6. ASSUME k.error, ~r.error PROVE s.id = k.id /\ (s.grpc = 5 \/ s.http = 500)
    BY <1>4, <2>1, <2>2, <2>3, <2>6 DEF _span_status
  <2> QED BY <2>3, <2>4, <2>5, <2>6
<1> QED BY <1>5, <1>6, <1>7, <1>8, <1>9, <1>10, Zenon DEF SpansAgree, live, kept, tempo

(* A recorded series has the numbers of the live one, each once and within a *)
(* second, and only numbers, for any points that are two seconds apart or    *)
(* more and not before the window (normalizer.py:20-59,                      *)
(* lgtm/store.py:136-155).                                                   *)
THEOREM PointsAreOfOneSystem ==
  ASSUME NEW emitted, IsFiniteSet(emitted), \A p \in emitted : p.time \in Nat,
         \A p, q \in emitted : p # q => p.time + 8 <= q.time \/ q.time + 8 <= p.time
  PROVE  PointsAgree(emitted)
<1> DEFINE numbers == {p \in emitted : p.value # Nothing}
           keptPoint(p) == [time |-> _relative_second(p.time), value |-> p.value]
           livePoint(p) == [time |-> rel_seconds(p.time), value |-> p.value]
           kept == normalize_prometheus_matrix(emitted)
           live == lgtm_metric_series(emitted)
           finite == {p \in live : p.value # Nothing}
<1>1. kept = {keptPoint(p) : p \in numbers}
  BY DEF normalize_prometheus_matrix
<1>2. finite = {livePoint(p) : p \in numbers}
  BY DEF lgtm_metric_series
<1>3. \A p \in emitted : /\ _relative_second(p.time) \in Nat /\ rel_seconds(p.time) \in Nat
                         /\ _relative_second(p.time) - rel_seconds(p.time) \in 0..1
                         /\ 4 * _relative_second(p.time) - p.time \in -2..2
                         /\ 4 * rel_seconds(p.time) - p.time \in -3..0
  <2> TAKE p \in emitted
  <2>1. p.time \in Int /\ p.time >= 0
    OBVIOUS
  <2> QED BY <2>1, SecondsAre
<1>4. \A p \in emitted : /\ keptPoint(p).time = _relative_second(p.time) /\ keptPoint(p).value = p.value
                         /\ livePoint(p).time = rel_seconds(p.time) /\ livePoint(p).value = p.value
  OBVIOUS
<1> HIDE DEF kept, live, finite, keptPoint, livePoint
<1>5. \A p, q \in numbers : keptPoint(p) = keptPoint(q) \/ livePoint(p) = livePoint(q) => p = q
  <2>1. ASSUME NEW p \in numbers, NEW q \in numbers,
               keptPoint(p) = keptPoint(q) \/ livePoint(p) = livePoint(q), p # q
        PROVE  FALSE
    <3>1. p \in emitted /\ q \in emitted /\ p.time \in Nat /\ q.time \in Nat
      OBVIOUS
    <3>2. p.time + 8 <= q.time \/ q.time + 8 <= p.time
      BY <2>1, <3>1
    <3>3. \/ _relative_second(p.time) = _relative_second(q.time)
          \/ rel_seconds(p.time) = rel_seconds(q.time)
      BY <1>4, <2>1, <3>1
    <3> QED BY <1>3, <3>1, <3>2, <3>3
  <2> QED BY <2>1
<1>6. IsFiniteSet(numbers)
  BY FS_Subset
<1>7. Cardinality(kept) = Cardinality(numbers)
  <2> DEFINE f == [p \in numbers |-> keptPoint(p)]
  <2>1. f \in [numbers -> kept] /\ \A q \in kept : \E p \in numbers : f[p] = q
    BY <1>1
  <2>2. \A p, q \in numbers : f[p] = f[q] => p = q
    BY <1>5
  <2> HIDE DEF f
  <2>3. f \in Bijection(numbers, kept)
    BY <2>1, <2>2, Zenon DEF Bijection, Injection, Surjection, IsInjective
  <2> QED BY <1>6, <2>3, FS_Bijection DEF ExistsBijection
<1>8. Cardinality(finite) = Cardinality(numbers)
  <2> DEFINE f == [p \in numbers |-> livePoint(p)]
  <2>1. f \in [numbers -> finite] /\ \A q \in finite : \E p \in numbers : f[p] = q
    BY <1>2
  <2>2. \A p, q \in numbers : f[p] = f[q] => p = q
    BY <1>5
  <2> HIDE DEF f
  <2>3. f \in Bijection(numbers, finite)
    BY <2>1, <2>2, Zenon DEF Bijection, Injection, Surjection, IsInjective
  <2> QED BY <1>6, <2>3, FS_Bijection DEF ExistsBijection
<1>9. ASSUME NEW p \in finite
      PROVE  \E q \in kept : q.value = p.value /\ q.time - p.time \in 0..1
  <2>1. PICK e \in numbers : p = livePoint(e)
    BY <1>2
  <2>2. keptPoint(e) \in kept /\ keptPoint(e).value = p.value
    BY <1>1, <1>4, <2>1
  <2>3. keptPoint(e).time - p.time \in 0..1
    BY <1>3, <1>4, <2>1
  <2> QED BY <2>2, <2>3
<1>10. Cardinality(kept) = Cardinality(finite)
  BY <1>7, <1>8
<1> QED BY <1>9, <1>10, Zenon DEF PointsAgree, kept, live, finite

(* The first n rows: they come before all others, they are all if there are  *)
(* no more than n, and only then.                                            *)
LEMMA FirstRows ==
  ASSUME NEW rows, IsFiniteSet(rows), \A r \in rows : r.time \in Int /\ r.id \in Int,
         \A r, q \in rows : r.id = q.id => r = q,
         NEW n \in Nat
  PROVE  /\ Earliest(n, rows) \subseteq rows
         /\ \A r \in Earliest(n, rows), q \in rows \ Earliest(n, rows) : Before(r, q)
         /\ (Earliest(n, rows) = rows) = (Cardinality(rows) <= n)
<1> DEFINE earlier(q) == {r \in rows : Before(r, q)}
           first == Earliest(n, rows)
<1>1. first = {q \in rows : Cardinality(earlier(q)) < n}
  BY Zenon DEF Earliest
<1>2. \A r, q \in rows : \/ r = q \/ Before(r, q) \/ Before(q, r)
  <2> TAKE r \in rows, q \in rows
  <2>1. r.time \in Int /\ r.id \in Int /\ q.time \in Int /\ q.id \in Int /\ (r.id = q.id => r = q)
    OBVIOUS
  <2> QED BY <2>1 DEF Before
<1>3. \A r, q \in rows : Before(r, q) => earlier(r) \subseteq earlier(q) /\ r \in earlier(q)
  <2> TAKE r \in rows, q \in rows
  <2>1. ASSUME NEW p \in rows, Before(p, r), Before(r, q) PROVE Before(p, q)
    <3>1. /\ r.time \in Int /\ r.id \in Int /\ q.time \in Int /\ q.id \in Int
          /\ p.time \in Int /\ p.id \in Int
      OBVIOUS
    <3> QED BY <2>1, <3>1 DEF Before
  <2> QED BY <2>1
<1>4. \A r \in rows : r \notin earlier(r)
  <2> TAKE r \in rows
  <2>1. r.time \in Int /\ r.id \in Int
    OBVIOUS
  <2> QED BY <2>1 DEF Before
<1>5. \A q : earlier(q) \in SUBSET rows
  OBVIOUS
<1> HIDE DEF earlier, first
<1>6. \A q : IsFiniteSet(earlier(q)) /\ Cardinality(earlier(q)) \in Nat
  BY <1>5, FS_Subset, FS_CardinalityType
<1>7. IsFiniteSet(rows) /\ Cardinality(rows) \in Nat
  BY FS_CardinalityType
<1>8. ASSUME NEW r \in rows, NEW q \in rows, Before(r, q)
      PROVE  Cardinality(earlier(r)) < Cardinality(earlier(q))
  <2>1. earlier(r) \in SUBSET earlier(q) /\ earlier(r) # earlier(q)
    BY <1>3, <1>4, <1>8
  <2>2. Cardinality(earlier(r)) <= Cardinality(earlier(q))
        /\ Cardinality(earlier(r)) # Cardinality(earlier(q))
    BY <1>6, <2>1, FS_Subset
  <2> QED BY <1>6, <2>2
<1>9. ASSUME NEW r \in first, NEW q \in rows \ first PROVE Before(r, q)
  <2>1. r \in rows /\ Cardinality(earlier(r)) < n /\ ~(Cardinality(earlier(q)) < n)
    BY <1>1
  <2>2. r # q /\ ~Before(q, r)
    BY <1>6, <1>8, <2>1
  <2> QED BY <1>2, <2>1, <2>2
<1>10. ASSUME Cardinality(rows) <= n PROVE first = rows
  <2>1. ASSUME NEW q \in rows PROVE Cardinality(earlier(q)) < n
    <3>1. earlier(q) # rows
      BY <1>4
    <3>2. Cardinality(earlier(q)) <= Cardinality(rows) /\ Cardinality(earlier(q)) # Cardinality(rows)
      BY <1>5, <1>7, <3>1, FS_Subset
    <3> QED BY <1>6, <1>7, <1>10, <3>2
  <2> QED BY <1>1, <2>1
<1>11. ASSUME first = rows, n < Cardinality(rows) PROVE FALSE
  <2> DEFINE rank == [q \in rows |-> Cardinality(earlier(q))]
  <2>1. rank \in [rows -> 0..(n - 1)]
    <3>1. \A q \in rows : Cardinality(earlier(q)) \in 0..(n - 1)
      BY <1>1, <1>6, <1>11
    <3> QED BY <3>1
  <2>2. IsFiniteSet(0..(n - 1)) /\ Cardinality(0..(n - 1)) = n
    <3>1. 0 \in Int /\ n - 1 \in Int /\ (IF 0 > n - 1 THEN 0 ELSE (n - 1) - 0 + 1) = n
      OBVIOUS
    <3> QED BY <3>1, FS_Interval
  <2>3. PICK r \in rows, q \in rows : r # q /\ rank[r] = rank[q]
    <3> HIDE DEF rank
    <3> QED BY <1>7, <1>11, <2>1, <2>2, FS_PigeonHole
  <2>4. Cardinality(earlier(r)) = Cardinality(earlier(q))
    BY <2>3
  <2>5. Before(r, q) \/ Before(q, r)
    BY <1>2, <2>3
  <2> QED BY <1>6, <1>8, <2>4, <2>5
<1>12. (first = rows) = (Cardinality(rows) <= n)
  BY <1>7, <1>10, <1>11
<1>13. first \subseteq rows
  BY <1>1
<1> QED BY <1>9, <1>12, <1>13 DEF first

(* Lines of one system, with an id each: what is found with an error, by a   *)
(* search or by trace, differs between the backends only for lines that no   *)
(* answer had room for, that are of no service, whose level is in no table   *)
(* or which give the fault away; and what a tool leaves out is later than    *)
(* what it shows and said to be left out, for any lines                      *)
(* (newrelic/store.py:131-157, lgtm/store.py:159-203, normalizer.py:102-131).*)
THEOREM LinesAreOfOneSystem ==
  ASSUME NEW emitted, IsFiniteSet(emitted), \A l \in emitted : l.time \in Nat /\ l.id \in Int,
         \A k, l \in emitted : k.id = l.id => k = l,
         NEW limit \in Nat
  PROVE  LinesAgree(emitted, limit)
<1> DEFINE asked(odd) == {l.id : l \in {k \in emitted : RankOr(LevelOf(k), odd) >= 4 /\ k.body # Nothing}}
           named == {l.id : l \in {k \in emitted : k.service # Nothing}}
           sealed == {l.id : l \in {k \in emitted : k.body = "sealed"}}
           ids(rows) == {r.id : r \in rows}
           live == newrelic_search_logs(emitted, "error")
           recorded == fixture_search_logs(emitted, "error")
           loki == lgtm_search_logs(emitted, "error")
           every == lgtm_search_logs(emitted, "trace")
           fits == Cardinality(emitted) <= Lines
           trace == UNION {to_log_row(l) : l \in {k \in emitted : k.trace = 1}}
           first == Earliest(Lines, emitted)
           liveRow(l) == LogRow(l, rel_seconds(l.time), LevelOf(l))
           keptRow(l) == LogRow(l, _relative_second(l.time), LevelOf(l))
           plainRow(l) == LogRow(l, rel_seconds(l.time), "info")
           grave(l, odd) == RankOr(LevelOf(l), odd) >= 4
           served(l) == l.service # Nothing /\ l.body # Nothing
<1>1. /\ Rank["error"] = 4 /\ Rank["trace"] = 0 /\ Rank["info"] = 2
      /\ "info" \in DOMAIN Rank /\ \A v \in DOMAIN Rank : Rank[v] \in Nat
  BY DEF Rank
<1>2. \A v : /\ \A odd \in Nat : RankOr(v, odd) \in Nat
             /\ RankOr(v, 0) >= 4 => RankOr(v, 2) >= 4
  BY <1>1 DEF RankOr
<1>3. RankOr("info", 0) = 2
  BY <1>1 DEF RankOr
<1>4. \A l \in emitted :
        /\ liveRow(l).id = l.id /\ keptRow(l).id = l.id /\ plainRow(l).id = l.id
        /\ liveRow(l).level = LevelOf(l) /\ keptRow(l).level = LevelOf(l) /\ plainRow(l).level = "info"
        /\ liveRow(l).time = rel_seconds(l.time)
  BY DEF LogRow
<1>5. \A rows, odd : /\ AtLeast(rows, "error", odd) = {r \in rows : RankOr(r.level, odd) >= 4}
                     /\ AtLeast(rows, "trace", odd) = {r \in rows : RankOr(r.level, odd) >= 0}
                     /\ AtLeast(rows, "info", odd) = {r \in rows : RankOr(r.level, odd) >= 2}
  BY <1>1 DEF AtLeast
<1>6. \A page \in SUBSET emitted : UNION {to_log_row(l) : l \in page} = {liveRow(l) : l \in {k \in page : served(k)}}
  BY DEF to_log_row
<1>7. UNION {normalize_opensearch_logs(l) : l \in emitted}
        = {keptRow(l) : l \in {k \in emitted : served(k) /\ k.body # "sealed"}}
  BY DEF normalize_opensearch_logs
<1> HIDE DEF liveRow, keptRow, plainRow
<1>8. recorded = {keptRow(l) : l \in {k \in emitted : served(k) /\ k.body # "sealed" /\ grave(k, 0)}}
  <2>1. recorded = AtLeast({keptRow(l) : l \in {k \in emitted : served(k) /\ k.body # "sealed"}}, "error", 0)
    BY <1>7, Zenon DEF fixture_search_logs
  <2> QED BY <1>4, <1>5, <2>1
<1>9. ASSUME NEW rows \in live
      PROVE  \E page \in SUBSET emitted :
               /\ rows = {liveRow(l) : l \in {k \in page : served(k) /\ grave(k, 0)}}
               /\ fits => page = emitted
  <2>1. PICK page \in SUBSET emitted : /\ rows = AtLeast(UNION {to_log_row(l) : l \in page}, "error", 0)
                                       /\ fits => page = emitted
    BY DEF newrelic_search_logs, kSubset
  <2>2. rows = AtLeast({liveRow(l) : l \in {k \in page : served(k)}}, "error", 0)
    BY <1>6, <2>1
  <2>3. rows = {liveRow(l) : l \in {k \in page : served(k) /\ grave(k, 0)}}
    BY <1>4, <1>5, <2>2
  <2> QED BY <2>1, <2>3
<1>10. loki = {liveRow(l) : l \in {k \in first : grave(k, 2)}} /\ every = {liveRow(l) : l \in first}
  <2>1. first \subseteq emitted
    BY DEF Earliest
  <2>2. /\ loki = AtLeast({liveRow(l) : l \in first}, "error", 2)
        /\ every = AtLeast({liveRow(l) : l \in first}, "trace", 2)
    BY Zenon DEF lgtm_search_logs, liveRow
  <2>3. loki = {liveRow(l) : l \in {k \in first : grave(k, 2)}}
    BY <1>4, <1>5, <2>1, <2>2
  <2>4. \A v : RankOr(v, 2) >= 0
    BY <1>2
  <2>5. every = {liveRow(l) : l \in first}
    BY <1>4, <1>5, <2>1, <2>2, <2>4
  <2> QED BY <2>3, <2>5
<1>11. /\ first \subseteq emitted
       /\ \A l \in first, k \in emitted \ first : Before(l, k)
       /\ fits => first = emitted
  <2>1. \A l \in emitted : l.time \in Int /\ l.id \in Int
    OBVIOUS
  <2>2. Lines \in Nat
    BY BackendsAssumption
  <2> QED BY <2>1, <2>2, FirstRows
<1> HIDE DEF first, live, recorded, loki, every, fits
<1>12. ids(recorded) = (asked(0) \cap named) \ sealed
  <2>1. ids(recorded) = {l.id : l \in {k \in emitted : served(k) /\ k.body # "sealed" /\ grave(k, 0)}}
    BY <1>4, <1>8
  <2> QED BY <2>1
<1>13. ASSUME NEW rows \in live
       PROVE  /\ ids(rows) \subseteq asked(0) \cap named
              /\ fits => ids(rows) \ sealed = ids(recorded)
  <2>1. PICK page \in SUBSET emitted : /\ rows = {liveRow(l) : l \in {k \in page : served(k) /\ grave(k, 0)}}
                                       /\ fits => page = emitted
    BY <1>9
  <2>2. ids(rows) = {l.id : l \in {k \in page : served(k) /\ grave(k, 0)}}
    BY <1>4, <2>1
  <2>3. ids(rows) \subseteq asked(0) \cap named
    BY <2>2
  <2>4. fits => ids(rows) = asked(0) \cap named
    BY <2>1, <2>2
  <2> QED BY <1>12, <2>3, <2>4
<1>14. fits => ids(recorded) \subseteq ids(loki)
  <2>1. ASSUME fits, NEW r \in recorded PROVE r.id \in ids(loki)
    <3>1. PICK l \in emitted : r = keptRow(l) /\ grave(l, 0)
      BY <1>8
    <3>2. l \in first /\ grave(l, 2)
      BY <1>2, <1>11, <2>1, <3>1
    <3>3. liveRow(l) \in loki /\ liveRow(l).id = r.id
      BY <1>4, <1>10, <3>1, <3>2
    <3> QED BY <3>3
  <2> QED BY <2>1
<1>15. ASSUME NEW r \in loki, NEW k \in emitted, k.id \notin ids(every)
       PROVE  Before([r EXCEPT !.time = 4 * @], k)
  <2>1. PICK l \in first : r = liveRow(l)
    BY <1>10
  <2>2. l \in emitted /\ k \notin first
    BY <1>4, <1>10, <1>11, <1>15
  <2>3. Before(l, k) /\ l.time \in Nat /\ k.time \in Nat /\ l.id \in Int /\ k.id \in Int
    BY <1>11, <2>1, <2>2
  <2>4. 4 * rel_seconds(l.time) <= l.time /\ rel_seconds(l.time) \in Nat
    <3>1. l.time \in Int /\ l.time >= 0
      BY <2>3
    <3>2. 4 * rel_seconds(l.time) - l.time \in -3..0 /\ rel_seconds(l.time) \in Nat
      BY <3>1, SecondsAre
    <3> QED BY <2>3, <3>2
  <2>5. [r EXCEPT !.time = 4 * @].time = 4 * rel_seconds(l.time) /\ [r EXCEPT !.time = 4 * @].id = l.id
    BY <2>1 DEF liveRow, LogRow
  <2> QED BY <2>3, <2>4, <2>5 DEF Before
<1>16. /\ logs_for_trace(newrelic_logs_for_trace(emitted, 1), "error") = AtLeast(trace, "error", 0)
       /\ logs_for_trace(lgtm_logs_for_trace(emitted, 1), "error") = {}
       /\ ids(trace) \subseteq ids(logs_for_trace(lgtm_logs_for_trace(emitted, 1), "info"))
  <2>1. logs_for_trace(newrelic_logs_for_trace(emitted, 1), "error") = AtLeast(trace, "error", 0)
    BY Zenon DEF logs_for_trace, newrelic_logs_for_trace
  <2>2. lgtm_logs_for_trace(emitted, 1) = {plainRow(l) : l \in {k \in emitted : k.trace = 1}}
    BY Zenon DEF lgtm_logs_for_trace, plainRow
  <2>3. logs_for_trace(lgtm_logs_for_trace(emitted, 1), "error") = {}
    BY <1>3, <1>4, <1>5, <2>2 DEF logs_for_trace
  <2>4. logs_for_trace(lgtm_logs_for_trace(emitted, 1), "info") = lgtm_logs_for_trace(emitted, 1)
    <3> DEFINE lines == lgtm_logs_for_trace(emitted, 1)
    <3>1. \A r \in lines : RankOr(r.level, 0) = 2
      BY <1>3, <1>4, <2>2
    <3>2. logs_for_trace(lines, "info") = {r \in lines : RankOr(r.level, 0) >= 2}
      BY <1>5, Zenon DEF logs_for_trace
    <3> HIDE DEF lines
    <3>3. {r \in lines : RankOr(r.level, 0) >= 2} = lines
      BY <3>1
    <3> QED BY <3>2, <3>3, Zenon DEF lines
  <2>5. trace = {liveRow(l) : l \in {k \in emitted : k.trace = 1 /\ served(k)}}
    <3>1. {k \in emitted : k.trace = 1} \in SUBSET emitted
      OBVIOUS
    <3> QED BY <1>6, <3>1
  <2>6. ids(trace) \subseteq ids(lgtm_logs_for_trace(emitted, 1))
    BY <1>4, <2>2, <2>5
  <2> QED BY <2>1, <2>3, <2>4, <2>6
<1>17. ASSUME NEW rows \in live
       PROVE  LET shown == _bundle(rows, limit)
              IN  /\ shown.truncated = (shown.total > Cardinality(shown.logs))
                  /\ \A r \in shown.logs, q \in rows \ shown.logs : Before(r, q)
  <2>1. PICK page \in SUBSET emitted : rows = {liveRow(l) : l \in {k \in page : served(k) /\ grave(k, 0)}}
    BY <1>9
  <2>2. \A r \in rows : \E l \in emitted : r = liveRow(l)
    BY <2>1
  <2>3. /\ \A r \in rows : r.time \in Int /\ r.id \in Int
        /\ \A r, q \in rows : r.id = q.id => r = q
    <3>1. \A l \in emitted : rel_seconds(l.time) \in Int
      <4>1. \A l \in emitted : l.time \in Int
        OBVIOUS
      <4> QED BY <4>1, SecondsAre
    <3> QED BY <1>4, <2>2, <3>1
  <2>4. IsFiniteSet(rows)
    <3> DEFINE made == {k \in page : served(k) /\ grave(k, 0)}
               f == [l \in made |-> liveRow(l)]
    <3>1. IsFiniteSet(made)
      BY FS_Subset
    <3>2. f \in [made -> rows] /\ \A r \in rows : \E l \in made : f[l] = r
      BY <2>1
    <3> HIDE DEF f, made
    <3>3. f \in Surjection(made, rows)
      BY <3>2, Zenon DEF Surjection
    <3> QED BY <3>1, <3>3, FS_Surjection
  <2> DEFINE shown == Earliest(limit, rows)
  <2>5. /\ shown \subseteq rows /\ \A r \in shown, q \in rows \ shown : Before(r, q)
        /\ (shown = rows) = (Cardinality(rows) <= limit)
    BY <2>3, <2>4, FirstRows
  <2>6. /\ _bundle(rows, limit).logs = shown /\ _bundle(rows, limit).total = Cardinality(rows)
        /\ _bundle(rows, limit).truncated = (Cardinality(rows) > limit)
    BY DEF _bundle
  <2> HIDE DEF shown
  <2>7. Cardinality(rows) \in Nat /\ Cardinality(shown) \in Nat /\ Cardinality(shown) <= Cardinality(rows)
        /\ (Cardinality(rows) = Cardinality(shown) => rows = shown)
    BY <2>4, <2>5, FS_Subset, FS_CardinalityType
  <2>8. (Cardinality(rows) > limit) = (Cardinality(rows) > Cardinality(shown))
    BY <2>5, <2>7
  <2> QED BY <2>5, <2>6, <2>8
<1>18. \A l \in loki : \A k \in emitted : k.id \notin ids(every) => Before([l EXCEPT !.time = 4 * @], k)
  BY <1>15
<1> HIDE DEF ids, asked, named, sealed, trace
<1> QED BY <1>12, <1>13, <1>14, <1>16, <1>17, <1>18, Zenon
        DEF LinesAgree, asked, named, sealed, ids, live, recorded, loki, every, fits, trace
-----------------------------------------------------------------------------
(* Services, paths and the calls they are of, for any set of traced services*)
(* and any graph of calls without cycles among them.                        *)

(* An incident of the second kind, as it stays while the index is built. *)
StoryOK ==
  /\ edges \in TracedGraphs
  /\ kind \in {"service", "edge", "slow", "network"}
  /\ origin \in Traced
  /\ Told
  /\ remote = Spans
  /\ changes \in Changes(origin)

(* Services are numbers, finitely many, and None is no service.             *)
LEMMA TracedAreFew ==
  /\ Traced \subseteq Nat /\ None \notin Traced
  /\ IsFiniteSet(Traced) /\ Cardinality(Traced) \in Nat
<1>1. N \in Nat /\ Services = 1..N
  BY RankAssumption DEF Services
<1>2. IsFiniteSet(Services)
  BY <1>1, FS_Interval
<1>3. Traced \in SUBSET Services /\ None \notin Services
  BY IncidentAssumption, NoneAssumption
<1>4. IsFiniteSet(Traced)
  BY <1>2, <1>3, FS_Subset
<1>5. Cardinality(Traced) \in Nat
  BY <1>4, FS_CardinalityType
<1>6. Traced \subseteq Nat /\ None \notin Traced
  <2>1. 1..N \subseteq Nat
    BY <1>1
  <2> QED BY <1>1, <1>3, <2>1
<1> QED BY <1>4, <1>5, <1>6

(* What a path is.                                                          *)
LEMMA PathIsSeq ==
  ASSUME NEW p \in Paths(edges)
  PROVE  /\ Len(p) \in Nat \ {0} /\ Len(p) <= Cardinality(Traced)
         /\ p \in [1..Len(p) -> Traced] /\ p \in Seq(Traced)
         /\ Callee(p) \in Traced /\ p[1] \in Traced
         /\ p[1] \in Roots(edges)
         /\ \A i \in 1..(Len(p) - 1) : <<p[i], p[i + 1]>> \in edges
         /\ \A i \in 1..Len(p) : p[i] \in Traced
<1>1. PICK n \in 1..Cardinality(Traced) : p \in [1..n -> Traced]
  BY DEF Paths, Chains
<1>2. n \in Nat \ {0} /\ n <= Cardinality(Traced)
  BY <1>1, TracedAreFew
<1>3. p \in Seq(Traced) /\ Len(p) = n
  BY <1>1, <1>2
<1> QED BY <1>1, <1>2, <1>3 DEF Paths, Callee

(* What makes a path.                                                       *)
LEMMA PathFromSeq ==
  ASSUME NEW p \in Seq(Traced), Len(p) \in 1..Cardinality(Traced), p[1] \in Roots(edges),
         \A i \in 1..(Len(p) - 1) : <<p[i], p[i + 1]>> \in edges
  PROVE  p \in Paths(edges)
<1>1. p \in [1..Len(p) -> Traced]
  BY LenProperties
<1> QED BY <1>1 DEF Paths, Chains

(* Along a path calls go deeper, so that no service comes twice.            *)
LEMMA PathIsSimple ==
  ASSUME edges \in TracedGraphs, NEW p \in Seq(Traced),
         \A i \in 1..(Len(p) - 1) : <<p[i], p[i + 1]>> \in edges
  PROVE  \A i, j \in 1..Len(p) : i < j => p[i] # p[j]
<1>1. PICK depth \in [Traced -> Traced] : \A e \in edges : depth[e[1]] < depth[e[2]]
  BY DEF TracedGraphs
<1>2. \A i \in 1..Len(p) : p[i] \in Traced /\ depth[p[i]] \in Nat
  <2>1. ASSUME NEW i \in 1..Len(p) PROVE p[i] \in Traced
    BY LenProperties, <2>1
  <2>2. \A t \in Traced : depth[t] \in Nat
    BY <1>1, TracedAreFew
  <2> QED BY <2>1, <2>2
<1>3. ASSUME NEW i \in 1..Len(p)
      PROVE  \A j \in 1..Len(p) : i < j => depth[p[i]] < depth[p[j]]
  <2> DEFINE Bad == {j \in 1..Len(p) : i < j /\ ~(depth[p[i]] < depth[p[j]])}
  <2>1. SUFFICES ASSUME Bad # {} PROVE FALSE
    OBVIOUS
  <2>2. Bad \in SUBSET Nat
    OBVIOUS
  <2>3. PICK j \in Bad : \A k \in Bad : j <= k
    <3> HIDE DEF Bad
    <3> QED BY <2>1, <2>2, LeastIsMin, Zenon
  <2>4. j - 1 \in 1..Len(p) /\ j - 1 \in 1..(Len(p) - 1) /\ i <= j - 1 /\ (j - 1) + 1 = j
        /\ j - 1 \notin Bad /\ j \in 1..Len(p) /\ ~(depth[p[i]] < depth[p[j]])
    BY <2>3
  <2>5. depth[p[j - 1]] < depth[p[j]]
    <3>1. <<p[j - 1], p[j]>> \in edges
      BY <2>4
    <3> QED BY <1>1, <3>1
  <2>6. depth[p[i]] \in Nat /\ depth[p[j - 1]] \in Nat /\ depth[p[j]] \in Nat
    BY <1>2, <2>4
  <2>7. CASE i = j - 1
    BY <2>4, <2>5, <2>7
  <2>8. CASE i < j - 1
    BY <2>4, <2>5, <2>6, <2>8
  <2> QED BY <2>4, <2>7, <2>8
<1> QED BY <1>2, <1>3

(* A chain of calls is no longer than there are services.                   *)
LEMMA ChainIsShort ==
  ASSUME edges \in TracedGraphs, NEW p \in Seq(Traced),
         \A i \in 1..(Len(p) - 1) : <<p[i], p[i + 1]>> \in edges
  PROVE  Len(p) <= Cardinality(Traced)
<1>1. /\ Len(p) \in Nat /\ p \in [1..Len(p) -> Traced]
  BY LenProperties
<1>2. p \in Injection(1..Len(p), Traced)
  <2>1. ASSUME NEW i \in 1..Len(p), NEW j \in 1..Len(p), i # j
        PROVE  p[i] # p[j]
    BY <1>1, <2>1, PathIsSimple
  <2> QED BY <1>1, <2>1 DEF Injection, IsInjective
<1>3. Cardinality(1..Len(p)) = Len(p)
  BY <1>1, FS_Interval
<1> QED BY <1>2, <1>3, FS_Injection, TracedAreFew

(* A call is from one service to another.                                   *)
LEMMA CallsAreTraced ==
  ASSUME edges \in TracedGraphs, NEW e \in edges
  PROVE  e[1] \in Traced /\ e[2] \in Traced /\ e = <<e[1], e[2]>> /\ e[1] # e[2]
<1>1. e \in Traced \X Traced
  BY DEF TracedGraphs
<1>2. PICK depth \in [Traced -> Traced] : \A d \in edges : depth[d[1]] < depth[d[2]]
  BY DEF TracedGraphs
<1>3. depth[e[1]] < depth[e[2]] /\ depth[e[1]] \in Nat
  BY <1>1, <1>2, TracedAreFew
<1> QED BY <1>1, <1>3

(* Paths that go through the same services are the same.                    *)
LEMMA SamePath ==
  ASSUME NEW p \in Paths(edges), NEW q \in Paths(edges), Len(p) = Len(q),
         \A i \in 1..Len(p) : p[i] = q[i]
  PROVE  p = q
<1>1. p \in [1..Len(p) -> Traced] /\ q \in [1..Len(q) -> Traced]
  BY PathIsSeq
<1> QED BY <1>1

(* The way to a service on a path is a path.                                *)
LEMMA PartIsPath ==
  ASSUME NEW p \in Paths(edges), NEW n \in 1..Len(p)
  PROVE  /\ SubSeq(p, 1, n) \in Paths(edges) /\ Len(SubSeq(p, 1, n)) = n
         /\ \A i \in 1..n : SubSeq(p, 1, n)[i] = p[i]
<1> DEFINE q == SubSeq(p, 1, n)
<1>1. /\ Len(p) \in Nat \ {0} /\ Len(p) <= Cardinality(Traced) /\ p \in Seq(Traced)
      /\ p[1] \in Roots(edges) /\ \A i \in 1..(Len(p) - 1) : <<p[i], p[i + 1]>> \in edges
      /\ \A i \in 1..Len(p) : p[i] \in Traced
  BY PathIsSeq
<1>2. q \in Seq(Traced) /\ Len(q) = n /\ \A i \in 1..n : q[i] = p[i]
  BY <1>1, SubSeqProperties
<1>3. /\ Len(q) \in 1..Cardinality(Traced) /\ q[1] \in Roots(edges)
      /\ \A i \in 1..(Len(q) - 1) : <<q[i], q[i + 1]>> \in edges
  BY <1>1, <1>2, TracedAreFew
<1> QED BY <1>2, <1>3, PathFromSeq

(* What begins with a path.                                                 *)
LEMMA PrefixOfPath ==
  ASSUME NEW p \in Paths(edges), NEW q \in Paths(edges)
  PROVE  IsPrefix(p, q) <=> Len(p) <= Len(q) /\ \A i \in 1..Len(p) : p[i] = q[i]
<1>1. Len(p) \in Nat \ {0} /\ Len(q) \in Nat \ {0} /\ p \in Seq(Traced) /\ q \in Seq(Traced)
  BY PathIsSeq
<1>2. SubSeq(p, 1, Len(p)) \in Paths(edges) /\ \A i \in 1..Len(p) : SubSeq(p, 1, Len(p))[i] = p[i]
  BY <1>1, PartIsPath
<1>3. ASSUME Len(p) <= Len(q)
      PROVE  /\ SubSeq(q, 1, Len(p)) \in Paths(edges)
             /\ \A i \in 1..Len(p) : SubSeq(q, 1, Len(p))[i] = q[i]
             /\ Len(SubSeq(q, 1, Len(p))) = Len(p)
  BY <1>1, <1>3, PartIsPath
<1>4. SubSeq(p, 1, Len(p)) = p
  <2>1. Len(SubSeq(p, 1, Len(p))) = Len(p)
    BY <1>1, PartIsPath
  <2> QED BY <1>2, <2>1, SamePath
<1>5. ASSUME Len(p) <= Len(q), \A i \in 1..Len(p) : p[i] = q[i]
      PROVE  SubSeq(q, 1, Len(p)) = p
  BY <1>3, <1>5, SamePath
<1> QED BY <1>3, <1>4, <1>5 DEF IsPrefix

(* A path and a call from where it ends make a path.                        *)
LEMMA PathGoesOn ==
  ASSUME edges \in TracedGraphs, NEW p \in Paths(edges), NEW t, <<Callee(p), t>> \in edges
  PROVE  LET q == Append(p, t)
         IN  /\ q \in Paths(edges) /\ Len(q) = Len(p) + 1 /\ Len(q) > 1
             /\ Callee(q) = t /\ Caller(q) = Callee(p) /\ Front(q) = p
             /\ \A i \in 1..Len(p) : q[i] = p[i]
<1> DEFINE q == Append(p, t)
<1>1. /\ Len(p) \in Nat \ {0} /\ Len(p) <= Cardinality(Traced) /\ p \in Seq(Traced)
      /\ p[1] \in Roots(edges) /\ \A i \in 1..(Len(p) - 1) : <<p[i], p[i + 1]>> \in edges
  BY PathIsSeq
<1>2. t \in Traced
  <2>1. <<Callee(p), t>>[2] \in Traced
    BY CallsAreTraced
  <2> QED BY <2>1
<1>3. /\ q \in Seq(Traced) /\ Len(q) = Len(p) + 1
      /\ (\A i \in 1..Len(p) : q[i] = p[i]) /\ q[Len(p) + 1] = t
  BY <1>1, <1>2, AppendProperties
<1>4. \A i \in 1..(Len(q) - 1) : <<q[i], q[i + 1]>> \in edges
  <2>1. SUFFICES ASSUME NEW i \in 1..Len(p) PROVE <<q[i], q[i + 1]>> \in edges
    BY <1>1, <1>3
  <2>2. CASE i = Len(p)
    BY <1>1, <1>3, <2>2 DEF Callee
  <2>3. CASE i # Len(p)
    <3>1. i \in 1..(Len(p) - 1) /\ i + 1 \in 1..Len(p)
      BY <1>1, <2>3
    <3> QED BY <1>1, <1>3, <3>1
  <2> QED BY <2>2, <2>3
<1> HIDE DEF q
<1>5. Len(q) \in 1..Cardinality(Traced)
  BY <1>1, <1>3, <1>4, ChainIsShort, TracedAreFew
<1>6. q \in Paths(edges)
  <2>1. q[1] \in Roots(edges)
    BY <1>1, <1>3
  <2> QED BY <1>3, <1>4, <1>5, <2>1, PathFromSeq
<1>7. Callee(q) = t /\ Caller(q) = Callee(p)
  BY <1>1, <1>3 DEF Callee, Caller
<1>8. Front(q) = p
  <2>1. /\ Front(q) \in Paths(edges) /\ Len(Front(q)) = Len(p)
        /\ \A i \in 1..Len(p) : Front(q)[i] = p[i]
    <3>1. Len(p) \in 1..Len(q) /\ Len(q) - 1 = Len(p)
      BY <1>1, <1>3
    <3> QED BY <1>3, <1>6, <3>1, PartIsPath DEF Front
  <2> QED BY <2>1, SamePath
<1>9. Len(q) > 1
  BY <1>1, <1>3
<1> QED BY <1>3, <1>6, <1>7, <1>8, <1>9 DEF q

(* Every service is at the end of a path.                                   *)
LEMMA ServiceIsReached ==
  ASSUME edges \in TracedGraphs, NEW t \in Traced
  PROVE  \E p \in Paths(edges) : Callee(p) = t
<1>1. PICK depth \in [Traced -> Traced] : \A e \in edges : depth[e[1]] < depth[e[2]]
  BY DEF TracedGraphs
<1> DEFINE Reached(s) == \E p \in Paths(edges) : Callee(p) = s
           Depths == {depth[s] : s \in {u \in Traced : ~Reached(u)}}
<1>2. \A s \in Traced : depth[s] \in Nat
  BY <1>1, TracedAreFew
<1>3. SUFFICES ASSUME Depths # {} PROVE FALSE
  OBVIOUS
<1>4. PICK d \in Depths : \A k \in Depths : d <= k
  <2>1. Depths \in SUBSET Nat
    BY <1>2
  <2> HIDE DEF Depths
  <2> QED BY <1>3, <2>1, LeastIsMin, Zenon
<1>5. PICK s \in Traced : ~Reached(s) /\ depth[s] = d
  BY <1>4
<1>6. CASE s \in Roots(edges)
  <2> DEFINE p == <<s>>
  <2>1. p \in Seq(Traced) /\ Len(p) = 1 /\ p[1] = s
    OBVIOUS
  <2>2. Cardinality(Traced) >= 1
    <3>1. Cardinality(Traced) # 0
      BY <1>5, TracedAreFew, FS_EmptySet
    <3> QED BY <3>1, TracedAreFew
  <2>3. p \in Paths(edges)
    <3>1. Len(p) \in 1..Cardinality(Traced) /\ 1..(Len(p) - 1) = {}
      BY <2>1, <2>2, TracedAreFew
    <3> HIDE DEF p
    <3> QED BY <1>6, <2>1, <3>1, PathFromSeq
  <2> QED BY <1>5, <2>1, <2>3 DEF Callee
<1>7. CASE s \notin Roots(edges)
  <2>1. PICK e \in edges : e[2] = s
    BY <1>5, <1>7 DEF Roots
  <2>2. e[1] \in Traced /\ e = <<e[1], s>>
    BY <2>1, CallsAreTraced
  <2>3. depth[e[1]] < d /\ depth[e[1]] \in Nat /\ d \in Nat
    BY <1>1, <1>2, <1>5, <2>1, <2>2
  <2>4. Reached(e[1])
    <3>1. depth[e[1]] \notin Depths
      BY <1>4, <2>3
    <3> QED BY <2>2, <3>1
  <2>5. PICK p \in Paths(edges) : Callee(p) = e[1]
    BY <2>4
  <2>6. Append(p, s) \in Paths(edges) /\ Callee(Append(p, s)) = s
    BY <2>1, <2>2, <2>5, PathGoesOn
  <2> QED BY <1>5, <2>6
<1> QED BY <1>6, <1>7

-----------------------------------------------------------------------------
(* The spans of an incident.                                                *)

(* When the service that a path ends at begins to work on the request.      *)
Begin(p, after) == (IF after THEN Onset + 1 ELSE 0) + 2 * (Len(p) - 1)

(* The fields of a server's span.                                           *)
LEMMA ServerIs ==
  ASSUME NEW p \in Paths(edges), NEW after \in BOOLEAN, NEW n \in 1..2
  PROVE  /\ Span(p, after, "server", n).id = <<p, after, "server", n>>
         /\ Span(p, after, "server", n).kind = "server"
         /\ Span(p, after, "server", n).trace = <<p[1], after>>
         /\ Span(p, after, "server", n).service = Callee(p)
         /\ Span(p, after, "server", n).time = Begin(p, after)
         /\ Span(p, after, "server", n).error = IF after THEN Fails(p) ELSE p = <<story.noise>>
         /\ Span(p, after, "server", n).parent = IF Len(p) = 1 THEN None ELSE <<p, after, "client", n>>
  BY DEF Span, Begin

(* The fields of a client's span.                                           *)
LEMMA ClientIs ==
  ASSUME NEW p \in Paths(edges), NEW after \in BOOLEAN, NEW n \in 1..2
  PROVE  /\ Span(p, after, "client", n).id = <<p, after, "client", n>>
         /\ Span(p, after, "client", n).kind = "client"
         /\ Span(p, after, "client", n).trace = <<p[1], after>>
         /\ Span(p, after, "client", n).service = Caller(p)
         /\ Span(p, after, "client", n).time = Begin(p, after) - 1
         /\ Span(p, after, "client", n).error = IF after THEN Fails(p) ELSE FALSE
         /\ Span(p, after, "client", n).parent = <<Front(p), after, "server", 1>>
         /\ Span(p, after, "client", n).rpc = IF story.named THEN Callee(p) ELSE None
  BY DEF Span, Begin

(* Where a span comes from.                                                 *)
LEMMA SpanOf ==
  ASSUME NEW s \in Spans
  PROVE  \E p \in Paths(edges), after \in BOOLEAN, side \in {"server", "client"}, n \in 1..2 :
           s = Span(p, after, side, n) /\ n <= Calls(p) /\ Made(p, after, side)
<1>1. PICK c \in Sent : s = Span(c[1], c[2], c[3], c[4])
  BY DEF Spans
<1>2. /\ c[1] \in Paths(edges) /\ c[2] \in BOOLEAN /\ c[3] \in {"server", "client"} /\ c[4] \in 1..2
      /\ c[4] <= Calls(c[1]) /\ Made(c[1], c[2], c[3])
  BY DEF Sent
<1> QED BY <1>1, <1>2

(* What is a span.                                                          *)
LEMMA IsSpan ==
  ASSUME NEW p \in Paths(edges), NEW after \in BOOLEAN, NEW side \in {"server", "client"},
         NEW n \in 1..2, n <= Calls(p), Made(p, after, side)
  PROVE  Span(p, after, side, n) \in Spans
<1> DEFINE c == <<p, after, side, n>>
<1>1. c \in Paths(edges) \X BOOLEAN \X {"server", "client"} \X (1..2)
  OBVIOUS
<1>2. c[1] = p /\ c[2] = after /\ c[3] = side /\ c[4] = n
  OBVIOUS
<1>3. c \in Sent
  BY <1>1, <1>2 DEF Sent
<1> HIDE DEF c
<1> QED BY <1>2, <1>3 DEF Spans

(* A call is made once or twice.                                            *)
LEMMA CalledAtLeastOnce == \A p : Calls(p) \in 1..2 /\ 1 <= Calls(p)
  BY DEF Calls

(* A path names a span, so that none is nothing.                            *)
LEMMA SpansHaveNames ==
  ASSUME NEW p \in Paths(edges), NEW after \in BOOLEAN, NEW side \in {"server", "client"}, NEW n \in 1..2
  PROVE  <<p, after, side, n>> # None
<1>1. p \in Chains
  BY DEF Paths
<1>2. <<p, after, side, n>> \in SpanNames
  BY <1>1 DEF SpanNames
<1> QED BY <1>2, NoneAssumption

(* The child of a call is the server that took it, and the child of a       *)
(* server is a call made from where it is.                                  *)
LEMMA ChildOfCall ==
  ASSUME NEW p \in Paths(edges), NEW after \in BOOLEAN, NEW n \in 1..2, NEW c \in Spans,
         c.parent = <<p, after, "client", n>>
  PROVE  c = Span(p, after, "server", n)
<1>1. PICK q \in Paths(edges), b \in BOOLEAN, side \in {"server", "client"}, m \in 1..2 :
        c = Span(q, b, side, m)
  BY SpanOf
<1>2. c.parent # None
  BY SpansHaveNames
<1>3. side = "server"
  <2>1. SUFFICES ASSUME side = "client" PROVE FALSE
    OBVIOUS
  <2>2. c = Span(q, b, "client", m)
    BY <1>1, <2>1
  <2>3. c.parent = <<Front(q), b, "server", 1>>
    BY <2>2, ClientIs, Zenon
  <2> QED BY <2>3
<1>4. c.parent = <<q, b, "client", m>>
  <2>1. c = Span(q, b, "server", m)
    BY <1>1, <1>3
  <2>2. c.parent = IF Len(q) = 1 THEN None ELSE <<q, b, "client", m>>
    <3>1. Span(q, b, "server", m).parent = IF Len(q) = 1 THEN None ELSE <<q, b, "client", m>>
      BY ServerIs
    <3> QED BY <2>1, <3>1
  <2> QED BY <1>2, <2>2
<1>5. q = p /\ b = after /\ m = n
  BY <1>4
<1> QED BY <1>1, <1>3, <1>5

(* Below a server's span are the clients' of the calls it made.             *)
LEMMA ChildOfServer ==
  ASSUME NEW p \in Paths(edges), NEW after \in BOOLEAN, NEW n \in 1..2, NEW c \in Spans,
         c.parent = <<p, after, "server", n>>
  PROVE  \E q \in Paths(edges), m \in 1..2 :
           /\ c = Span(q, after, "client", m) /\ m <= Calls(q) /\ Made(q, after, "client")
           /\ Len(q) > 1 /\ Front(q) = p
<1>1. PICK q \in Paths(edges), b \in BOOLEAN, side \in {"server", "client"}, m \in 1..2 :
        c = Span(q, b, side, m) /\ m <= Calls(q) /\ Made(q, b, side)
  BY SpanOf
<1>2. c.parent # None
  BY SpansHaveNames
<1>3. side = "client"
  <2>1. SUFFICES ASSUME side = "server" PROVE FALSE
    OBVIOUS
  <2>2. c = Span(q, b, "server", m)
    BY <1>1, <2>1
  <2>3. c.parent = IF Len(q) = 1 THEN None ELSE <<q, b, "client", m>>
    <3>1. Span(q, b, "server", m).parent = IF Len(q) = 1 THEN None ELSE <<q, b, "client", m>>
      BY ServerIs
    <3> QED BY <2>2, <3>1
  <2> QED BY <1>2, <2>3
<1>4. c.parent = <<Front(q), b, "server", 1>>
  <2>1. c = Span(q, b, "client", m)
    BY <1>1, <1>3
  <2> QED BY <2>1, ClientIs, Zenon
<1>5. Front(q) = p /\ b = after
  BY <1>4
<1>6. Len(q) > 1
  BY <1>1, <1>3 DEF Made
<1> QED BY <1>1, <1>3, <1>5, <1>6

(* The callee of a call is who it went to, or, when no server is known and  *)
(* its operation does not say, nobody.                                      *)
LEMMA CalleeOfCall ==
  ASSUME index # None, index \subseteq remote, remote = Spans,
         NEW p \in Paths(edges), Len(p) > 1, NEW after \in BOOLEAN, NEW n \in 1..2
  PROVE  LET s == Span(p, after, "client", n)
         IN  /\ callee_of(s) = Callee(p) \/ (callee_of(s) = None /\ ~story.named)
             /\ Span(p, after, "server", n) \in index => callee_of(s) = Callee(p)
<1> DEFINE s == Span(p, after, "client", n)
           servers == {c \in children_of(s.id) : c.kind = "server"}
<1>1. s.id = <<p, after, "client", n>> /\ s.rpc = IF story.named THEN Callee(p) ELSE None
  BY ClientIs
<1>2. all_spans = index
  BY DEF all_spans
<1>3. ASSUME NEW c \in servers PROVE c = Span(p, after, "server", n) /\ c.service = Callee(p)
  <2>1. c \in Spans /\ c.parent = <<p, after, "client", n>>
    BY <1>1, <1>2 DEF children_of
  <2>2. c = Span(p, after, "server", n)
    BY <2>1, ChildOfCall
  <2> QED BY <2>2, ServerIs
<1>4. callee_of(s) = IF servers # {} THEN (CHOOSE c \in servers : TRUE).service ELSE s.rpc
  BY DEF callee_of
<1>5. ASSUME Span(p, after, "server", n) \in index
      PROVE  servers # {}
  <2> DEFINE c == Span(p, after, "server", n)
  <2>1. c.kind = "server" /\ c.parent = IF Len(p) = 1 THEN None ELSE <<p, after, "client", n>>
    BY ServerIs
  <2>2. Len(p) # 1
    BY PathIsSeq
  <2> QED BY <1>1, <1>2, <1>5, <2>1, <2>2 DEF children_of
<1> HIDE DEF servers, s
<1>6. CASE servers # {}
  <2>1. (CHOOSE c \in servers : TRUE) \in servers
    BY <1>6
  <2>2. callee_of(s) = Callee(p)
    BY <1>3, <1>4, <1>6, <2>1
  <2> QED BY <2>2 DEF s
<1>7. CASE servers = {}
  BY <1>1, <1>4, <1>5, <1>7 DEF s
<1> QED BY <1>6, <1>7

-----------------------------------------------------------------------------
(* What a story says, and what the graph tool makes of its spans.           *)

(* What the stories have in common.                                         *)
LEMMA StoriesSay ==
  ASSUME StoryOK
  PROVE  /\ story.named \in BOOLEAN /\ story.noise \in Roots(edges) \cup {None}
         /\ kind = "edge" => <<origin, story.target>> \in edges
         /\ kind = "service" => story.named
<1>1. edges \in TracedGraphs /\ Told
  BY DEF StoryOK
<1>2. CASE kind = "service"
  BY <1>1, <1>2 DEF Told, Quiet
<1>3. CASE kind = "edge"
  <2>1. PICK e \in {d \in edges : d[1] = origin}, H \in {{}} \cup {{h} : h \in Traced},
             x \in (Roots(edges) \X {TRUE}) \cup ({None} \X BOOLEAN) :
          story = [Quiet EXCEPT !.target = e[2], !.handlers = H, !.noise = x[1], !.named = x[2]]
    BY <1>1, <1>3 DEF Told
  <2>2. e \in edges /\ e[1] = origin /\ e = <<e[1], e[2]>>
    BY <1>1, CallsAreTraced
  <2>3. story.named = x[2] /\ story.noise = x[1] /\ story.target = e[2]
    BY <2>1 DEF Quiet
  <2>4. x[2] \in BOOLEAN /\ x[1] \in Roots(edges) \cup {None}
    OBVIOUS
  <2> QED BY <1>3, <2>2, <2>3, <2>4
<1>4. CASE kind = "slow"
  BY <1>1, <1>4 DEF Told, Quiet
<1>5. CASE kind = "network"
  BY <1>1, <1>5 DEF Told, Quiet
<1> QED BY <1>1, <1>2, <1>3, <1>4, <1>5 DEF Told

(* A call that is made before the fault arrives, whatever the fault.        *)
LEMMA MadeBefore ==
  ASSUME NEW p \in Paths(edges)
  PROVE  /\ Span(p, FALSE, "server", 1) \in Spans
         /\ Len(p) > 1 => Span(p, FALSE, "client", 1) \in Spans
<1>1. Made(p, FALSE, "server") /\ (Len(p) > 1 => Made(p, FALSE, "client"))
  BY DEF Made
<1>2. 1 \in 1..2 /\ 1 <= Calls(p)
  BY CalledAtLeastOnce
<1> QED BY <1>1, <1>2, IsSpan

(* Where a call is cut off.                                                 *)
LEMMA CutIs ==
  ASSUME NEW p \in Paths(edges)
  PROVE  Cut(p) <=> kind = "edge" /\ \E n \in 2..Len(p) : p[n - 1] = origin /\ p[n] = story.target
<1>1. ASSUME kind = "edge", NEW n \in 2..Len(p)
      PROVE  AtFault(SubSeq(p, 1, n)) <=> p[n - 1] = origin /\ p[n] = story.target
  <2> DEFINE q == SubSeq(p, 1, n)
  <2>1. n \in 1..Len(p) /\ n - 1 \in 1..n /\ n \in 1..n /\ n > 1
    BY PathIsSeq
  <2>2. Len(q) = n /\ \A i \in 1..n : q[i] = p[i]
    BY <2>1, PartIsPath
  <2> HIDE DEF q
  <2>3. Callee(q) = p[n] /\ Caller(q) = p[n - 1]
    BY <2>1, <2>2 DEF Callee, Caller
  <2> QED BY <1>1, <2>1, <2>2, <2>3 DEF AtFault, q
<1> QED BY <1>1 DEF Cut

(* Where the fault is, the calls that come there arrive, and the work or    *)
(* the call that is at fault fails.                                         *)
LEMMA FaultFails ==
  ASSUME NEW p \in Paths(edges), AtFault(p)
  PROVE  Fails(p)
<1>1. IsPrefix(p, p)
  BY PathIsSeq, PrefixOfPath
<1>2. Len(p)..(Len(p) - 1) = {}
  BY PathIsSeq
<1> QED BY <1>1, <1>2 DEF Fails

(* No call to the service at fault is cut off.                              *)
LEMMA FaultIsReached ==
  ASSUME edges \in TracedGraphs, NEW p \in Paths(edges), Callee(p) = origin
  PROVE  ~Cut(p)
<1>1. SUFFICES ASSUME NEW n \in 2..Len(p), p[n - 1] = origin PROVE FALSE
  BY CutIs
<1>2. n - 1 \in 1..Len(p) /\ Len(p) \in 1..Len(p) /\ n - 1 < Len(p) /\ p \in Seq(Traced)
  BY PathIsSeq
<1>3. p[n - 1] # p[Len(p)]
  BY <1>2, PathIsSimple, PathIsSeq
<1> QED BY <1>1, <1>3 DEF Callee

(* When a span began.                                                       *)
LEMMA BeginsWhen ==
  ASSUME NEW p \in Paths(edges), NEW after \in BOOLEAN
  PROVE  /\ Begin(p, after) \in Nat /\ Begin(p, after) <= WindowEnd
         /\ after => Begin(p, after) > Onset
         /\ Len(p) > 1 => Begin(p, after) >= 2
         /\ Onset \in Nat /\ Onset < WindowEnd
<1>1. WindowEnd \in Nat \ {0} /\ Onset \in Nat /\ Onset < WindowEnd
  BY StoreAssumption DEF Onset
<1>2. Len(p) \in Nat \ {0} /\ Len(p) <= Cardinality(Traced) /\ Cardinality(Traced) \in Nat
  BY PathIsSeq, TracedAreFew
<1>3. Onset + 2 * Cardinality(Traced) <= WindowEnd + 1
  <2>1. ASSUME NEW w \in Nat, NEW o \in Nat, NEW c \in Nat, o = w \div 2, 2 * c <= o + 1
        PROVE  o + 2 * c <= w + 1
    BY <2>1
  <2> QED BY <1>1, <1>2, <2>1, IncidentAssumption DEF Onset
<1>4. Begin(p, TRUE) = Onset + 1 + 2 * (Len(p) - 1) /\ Begin(p, FALSE) = 2 * (Len(p) - 1)
  BY <1>1, <1>2 DEF Begin
<1>5. Begin(p, TRUE) \in Nat /\ Begin(p, TRUE) <= WindowEnd /\ Begin(p, TRUE) > Onset
      /\ (Len(p) > 1 => Begin(p, TRUE) >= Onset + 2)
  <2>1. ASSUME NEW w \in Nat, NEW o \in Nat, NEW l \in Nat \ {0}, NEW c \in Nat, l <= c, o + 2 * c <= w + 1
        PROVE  /\ o + 1 + 2 * (l - 1) \in Nat /\ o + 1 + 2 * (l - 1) <= w /\ o + 1 + 2 * (l - 1) > o
               /\ l > 1 => o + 1 + 2 * (l - 1) >= o + 2
    BY <2>1
  <2> QED BY <1>1, <1>2, <1>3, <1>4, <2>1
<1>6. Begin(p, FALSE) \in Nat /\ Begin(p, FALSE) <= WindowEnd
      /\ (Len(p) > 1 => Begin(p, FALSE) >= 2)
  <2>1. ASSUME NEW w \in Nat, NEW o \in Nat, NEW l \in Nat \ {0}, NEW c \in Nat, l <= c, o + 2 * c <= w + 1
        PROVE  2 * (l - 1) \in Nat /\ 2 * (l - 1) <= w /\ (l > 1 => 2 * (l - 1) >= 2)
    BY <2>1
  <2> QED BY <1>1, <1>2, <1>3, <1>4, <2>1
<1>7. CASE after
  <2>1. after = TRUE
    BY <1>7
  <2>2. Len(p) > 1 => Begin(p, TRUE) >= 2
    <3> DEFINE b == Begin(p, TRUE)
    <3>1. b \in Nat /\ (Len(p) > 1 => b >= Onset + 2) /\ Onset \in Nat
      BY <1>1, <1>5
    <3> HIDE DEF b
    <3>2. Len(p) > 1 => b >= 2
      BY <3>1
    <3> QED BY <3>2 DEF b
  <2> QED BY <1>1, <1>5, <2>1, <2>2
<1>8. CASE ~after
  <2>1. after = FALSE
    BY <1>8
  <2> QED BY <1>1, <1>6, <2>1
<1> QED BY <1>7, <1>8
-----------------------------------------------------------------------------
(* What the tools take for calls are calls.                                 *)
LEMMA EdgesAreCalls ==
  ASSUME StoryOK, index # None, index \subseteq remote, NEW S \in SUBSET index, NEW e \in Edges(S)
  PROVE  \E p \in Paths(edges), after \in BOOLEAN, n \in 1..2 :
           /\ Span(p, after, "client", n) \in S /\ Len(p) > 1
           /\ callee_of(Span(p, after, "client", n)) = Callee(p)
           /\ e = <<Caller(p), Callee(p)>> /\ e \in edges
<1>1. edges \in TracedGraphs /\ remote = Spans /\ all_spans = index
  BY DEF StoryOK, all_spans
<1>2. PICK s \in S : /\ s.kind = "client" /\ callee_of(s) # None
                     /\ e = <<s.service, callee_of(s)>>
  BY DEF Edges
<1>3. PICK p \in Paths(edges), after \in BOOLEAN, side \in {"server", "client"}, n \in 1..2 :
        s = Span(p, after, side, n) /\ Made(p, after, side)
  <2>1. s \in Spans
    BY <1>1, <1>2
  <2> QED BY <2>1, SpanOf
<1>4. side = "client"
  <2>1. SUFFICES ASSUME side = "server" PROVE FALSE
    OBVIOUS
  <2>2. Span(p, after, "server", n).kind = "server"
    BY ServerIs
  <2>3. s.kind = "server"
    BY <1>3, <2>1, <2>2
  <2> QED BY <1>2, <2>3
<1>5. Len(p) > 1
  BY <1>3, <1>4 DEF Made
<1>6. callee_of(s) = Callee(p)
  <2>1. callee_of(s) = Callee(p) \/ callee_of(s) = None
    BY <1>1, <1>3, <1>4, <1>5, CalleeOfCall
  <2> QED BY <1>2, <2>1
<1>7. s.service = Caller(p)
  <2>1. Span(p, after, "client", n).service = Caller(p)
    BY ClientIs
  <2> QED BY <1>3, <1>4, <2>1
<1>8. <<Caller(p), Callee(p)>> \in edges
  <2>1. Len(p) - 1 \in 1..(Len(p) - 1) /\ (Len(p) - 1) + 1 = Len(p)
    BY <1>5, PathIsSeq
  <2> QED BY <2>1, PathIsSeq DEF Caller, Callee
<1> QED BY <1>2, <1>3, <1>4, <1>5, <1>6, <1>7, <1>8

(* A call whose callee is known is taken for one.                           *)
LEMMA CallsAreEdges ==
  ASSUME StoryOK, index # None, index \subseteq remote, NEW S \in SUBSET index,
         NEW p \in Paths(edges), Len(p) > 1, NEW after \in BOOLEAN, NEW n \in 1..2,
         Span(p, after, "client", n) \in S,
         callee_of(Span(p, after, "client", n)) = Callee(p)
  PROVE  <<Caller(p), Callee(p)>> \in Edges(S) /\ <<Caller(p), Callee(p)>> \in edges
<1> DEFINE s == Span(p, after, "client", n)
<1>1. edges \in TracedGraphs
  BY DEF StoryOK
<1>2. <<Caller(p), Callee(p)>> \in edges
  <2>1. Len(p) - 1 \in 1..(Len(p) - 1) /\ (Len(p) - 1) + 1 = Len(p)
    BY PathIsSeq
  <2> QED BY <2>1, PathIsSeq DEF Caller, Callee
<1>3. Callee(p) # Caller(p) /\ Callee(p) \in Traced
  BY <1>1, <1>2, CallsAreTraced
<1>4. Callee(p) # None
  BY <1>3, TracedAreFew
<1>5. s.kind = "client" /\ s.service = Caller(p)
  BY ClientIs
<1> QED BY <1>2, <1>3, <1>4, <1>5 DEF Edges

(* The tools' graph is that of the calls, and grows to all of them.         *)
LEMMA GraphHolds ==
  ASSUME StoryOK, index # None, index \subseteq remote
  PROVE  GraphIsRebuilt
<1>1. edges \in TracedGraphs /\ remote = Spans /\ all_spans = index
  BY DEF StoryOK, all_spans
<1>0. 1 \in 1..2 /\ TRUE \in BOOLEAN /\ FALSE \in BOOLEAN
  OBVIOUS
<1>2. traces_build_topology \subseteq edges
  <2>1. index \in SUBSET index
    OBVIOUS
  <2>2. \A e \in Edges(index) : e \in edges
    BY <2>1, EdgesAreCalls
  <2> QED BY <1>1, <2>2 DEF traces_build_topology
<1> SUFFICES ASSUME index = remote
             PROVE  /\ edges \subseteq traces_build_topology
                    /\ topology_compare(Onset) =
                         {<<p[Len(p) - 1], p[Len(p)]>> : p \in
                            {s.id[1] : s \in {e \in Errors : e.kind = "client" /\ callee_of(e) # None}}}
                    /\ kind = "edge" /\ story.named => <<origin, story.target>> \in topology_compare(Onset)
  BY <1>2 DEF GraphIsRebuilt
<1>3. ASSUME NEW e \in edges PROVE e \in traces_build_topology
  <2>1. e[1] \in Traced /\ e = <<e[1], e[2]>>
    BY <1>1, CallsAreTraced
  <2>2. PICK q \in Paths(edges) : Callee(q) = e[1]
    BY <1>1, <2>1, ServiceIsReached
  <2> DEFINE p == Append(q, e[2])
  <2>3. <<Callee(q), e[2]>> \in edges
    BY <2>1, <2>2
  <2>4. /\ p \in Paths(edges) /\ Len(p) > 1
        /\ Callee(p) = e[2] /\ Caller(p) = e[1]
    BY <1>1, <2>2, <2>3, PathGoesOn
  <2> HIDE DEF p
  <2>5. Span(p, FALSE, "client", 1) \in index /\ Span(p, FALSE, "server", 1) \in index
    BY <1>1, <2>4, MadeBefore
  <2>6. callee_of(Span(p, FALSE, "client", 1)) = Callee(p)
    BY <1>0, <1>1, <2>4, <2>5, CalleeOfCall
  <2>7. <<Caller(p), Callee(p)>> \in Edges(index)
    BY <1>0, <1>1, <2>4, <2>5, <2>6, CallsAreEdges
  <2> QED BY <1>1, <2>1, <2>4, <2>7 DEF traces_build_topology
<1> DEFINE Since == {s \in Errors : s.time >= Onset}
           Prior == {s \in Errors : s.time < Onset}
           Failed == {e \in Errors : e.kind = "client" /\ callee_of(e) # None}
<1>4. Since \in SUBSET index /\ Prior \in SUBSET index
  BY <1>1 DEF Errors
<1>5. ASSUME NEW p \in Paths(edges), NEW after \in BOOLEAN, NEW n \in 1..2, Len(p) > 1,
             Span(p, after, "client", n) \in Errors
      PROVE  after /\ Span(p, after, "client", n).time >= Onset
  <2>1. Span(p, after, "client", n).error
    BY <1>5 DEF Errors
  <2>2. after
    BY <2>1, ClientIs
  <2>3. Begin(p, after) \in Nat /\ Begin(p, after) > Onset /\ Onset \in Nat
    BY <2>2, BeginsWhen
  <2>4. Span(p, after, "client", n).time = Begin(p, after) - 1
    BY ClientIs
  <2> DEFINE b == Begin(p, after)  t == Span(p, after, "client", n).time
  <2>5. b \in Nat /\ b > Onset /\ Onset \in Nat /\ t = b - 1
    BY <2>3, <2>4
  <2> HIDE DEF b, t
  <2>6. t >= Onset
    BY <2>5
  <2> QED BY <2>2, <2>6 DEF t
<1>6. Edges(Prior) = {}
  <2>1. SUFFICES ASSUME NEW e \in Edges(Prior) PROVE FALSE
    OBVIOUS
  <2>2. PICK p \in Paths(edges), after \in BOOLEAN, n \in 1..2 :
          Span(p, after, "client", n) \in Prior /\ Len(p) > 1
    BY <1>4, EdgesAreCalls
  <2>3. Span(p, after, "client", n).time = Begin(p, after) - 1 /\ Begin(p, after) \in Nat /\ Onset \in Nat
    BY <2>2, ClientIs, BeginsWhen
  <2>4. Span(p, after, "client", n).time >= Onset
    BY <1>5, <2>2
  <2>5. Span(p, after, "client", n).time < Onset
    BY <2>2
  <2> HIDE DEF Prior
  <2> QED BY <2>3, <2>4, <2>5
<1>7. topology_compare(Onset) = Edges(Since)
  BY <1>6 DEF topology_compare
<1>8. Edges(Since) = {<<p[Len(p) - 1], p[Len(p)]>> : p \in {s.id[1] : s \in Failed}}
  <2>1. ASSUME NEW e \in Edges(Since)
        PROVE  e \in {<<p[Len(p) - 1], p[Len(p)]>> : p \in {s.id[1] : s \in Failed}}
    <3>1. PICK p \in Paths(edges), after \in BOOLEAN, n \in 1..2 :
            /\ Span(p, after, "client", n) \in Since /\ Len(p) > 1
            /\ callee_of(Span(p, after, "client", n)) = Callee(p)
            /\ e = <<Caller(p), Callee(p)>> /\ e \in edges
      BY <1>4, EdgesAreCalls
    <3> DEFINE s == Span(p, after, "client", n)
    <3>2. s.id = <<p, after, "client", n>> /\ s.kind = "client"
      BY ClientIs
    <3>3. Callee(p) # None
      BY <3>1, PathIsSeq, TracedAreFew
    <3>4. s \in Failed
      BY <3>1, <3>2, <3>3
    <3>5. s.id[1] = p
      BY <3>2
    <3> QED BY <3>1, <3>4, <3>5 DEF Caller, Callee
  <2>2. ASSUME NEW s \in Failed
        PROVE  <<s.id[1][Len(s.id[1]) - 1], s.id[1][Len(s.id[1])]>> \in Edges(Since)
    <3>1. s \in Spans /\ s \in Errors /\ s.kind = "client" /\ callee_of(s) # None
      BY <1>1 DEF Errors
    <3>2. PICK p \in Paths(edges), after \in BOOLEAN, side \in {"server", "client"}, n \in 1..2 :
            s = Span(p, after, side, n) /\ Made(p, after, side)
      BY <3>1, SpanOf
    <3>3. side = "client"
      <4>1. side = "server" => s.kind = "server"
        BY <3>2, ServerIs
      <4> QED BY <3>1, <3>2, <4>1
    <3>4. Len(p) > 1 /\ s = Span(p, after, "client", n)
      BY <3>2, <3>3 DEF Made
    <3>5. callee_of(s) = Callee(p)
      <4>1. callee_of(s) = Callee(p) \/ callee_of(s) = None
        BY <1>1, <3>2, <3>4, CalleeOfCall
      <4> QED BY <3>1, <4>1
    <3>6. s \in Since
      BY <1>5, <3>1, <3>2, <3>4
    <3>7. <<Caller(p), Callee(p)>> \in Edges(Since)
      BY <1>4, <3>2, <3>4, <3>5, <3>6, CallsAreEdges
    <3>8. s.id = <<p, after, "client", n>>
      <4>1. Span(p, after, "client", n).id = <<p, after, "client", n>>
        BY ClientIs
      <4> QED BY <3>4, <4>1
    <3>9. s.id[1] = p
      BY <3>8
    <3> QED BY <3>7, <3>9 DEF Caller, Callee
  <2> QED BY <2>1, <2>2
<1>9. ASSUME kind = "edge", story.named PROVE <<origin, story.target>> \in Edges(Since)
  <2>1. <<origin, story.target>> \in edges /\ origin \in Traced
    BY <1>9, StoriesSay DEF StoryOK
  <2>2. PICK q \in Paths(edges) : Callee(q) = origin
    BY <1>1, <2>1, ServiceIsReached
  <2> DEFINE p == Append(q, story.target)
  <2>3. /\ p \in Paths(edges) /\ Len(p) > 1 /\ Front(p) = q
        /\ Callee(p) = story.target /\ Caller(p) = origin
    BY <1>1, <2>1, <2>2, PathGoesOn
  <2> HIDE DEF p
  <2>4. AtFault(p) /\ Fails(p)
    BY <1>9, <2>3, FaultFails DEF AtFault
  <2>5. Made(p, TRUE, "client")
    BY <1>1, <2>2, <2>3, FaultIsReached DEF Made
  <2>6. Span(p, TRUE, "client", 1) \in index
    BY <1>0, <1>1, <2>3, <2>5, CalledAtLeastOnce, IsSpan
  <2>7. /\ Span(p, TRUE, "client", 1).error
        /\ Span(p, TRUE, "client", 1).rpc = Callee(p)
    BY <1>0, <1>9, <2>3, <2>4, ClientIs
  <2>8. callee_of(Span(p, TRUE, "client", 1)) = Callee(p)
    BY <1>0, <1>1, <1>9, <2>3, CalleeOfCall
  <2>9. Span(p, TRUE, "client", 1) \in Since
    BY <1>0, <1>1, <1>5, <2>3, <2>6, <2>7 DEF Errors
  <2> QED BY <1>0, <1>4, <2>3, <2>8, <2>9, CallsAreEdges
<1> QED BY <1>3, <1>7, <1>8, <1>9

-----------------------------------------------------------------------------
(* What shows the fault, and what eliminates a cause.                       *)

(* What spans are named after, in terms that lemmas are applied to.         *)
LEMMA FirstCall == 1 \in 1..2 /\ TRUE \in BOOLEAN /\ FALSE \in BOOLEAN
  OBVIOUS

(* What fails before the fault is what once failed on its own, an entry.    *)
LEMMA NoiseIsEntry ==
  ASSUME StoryOK, NEW p \in Paths(edges), p = <<story.noise>>
  PROVE  story.noise \in Roots(edges) /\ Callee(p) = story.noise /\ Len(p) = 1
<1>1. p[1] = story.noise /\ Len(p) = 1
  OBVIOUS
<1>2. p[1] \in Traced
  BY PathIsSeq
<1>3. story.noise # None
  BY <1>1, <1>2, TracedAreFew
<1> QED BY <1>1, <1>3, StoriesSay DEF Callee

(* Where the fault is there is a span that shows it.                        *)
LEMMA ServiceShowsFault ==
  ASSUME StoryOK, kind = "service", NEW p \in Paths(edges), Callee(p) = origin
  PROVE  Span(p, TRUE, "server", 1) \in Spans /\ Span(p, TRUE, "server", 1).error = TRUE
<1>1. AtFault(p) /\ Fails(p)
  BY FaultFails DEF AtFault
<1>2. Made(p, TRUE, "server")
  BY DEF Made, Cut
<1>3. Span(p, TRUE, "server", 1) \in Spans
  BY <1>2, CalledAtLeastOnce, FirstCall, IsSpan
<1>4. Span(p, TRUE, "server", 1).error = Fails(p)
  BY FirstCall, ServerIs
<1>5. Fails(p) \in BOOLEAN
  BY DEF Fails
<1> QED BY <1>1, <1>3, <1>4, <1>5

(* A call at fault has a client's span, an error.                           *)
LEMMA CallShowsFault ==
  ASSUME StoryOK, kind = "edge", NEW p \in Paths(edges), AtFault(p)
  PROVE  Span(p, TRUE, "client", 1) \in Spans /\ Span(p, TRUE, "client", 1).error = TRUE
<1>0. edges \in TracedGraphs
  BY DEF StoryOK
<1>1. Fails(p) /\ Len(p) > 1 /\ Caller(p) = origin
  BY FaultFails DEF AtFault
<1>2. Made(p, TRUE, "client")
  <2>1. /\ Len(p) - 1 \in 1..Len(p) /\ Len(p) \in Nat
    BY <1>1, PathIsSeq
  <2>2. Front(p) \in Paths(edges) /\ Len(Front(p)) = Len(p) - 1 /\ Front(p)[Len(p) - 1] = p[Len(p) - 1]
    BY <2>1, PartIsPath DEF Front
  <2>3. Callee(Front(p)) = origin
    BY <1>1, <2>2 DEF Callee, Caller
  <2> QED BY <1>0, <1>1, <2>2, <2>3, FaultIsReached DEF Made
<1>3. Span(p, TRUE, "client", 1) \in Spans
  BY <1>2, CalledAtLeastOnce, FirstCall, IsSpan
<1>4. Span(p, TRUE, "client", 1).error = Fails(p)
  BY FirstCall, ClientIs
<1>5. Fails(p) \in BOOLEAN
  BY DEF Fails
<1> QED BY <1>1, <1>3, <1>4, <1>5

(* There are paths to where the fault is.                                   *)
LEMMA PathToFault ==
  ASSUME StoryOK, kind \in {"service", "edge"}
  PROVE  \E p \in Paths(edges) : AtFault(p)
<1>1. edges \in TracedGraphs /\ origin \in Traced
  BY DEF StoryOK
<1>2. PICK q \in Paths(edges) : Callee(q) = origin
  BY <1>1, ServiceIsReached
<1>3. CASE kind = "service"
  BY <1>2, <1>3 DEF AtFault
<1>4. CASE kind = "edge"
  <2>1. <<Callee(q), story.target>> \in edges
    BY <1>2, <1>4, StoriesSay
  <2> DEFINE p == Append(q, story.target)
  <2>2. p \in Paths(edges) /\ Len(p) > 1 /\ Callee(p) = story.target /\ Caller(p) = Callee(q)
    BY <1>1, <2>1, PathGoesOn
  <2> HIDE DEF p
  <2> QED BY <1>2, <1>4, <2>2 DEF AtFault
<1> QED BY <1>3, <1>4

(* The service that a call at fault should have reached fails in no span.   *)
LEMMA TargetIsInnocent ==
  ASSUME StoryOK, kind = "edge", NEW s \in Spans, s.kind = "server", s.error = TRUE
  PROVE  s.service # story.target
<1> SUFFICES ASSUME s.service = story.target PROVE FALSE
  OBVIOUS
<1>1. edges \in TracedGraphs /\ <<origin, story.target>> \in edges
  BY StoriesSay DEF StoryOK
<1>2. PICK p \in Paths(edges), after \in BOOLEAN, side \in {"server", "client"}, n \in 1..2 :
        s = Span(p, after, side, n) /\ Made(p, after, side)
  BY SpanOf
<1>3. side = "server"
  <2>1. side = "client" => s.kind = "client"
    BY <1>2, ClientIs
  <2> QED BY <1>2, <2>1
<1>4. /\ Callee(p) = story.target
      /\ IF after THEN Fails(p) ELSE p = <<story.noise>>
  <2>1. /\ Span(p, after, "server", n).service = Callee(p)
        /\ Span(p, after, "server", n).error = IF after THEN Fails(p) ELSE p = <<story.noise>>
    BY ServerIs
  <2>2. s = Span(p, after, "server", n)
    BY <1>2, <1>3
  <2>3. Callee(p) = story.target
    BY <2>1, <2>2
  <2>4. IF after THEN Fails(p) ELSE p = <<story.noise>>
    <3>1. TRUE = IF after THEN Fails(p) ELSE p = <<story.noise>>
      BY <2>1, <2>2
    <3> QED BY <3>1
  <2> QED BY <2>3, <2>4
<1>5. CASE after
  <2>1. ~Cut(p)
    BY <1>2, <1>3, <1>5 DEF Made
  <2>2. PICK f \in Paths(edges) : AtFault(f) /\ IsPrefix(p, f)
    BY <1>4, <1>5 DEF Fails
  <2>3. Len(f) > 1 /\ f[Len(f) - 1] = origin /\ f[Len(f)] = story.target
    BY <2>2 DEF AtFault, Caller, Callee
  <2>4. Len(p) <= Len(f) /\ Len(p) \in 1..Len(f) /\ f \in Seq(Traced) /\ p[Len(p)] = f[Len(p)]
        /\ Len(f) \in 1..Len(f) /\ Len(p) \in Nat /\ Len(f) \in Nat
    BY <2>2, PathIsSeq, PrefixOfPath
  <2>5. f[Len(p)] = f[Len(f)]
    BY <1>4, <2>3, <2>4 DEF Callee
  <2>6. Len(p) = Len(f)
    <3>1. \A i, j \in 1..Len(f) : i < j => f[i] # f[j]
      BY <1>1, <2>4, PathIsSeq, PathIsSimple
    <3> QED BY <2>4, <2>5, <3>1
  <2>7. p = f
    BY <2>2, <2>6, PrefixOfPath, SamePath
  <2>8. Len(p) \in 2..Len(p)
    BY <2>3, <2>4, <2>7
  <2>9. Cut(p)
    BY <2>3, <2>7, <2>8, CutIs
  <2> QED BY <2>1, <2>9
<1>6. CASE ~after
  <2>1. story.noise \in Roots(edges) /\ Callee(p) = story.noise
    BY <1>4, <1>6, NoiseIsEntry
  <2>2. story.target \in Roots(edges)
    BY <1>4, <2>1
  <2>3. <<origin, story.target>>[2] = story.target
    OBVIOUS
  <2> QED BY <1>1, <2>2, <2>3 DEF Roots
<1> QED BY <1>5, <1>6

(* The first error is one of the fault's, when nothing failed before.       *)
LEMMA FirstErrorIsLate ==
  ASSUME StoryOK, index # None, index = remote, kind \in {"service", "edge"}, story.noise = None
  PROVE  /\ traces_first_error_time \in Nat /\ Onset \in Nat /\ Onset <= traces_first_error_time
         /\ \A s \in Errors : traces_first_error_time <= s.time
<1>1. all_spans = Spans
  BY DEF all_spans, StoryOK
<1>2. ASSUME NEW s \in Errors PROVE s.time \in Nat /\ Onset <= s.time
  <2>1. PICK p \in Paths(edges), after \in BOOLEAN, side \in {"server", "client"}, n \in 1..2 :
          s = Span(p, after, side, n) /\ Made(p, after, side)
    BY <1>1, SpanOf DEF Errors
  <2>2. s.error
    BY DEF Errors
  <2>3. after
    <3>1. SUFFICES ASSUME ~after PROVE FALSE
      OBVIOUS
    <3>2. CASE side = "client"
      BY <2>1, <2>2, <3>1, <3>2, ClientIs
    <3>3. CASE side = "server"
      <4>1. Span(p, after, "server", n).error = (p = <<story.noise>>)
        BY <3>1, ServerIs
      <4>2. p = <<story.noise>>
        BY <2>1, <2>2, <3>3, <4>1
      <4>3. story.noise \in Roots(edges)
        BY <4>2, NoiseIsEntry
      <4> QED BY <4>3, TracedAreFew DEF Roots
    <3> QED BY <3>2, <3>3
  <2> DEFINE b == Begin(p, after)
  <2>4. b \in Nat /\ b > Onset /\ Onset \in Nat
    BY <2>3, BeginsWhen
  <2>5. s.time = b \/ s.time = b - 1
    <3>1. CASE side = "client"
      BY <2>1, <3>1, ClientIs
    <3>2. CASE side = "server"
      BY <2>1, <3>2, ServerIs
    <3> QED BY <3>1, <3>2
  <2> HIDE DEF b
  <2> QED BY <2>4, <2>5
<1>3. Errors # {} /\ Onset \in Nat
  <2>1. PICK p \in Paths(edges) : AtFault(p)
    BY PathToFault
  <2>2. CASE kind = "service"
    <3>1. Callee(p) = origin
      BY <2>1, <2>2 DEF AtFault
    <3>2. Span(p, TRUE, "server", 1) \in Spans /\ Span(p, TRUE, "server", 1).error = TRUE
      BY <2>2, <3>1, ServiceShowsFault
    <3> QED BY <1>1, <3>2, BeginsWhen DEF Errors
  <2>3. CASE kind = "edge"
    <3>2. Span(p, TRUE, "client", 1) \in Spans /\ Span(p, TRUE, "client", 1).error = TRUE
      BY <2>1, <2>3, CallShowsFault
    <3> QED BY <1>1, <3>2, BeginsWhen DEF Errors
  <2> QED BY <2>2, <2>3
<1> DEFINE Times == {s.time : s \in Errors}
<1>4. Times \in SUBSET Nat /\ Times # {}
  BY <1>2, <1>3
<1>5. Min(Times) \in Times /\ \A t \in Times : Min(Times) <= t
  <2> HIDE DEF Times
  <2> QED BY <1>4, LeastIsMin
<1>6. \A t \in Times : t \in Nat /\ Onset <= t
  BY <1>2
<1> QED BY <1>3, <1>5, <1>6 DEF traces_first_error_time

(* A hypothesis on the service, or on the call, at fault is supported.      *)
LEMMA FaultIsSupported ==
  ASSUME StoryOK, index # None, index = remote
  PROVE  /\ kind = "service" => own_fault(origin, Onset)
         /\ kind = "edge" /\ story.named => Supported(Of("edge", origin, story.target), Onset)
<1>1. all_spans = Spans /\ edges \in TracedGraphs /\ remote = Spans
  BY DEF all_spans, StoryOK
<1>2. ASSUME kind = "service" PROVE own_fault(origin, Onset)
  <2>1. PICK p \in Paths(edges) : AtFault(p)
    BY <1>2, PathToFault
  <2>2. Callee(p) = origin
    BY <1>2, <2>1 DEF AtFault
  <2> DEFINE s == Span(p, TRUE, "server", 1)
  <2>3. s \in Spans /\ s.error = TRUE /\ s.kind = "server" /\ s.service = origin
    BY <1>2, <2>2, ServiceShowsFault, FirstCall, ServerIs
  <2> HIDE DEF s
  <2>4. s \in find_spans(origin, "server", TRUE)
    BY <1>1, <2>3 DEF find_spans
  <2> QED BY <2>4 DEF own_fault
<1>3. ASSUME kind = "edge", story.named PROVE Supported(Of("edge", origin, story.target), Onset)
  <2>1. PICK p \in Paths(edges) : AtFault(p)
    BY <1>3, PathToFault
  <2>2. Len(p) > 1 /\ Caller(p) = origin /\ Callee(p) = story.target
    BY <1>3, <2>1 DEF AtFault
  <2> DEFINE s == Span(p, TRUE, "client", 1)
  <2>3. s \in Spans /\ s.error = TRUE
    BY <1>3, <2>1, CallShowsFault
  <2>4. s.kind = "client" /\ s.service = origin
    BY <2>2, FirstCall, ClientIs
  <2>5. callee_of(s) = story.target
    BY <1>1, <1>3, <2>2, FirstCall, CalleeOfCall
  <2> HIDE DEF s
  <2>6. s \in find_spans(origin, "client", TRUE)
    BY <1>1, <2>3, <2>4 DEF find_spans
  <2>7. find_spans(story.target, "server", TRUE) = {}
    <3>1. SUFFICES ASSUME NEW t \in find_spans(story.target, "server", TRUE) PROVE FALSE
      OBVIOUS
    <3>2. t \in Spans /\ t.kind = "server" /\ t.error = TRUE /\ t.service = story.target
      BY <1>1 DEF find_spans
    <3> QED BY <1>3, <3>2, TargetIsInnocent
  <2> DEFINE h == Of("edge", origin, story.target)
  <2>8. h.class = "edge" /\ h.caller = origin /\ h.service = story.target
    BY DEF Of
  <2> HIDE DEF h
  <2>9. Supported(h, Onset)
    BY <2>5, <2>6, <2>7, <2>8 DEF Supported
  <2> QED BY <2>9 DEF h
<1> QED BY <1>2, <1>3

(* What changed: the culprit, something elsewhere, and something too late.  *)
LEMMA ChangesAre ==
  ASSUME StoryOK
  PROVE  \E s \in Traced \ {origin}, t \in Nat :
           /\ t > Onset
           /\ changes = {Change("culprit", origin, Culprit), Change("elsewhere", s, Culprit + 1),
                         Change("late", origin, t)}
<1>1. PICK s \in Traced \ {origin}, t \in {Onset + 1, Onset + 3} :
        changes = {Change("culprit", origin, Culprit), Change("elsewhere", s, Culprit + 1),
                   Change("late", origin, t)}
  BY DEF StoryOK, Changes
<1>2. Onset \in Nat
  BY StoreAssumption DEF Onset
<1>3. t \in Nat /\ t > Onset
  BY <1>2
<1> QED BY <1>1, <1>3

(* The change that caused the fault ranks first of those before the onset.  *)
LEMMA CulpritRanksFirst ==
  ASSUME StoryOK, Unmistaken, NEW onset \in Nat, onset = traces_first_error_time, Onset <= onset
  PROVE  /\ changes_rank_culprit(origin, onset) = {Change("culprit", origin, Culprit)}
         /\ NearestBefore(origin, onset) = {Change("culprit", origin, Culprit)}
<1> DEFINE c == Change("culprit", origin, Culprit)
<1>1. PICK s \in Traced \ {origin}, t \in Nat :
        t > Onset /\ changes = {c, Change("elsewhere", s, Culprit + 1), Change("late", origin, t)}
  BY ChangesAre
<1> DEFINE e == Change("elsewhere", s, Culprit + 1)  l == Change("late", origin, t)
<1>2. Culprit = 3 /\ Culprit < Onset /\ Onset \in Nat
  BY IncidentAssumption, StoreAssumption DEF Culprit, Onset
<1>3. /\ c.service = origin /\ c.time = 3 /\ e.service = s /\ e.time = 4 /\ l.service = origin /\ l.time = t
      /\ s # origin
  BY <1>2 DEF Change
<1> HIDE DEF c, e, l
<1>4. c \in changes /\ e \in changes /\ l \in changes /\ changes = {c, e, l}
  BY <1>1 DEF e, l
<1>5. ~(l.time < onset) /\ c.time < onset
  <2>1. l.time >= onset
    BY <1>1, <1>2, <1>3, <1>4 DEF Unmistaken
  <2> QED BY <1>1, <1>2, <1>3, <2>1
<1>6. changes_lookback(onset) \subseteq {c, e} /\ c \in changes_lookback(onset)
  BY <1>4, <1>5 DEF changes_lookback
<1>7. RanksBefore(c, e, origin) /\ ~RanksBefore(c, c, origin) /\ ~RanksBefore(e, c, origin)
  BY <1>3 DEF RanksBefore
<1>8. changes_rank_culprit(origin, onset) = {c}
  BY <1>6, <1>7 DEF changes_rank_culprit
<1>9. NearestBefore(origin, onset) = {c}
  BY <1>3, <1>6 DEF NearestBefore
<1> QED BY <1>8, <1>9 DEF c

(* Nothing eliminates what caused the fault.                                *)
LEMMA CulpritHolds ==
  ASSUME index # None => StoryOK \/ story.export # None
  PROVE  CulpritSurvives
<1> SUFFICES ASSUME Known PROVE
         /\ kind = "service" =>
              ~ServiceRuledOut(origin, Onset) /\ Supported(Of("service", None, origin), Onset)
         /\ kind = "edge" /\ story.named => Supported(Of("edge", origin, story.target), Onset)
         /\ kind \in {"service", "edge"} /\ story.noise = None =>
              LET onset == traces_first_error_time
              IN  /\ \A c \in changes : c.id = "culprit" => ~ChangeRuledOut(c, onset)
                  /\ Unmistaken =>
                       /\ {c.id : c \in changes_rank_culprit(origin, onset)} = {"culprit"}
                       /\ {c.id : c \in NearestBefore(origin, onset)} = {"culprit"}
  BY DEF CulpritSurvives
<1>1. StoryOK /\ index # None /\ index = remote
  BY DEF Known, Recorded
<1>2. ASSUME kind = "service"
      PROVE  ~ServiceRuledOut(origin, Onset) /\ Supported(Of("service", None, origin), Onset)
  <2>1. own_fault(origin, Onset)
    BY <1>1, <1>2, FaultIsSupported
  <2> DEFINE h == Of("service", None, origin)
  <2>2. h.class = "service" /\ h.service = origin
    BY DEF Of
  <2> HIDE DEF h
  <2>3. Supported(h, Onset)
    BY <2>1, <2>2 DEF Supported
  <2> QED BY <2>1, <2>3 DEF h, ServiceRuledOut
<1>3. ASSUME kind = "edge", story.named PROVE Supported(Of("edge", origin, story.target), Onset)
  BY <1>1, <1>3, FaultIsSupported
<1>4. ASSUME kind \in {"service", "edge"}, story.noise = None
      PROVE  LET onset == traces_first_error_time
             IN  /\ \A c \in changes : c.id = "culprit" => ~ChangeRuledOut(c, onset)
                 /\ Unmistaken =>
                      /\ {c.id : c \in changes_rank_culprit(origin, onset)} = {"culprit"}
                      /\ {c.id : c \in NearestBefore(origin, onset)} = {"culprit"}
  <2> DEFINE onset == traces_first_error_time
  <2>1. onset \in Nat /\ Onset \in Nat /\ Onset <= onset
    BY <1>1, <1>4, FirstErrorIsLate
  <2>2. Culprit = 3 /\ Culprit < Onset
    BY IncidentAssumption DEF Culprit
  <2>3. ASSUME NEW c \in changes, c.id = "culprit" PROVE ~ChangeRuledOut(c, onset)
    <3>1. c = Change("culprit", origin, Culprit)
      <4>1. PICK s \in Traced \ {origin}, t \in Nat :
              changes = {Change("culprit", origin, Culprit), Change("elsewhere", s, Culprit + 1),
                         Change("late", origin, t)}
        BY <1>1, ChangesAre
      <4>2. Change("elsewhere", s, Culprit + 1).id = "elsewhere" /\ Change("late", origin, t).id = "late"
        BY DEF Change
      <4> QED BY <2>3, <4>1, <4>2
    <3>2. c.time = Culprit
      BY <3>1 DEF Change
    <3> HIDE DEF onset
    <3> QED BY <2>1, <2>2, <3>2 DEF ChangeRuledOut
  <2>4. ASSUME Unmistaken
        PROVE  /\ {c.id : c \in changes_rank_culprit(origin, onset)} = {"culprit"}
               /\ {c.id : c \in NearestBefore(origin, onset)} = {"culprit"}
    <3>1. /\ changes_rank_culprit(origin, onset) = {Change("culprit", origin, Culprit)}
          /\ NearestBefore(origin, onset) = {Change("culprit", origin, Culprit)}
      BY <1>1, <2>1, <2>4, CulpritRanksFirst
    <3>2. Change("culprit", origin, Culprit).id = "culprit"
      BY DEF Change
    <3> QED BY <3>1, <3>2
  <2> QED BY <2>3, <2>4
<1> QED BY <1>2, <1>3, <1>4

-----------------------------------------------------------------------------
(* The invariant of an incident while its spans are hydrated.               *)

(* How the index may stand to the spans of an incident: of the traces that  *)
(* were sampled every span is there.                                        *)
WholeTraces ==
  index # None /\ backend = "lgtm" =>
    /\ index \subseteq remote
    /\ \A s \in index, t \in remote : t.trace = s.trace => t \in index

(* An incident stays what it was while its spans are hydrated; what was     *)
(* converted is a fixture.                                                  *)
IncidentInv ==
  \/ story.export # None /\ backend = "fixture"
  \/ /\ story.export = None /\ backend \in {"newrelic", "lgtm"}
     /\ remote # {} => StoryOK
     /\ index # None => remote # {}
     /\ StoreInv /\ WholeTraces

(* The spans of an incident began in the window.                            *)
LEMMA SpansAreTimely ==
  ASSUME NEW s \in Spans
  PROVE  s.time \in 0..WindowEnd
<1>1. PICK p \in Paths(edges), after \in BOOLEAN, side \in {"server", "client"}, n \in 1..2 :
        s = Span(p, after, side, n) /\ Made(p, after, side)
  BY SpanOf
<1> DEFINE b == Begin(p, after)
<1>2. b \in Nat /\ b <= WindowEnd /\ (Len(p) > 1 => b >= 2) /\ WindowEnd \in Nat
  BY BeginsWhen, StoreAssumption
<1>3. CASE side = "server"
  <2>1. s.time = b
    BY <1>1, <1>3, ServerIs
  <2> HIDE DEF b
  <2> QED BY <1>2, <2>1
<1>4. CASE side = "client"
  <2>1. s.time = b - 1 /\ Len(p) > 1
    BY <1>1, <1>4, ClientIs DEF Made
  <2> HIDE DEF b
  <2> QED BY <1>2, <2>1
<1> QED BY <1>3, <1>4

(* Every incident begins as one.                                            *)
LEMMA IncidentStarts == IncidentInit => IncidentInv
<1> SUFFICES ASSUME IncidentInit PROVE IncidentInv
  OBVIOUS
<1>1. index = None /\ pending = <<>> /\ raw = {} /\ StoreInit
  BY DEF IncidentInit, StoreInit
<1>2. pending \in Seq(Stretch) /\ raw \subseteq remote /\ IndexComplete /\ WholeTraces
  BY <1>1 DEF IndexComplete, WholeTraces
<1>3. CASE SpanInit /\ backend \in {"newrelic", "lgtm"}
  <2>1. StoryOK
    BY <1>3 DEF SpanInit, StoryOK
  <2>2. story.export = None
    BY <1>3 DEF SpanInit, Told, Quiet
  <2>3. StoreInv
    BY <1>1, <1>2, <2>1, SpansAreTimely DEF StoreInv, StoryOK
  <2> QED BY <1>1, <1>2, <1>3, <2>1, <2>2, <2>3 DEF IncidentInv
<1>4. CASE ConvertedInit /\ backend = "fixture"
  <2>1. story \in {[q EXCEPT !.export = x] :
                     q \in {[Quiet EXCEPT !.noise = n] : n \in Roots(edges)}
                            \cup {[Quiet EXCEPT !.named = b] : b \in BOOLEAN},
                     x \in Exports}
    BY <1>4 DEF ConvertedInit
  <2>2. story.export \in Exports
    BY <2>1 DEF Quiet
  <2> QED BY <1>4, <2>2, NoneAssumption DEF IncidentInv
<1>5. CASE (StepInit \/ OnlySeries) /\ backend = "newrelic"
  <2>1. remote = {} /\ story = Quiet
    BY <1>5 DEF StepInit, OnlySeries
  <2>2. story.export = None
    BY <2>1 DEF Quiet
  <2> QED BY <1>1, <1>2, <1>5, <2>1, <2>2 DEF IncidentInv, StoreInv
<1> QED BY <1>3, <1>4, <1>5 DEF IncidentInit

(* What a fault does depends on the incident only.                          *)
LEMMA StoryStays ==
  ASSUME StoryOK, UNCHANGED <<edges, kind, origin, story, remote, changes>>
  PROVE  StoryOK'
<1>1. /\ edges' = edges /\ kind' = kind /\ origin' = origin /\ story' = story
      /\ remote' = remote /\ changes' = changes
  OBVIOUS
<1>2. \A p : AtFault(p)' = AtFault(p)
  BY <1>1 DEF AtFault
<1>3. \A p : Cut(p)' = Cut(p) /\ Fails(p)' = Fails(p)
  BY <1>1, <1>2 DEF Cut, Fails
<1>4. /\ \A s, after : Work(s, after)' = Work(s, after)
      /\ \A p, after : OnWire(p, after)' = OnWire(p, after)
      /\ \A p : Calls(p)' = Calls(p)
  BY <1>1 DEF Work, OnWire, Calls
<1>5. \A p, after : Below(p, after)' = Below(p, after)
  BY <1>1, <1>3 DEF Below
<1>6. \A p, after : Serving(p, after)' = Serving(p, after)
  BY <1>4, <1>5 DEF Serving
<1>7. \A p, after, side, n : Span(p, after, side, n)' = Span(p, after, side, n)
  BY <1>1, <1>3, <1>4, <1>6 DEF Span
<1>8. \A p, after, side : Made(p, after, side)' = Made(p, after, side)
  BY <1>3 DEF Made
<1>9. Sent' = Sent
  BY <1>1, <1>4, <1>8 DEF Sent
<1>10. Spans' = Spans
  BY <1>7, <1>9 DEF Spans
<1>11. Told'
  <2>1. Told
    BY DEF StoryOK
  <2>2. CASE kind = "service"
    <3>1. \E H \in {{}} \cup {{h} : h \in Traced \ {origin}}, n \in Roots(edges) \cup {None} :
            story = [Quiet EXCEPT !.handlers = H, !.noise = n]
      BY <2>1, <2>2 DEF Told
    <3>2. \E H \in {{}} \cup {{h} : h \in Traced \ {origin'}}, n \in Roots(edges') \cup {None} :
            story' = [Quiet EXCEPT !.handlers = H, !.noise = n]
      BY <1>1, <3>1, Zenon
    <3> QED BY <1>1, <2>2, <3>2 DEF Told
  <2>3. CASE kind = "edge"
    <3>1. \E e \in {d \in edges : d[1] = origin}, H \in {{}} \cup {{h} : h \in Traced},
             x \in (Roots(edges) \X {TRUE}) \cup ({None} \X BOOLEAN) :
            story = [Quiet EXCEPT !.target = e[2], !.handlers = H, !.noise = x[1], !.named = x[2]]
      BY <2>1, <2>3 DEF Told
    <3>2. \E e \in {d \in edges' : d[1] = origin'}, H \in {{}} \cup {{h} : h \in Traced},
             x \in (Roots(edges') \X {TRUE}) \cup ({None} \X BOOLEAN) :
            story' = [Quiet EXCEPT !.target = e[2], !.handlers = H, !.noise = x[1], !.named = x[2]]
      <4>1. {d \in edges' : d[1] = origin'} = {d \in edges : d[1] = origin}
        BY <1>1
      <4>2. Roots(edges') = Roots(edges)
        BY <1>1
      <4>3. PICK e \in {d \in edges : d[1] = origin}, H \in {{}} \cup {{h} : h \in Traced},
                 x \in (Roots(edges) \X {TRUE}) \cup ({None} \X BOOLEAN) :
              story = [Quiet EXCEPT !.target = e[2], !.handlers = H, !.noise = x[1], !.named = x[2]]
        BY <3>1, Zenon
      <4>4. /\ e \in {d \in edges' : d[1] = origin'} /\ H \in {{}} \cup {{h} : h \in Traced}
            /\ x \in (Roots(edges') \X {TRUE}) \cup ({None} \X BOOLEAN)
            /\ story' = [Quiet EXCEPT !.target = e[2], !.handlers = H, !.noise = x[1], !.named = x[2]]
        BY <1>1, <4>1, <4>2, <4>3
      <4> WITNESS e \in {d \in edges' : d[1] = origin'}, H \in {{}} \cup {{h} : h \in Traced},
                  x \in (Roots(edges') \X {TRUE}) \cup ({None} \X BOOLEAN)
      <4> QED BY <4>4
    <3> QED BY <1>1, <2>3, <3>2 DEF Told
  <2>4. CASE kind = "slow"
    BY <1>1, <2>1, <2>4 DEF Told
  <2>5. CASE kind = "network"
    BY <1>1, <2>1, <2>5 DEF Told
  <2> QED BY <2>1, <2>2, <2>3, <2>4, <2>5 DEF Told
<1> QED BY <1>1, <1>10, <1>11 DEF StoryOK

(* The index is what it was while its store is left alone.                  *)
LEMMA StoreStays ==
  ASSUME StoreInv, UNCHANGED <<remote, store>>
  PROVE  StoreInv'
<1>1. UNCHANGED <<remote, index, pending, raw, backend>>
  BY DEF store
<1>2. (\A s : Crowded(s)' = Crowded(s)) /\ \A c : Rows(c)' = Rows(c)
  BY <1>1 DEF Crowded, Full, Rows
<1>3. \A s : Found(s)' = Found(s)
  BY <1>1, <1>2 DEF Found
<1>4. IndexComplete' = IndexComplete
  BY <1>1 DEF IndexComplete, Full, Rows
<1> QED BY <1>1, <1>3, <1>4 DEF StoreInv

(* Each step keeps it one.                                                  *)
LEMMA IncidentGoesOn ==
  ASSUME IncidentInv, [Hydration \/ Ranking]_incidentVars
  PROVE  IncidentInv'
<1>1. CASE Hydration
  <2>1. /\ remote # {} /\ StoreNext /\ remote' = remote /\ backend' = backend
        /\ UNCHANGED <<edges, kind, origin, story, changes>>
    BY <1>1 DEF Hydration, rankVars, incident, StoreNext, LoadFixture, Hydrate, Split, Fetch, Stored,
                FetchFails, HydrateTraces, TracesFail
  <2>2. CASE story.export # None /\ backend = "fixture"
    BY <2>1, <2>2 DEF IncidentInv
  <2>3. CASE /\ story.export = None /\ backend \in {"newrelic", "lgtm"}
             /\ StoryOK /\ StoreInv /\ WholeTraces
    <3>1. StoreInv' /\ StoryOK'
      BY <2>1, <2>3, StoreStep, StoryStays
    <3>2. WholeTraces'
      <4>1. CASE HydrateTraces
        BY <4>1 DEF HydrateTraces, WholeTraces
      <4>2. CASE UNCHANGED index
        BY <2>1, <2>3, <4>2 DEF WholeTraces
      <4>3. CASE backend = "newrelic"
        BY <2>1, <4>3 DEF WholeTraces
      <4>4. backend = "lgtm" => pending = <<>>
        BY <2>3 DEF StoreInv
      <4> QED BY <2>1, <2>3, <4>1, <4>2, <4>3, <4>4
              DEF StoreNext, LoadFixture, Hydrate, Split, Fetch, FetchFails, TracesFail
    <3> QED BY <2>1, <2>3, <3>1, <3>2 DEF IncidentInv
  <2> QED BY <2>1, <2>2, <2>3 DEF IncidentInv
<1>2. CASE Ranking \/ UNCHANGED incidentVars
  <2>1. UNCHANGED <<remote, store, changes, story>>
    BY <1>2 DEF Ranking, incidentVars
  <2>2. remote # {} => UNCHANGED <<edges, kind, origin>>
    BY <1>2 DEF Ranking, incidentVars, rankVars, incident
  <2>3. UNCHANGED <<index, pending, raw, backend>>
    BY <2>1 DEF store
  <2>4. CASE story.export # None /\ backend = "fixture"
    BY <2>1, <2>3, <2>4 DEF IncidentInv
  <2>5. CASE /\ story.export = None /\ backend \in {"newrelic", "lgtm"}
             /\ (remote # {} => StoryOK) /\ (index # None => remote # {}) /\ StoreInv /\ WholeTraces
    <3>1. StoreInv'
      BY <2>1, <2>5, StoreStays
    <3>2. remote' # {} => StoryOK'
      BY <2>1, <2>2, <2>5, StoryStays
    <3>3. WholeTraces'
      BY <2>1, <2>3, <2>5 DEF WholeTraces
    <3> QED BY <2>1, <2>3, <2>5, <3>1, <3>2, <3>3 DEF IncidentInv
  <2> QED BY <2>4, <2>5 DEF IncidentInv
<1> QED BY <1>1, <1>2

(* The index that is built from a backend that pages lacks only spans too   *)
(* crowded to be fetched. The graph that the tools rebuild has no call that *)
(* was not made, however little is in the index, and with all spans in it   *)
(* every call; and since onset fail exactly the calls that the error came up,*)
(* a call that never arrived among them if its operation names the callee   *)
(* (newrelic/store.py:220-254, traces.py:83-105, topology.py:32-53, 181-195).*)
THEOREM IndexIsTrue == IncidentSpec => []IndexIsFaithful
<1>1. ASSUME IncidentInv PROVE IndexIsFaithful
  <2>1. IndexComplete
    BY <1>1 DEF IncidentInv, StoreInv, IndexComplete
  <2>2. GraphIsRebuilt
    <3>1. SUFFICES ASSUME Recorded PROVE GraphIsRebuilt
      BY DEF GraphIsRebuilt
    <3>2. StoryOK /\ index # None /\ index \subseteq remote
      BY <1>1, <2>1, <3>1 DEF Recorded, IncidentInv, WholeTraces, IndexComplete
    <3> QED BY <3>2, GraphHolds
  <2> QED BY <2>1, <2>2 DEF IndexIsFaithful
<1> QED BY <1>1, IncidentStarts, IncidentGoesOn, PTL DEF IncidentSpec

(* No test of a hypothesis rules out the service at fault or fails to support*)
(* it, or the call at fault; and no onset taken from the first error, change*)
(* made elsewhere or change made once errors had begun displaces the change *)
(* that caused it (hypothesis.py:57-166, changes.py:32-77).                 *)
THEOREM CulpritIsKept == IncidentSpec => []CulpritSurvives
<1>1. ASSUME IncidentInv PROVE CulpritSurvives
  BY <1>1, CulpritHolds DEF IncidentInv
<1> QED BY <1>1, IncidentStarts, IncidentGoesOn, PTL DEF IncidentSpec

-----------------------------------------------------------------------------
(* Blame. The spans are few, and failures come up from the fault.           *)

(* There are finitely many spans: each is told by its path, which is told   *)
(* by its places, and by three things more.                                 *)
LEMMA SpansAreFinite == IsFiniteSet(Spans)
<1> DEFINE Places(p) == {<<i, p[i]>> : i \in 1..Len(p)}
           C == Cardinality(Traced)
           Keys == ((SUBSET ((1..C) \X Traced)) \X BOOLEAN) \X ({"server", "client"} \X (1..2))
           key == [s \in Spans |-> << <<Places(s.id[1]), s.id[2]>>, <<s.id[3], s.id[4]>> >>]
<1>1. ASSUME NEW p \in Paths(edges), NEW q \in Paths(edges), Places(p) = Places(q)
      PROVE  p = q
  <2>1. ASSUME NEW r \in Paths(edges), NEW s \in Paths(edges), Places(r) = Places(s)
        PROVE  Len(r) <= Len(s) /\ \A i \in 1..Len(r) : r[i] = s[i]
    <3>1. ASSUME NEW i \in 1..Len(r) PROVE i \in 1..Len(s) /\ r[i] = s[i]
      <4>1. <<i, r[i]>> \in Places(s)
        BY <2>1
      <4>2. PICK j \in 1..Len(s) : <<i, r[i]>> = <<j, s[j]>>
        BY <4>1
      <4> QED BY <4>2
    <3>2. Len(r) \in 1..Len(r) /\ Len(s) \in Nat
      BY PathIsSeq
    <3> QED BY <3>1, <3>2
  <2>2. Len(p) = Len(q) /\ \A i \in 1..Len(p) : p[i] = q[i]
    <3>1. Len(p) \in Nat /\ Len(q) \in Nat
      BY PathIsSeq
    <3> HIDE DEF Places
    <3>2. Len(p) <= Len(q) /\ Len(q) <= Len(p) /\ \A i \in 1..Len(p) : p[i] = q[i]
      BY <1>1, <2>1
    <3> QED BY <3>1, <3>2
  <2> QED BY <2>2, SamePath
<1>2. ASSUME NEW s \in Spans
      PROVE  \E p \in Paths(edges), after \in BOOLEAN, side \in {"server", "client"}, n \in 1..2 :
               s = Span(p, after, side, n) /\ s.id = <<p, after, side, n>>
  <2>1. PICK p \in Paths(edges), after \in BOOLEAN, side \in {"server", "client"}, n \in 1..2 :
          s = Span(p, after, side, n)
    BY SpanOf
  <2>2. s.id = <<p, after, side, n>>
    <3>1. CASE side = "server"
      BY <2>1, <3>1, ServerIs
    <3>2. CASE side = "client"
      BY <2>1, <3>2, ClientIs
    <3> QED BY <3>1, <3>2
  <2> QED BY <2>1, <2>2, Zenon
<1>3. key \in [Spans -> Keys]
  <2>1. ASSUME NEW s \in Spans PROVE key[s] \in Keys
    <3>1. PICK p \in Paths(edges), after \in BOOLEAN, side \in {"server", "client"}, n \in 1..2 :
            s.id = <<p, after, side, n>>
      BY <1>2
    <3>2. Places(p) \in SUBSET ((1..C) \X Traced)
      <4>1. Len(p) \in Nat /\ Len(p) <= C /\ C \in Nat /\ \A i \in 1..Len(p) : p[i] \in Traced
        BY PathIsSeq, TracedAreFew
      <4> QED BY <4>1
    <3>3. key[s] = << <<Places(p), after>>, <<side, n>> >>
      BY <3>1
    <3> HIDE DEF Places, key
    <3> QED BY <3>2, <3>3
  <2> QED BY <2>1
<1>4. key \in Injection(Spans, Keys)
  <2>1. ASSUME NEW s \in Spans, NEW t \in Spans, key[s] = key[t]
        PROVE  s = t
    <3>1. PICK p \in Paths(edges), after \in BOOLEAN, side \in {"server", "client"}, n \in 1..2 :
            s = Span(p, after, side, n) /\ s.id = <<p, after, side, n>>
      BY <1>2
    <3>2. PICK q \in Paths(edges), b \in BOOLEAN, edge \in {"server", "client"}, m \in 1..2 :
            t = Span(q, b, edge, m) /\ t.id = <<q, b, edge, m>>
      BY <1>2
    <3>3. << <<Places(p), after>>, <<side, n>> >> = << <<Places(q), b>>, <<edge, m>> >>
      <4>1. key[s] = << <<Places(p), after>>, <<side, n>> >>
        BY <3>1
      <4>2. key[t] = << <<Places(q), b>>, <<edge, m>> >>
        BY <3>2
      <4> HIDE DEF key, Places
      <4> QED BY <2>1, <4>1, <4>2
    <3> HIDE DEF key, Places
    <3>4. Places(p) = Places(q) /\ after = b /\ side = edge /\ n = m
      BY <3>3
    <3>5. p = q
      BY <1>1, <3>4
    <3> QED BY <3>1, <3>2, <3>4, <3>5
  <2> HIDE DEF key, Keys
  <2> QED BY <1>3, <2>1 DEF Injection, IsInjective
<1>5. IsFiniteSet(Keys)
  <2>1. IsFiniteSet(1..C) /\ IsFiniteSet(1..2)
    <3>1. 1 \in Int /\ 2 \in Int /\ C \in Int
      BY TracedAreFew
    <3> HIDE DEF C
    <3> QED BY <3>1, FS_Interval
  <2>2. IsFiniteSet((1..C) \X Traced)
    BY <2>1, TracedAreFew, FS_Product
  <2>3. IsFiniteSet(SUBSET ((1..C) \X Traced))
    BY <2>2, FS_SUBSET
  <2>4. IsFiniteSet(BOOLEAN) /\ IsFiniteSet({"server", "client"})
    <3>1. IsFiniteSet({TRUE}) /\ IsFiniteSet({"server"})
      BY FS_Singleton
    <3>2. IsFiniteSet({TRUE} \cup {FALSE}) /\ IsFiniteSet({"server"} \cup {"client"})
      BY <3>1, FS_AddElement
    <3>3. BOOLEAN = {TRUE} \cup {FALSE} /\ {"server", "client"} = {"server"} \cup {"client"}
      OBVIOUS
    <3> QED BY <3>2, <3>3
  <2>5. /\ IsFiniteSet((SUBSET ((1..C) \X Traced)) \X BOOLEAN)
        /\ IsFiniteSet({"server", "client"} \X (1..2))
    BY <2>1, <2>3, <2>4, FS_Product
  <2> QED BY <2>5, FS_Product
<1> HIDE DEF key, Keys
<1> QED BY <1>4, <1>5, FS_Injection
-----------------------------------------------------------------------------
(* Where a path to the fault ends.                                          *)
End == IF kind = "service" THEN origin ELSE story.target

(* No service on the way to the fault is where it ends.                     *)
LEMMA FaultIsLast ==
  ASSUME StoryOK, kind \in {"service", "edge"}, NEW f \in Paths(edges), AtFault(f)
  PROVE  Callee(f) = End /\ \A i \in 1..(Len(f) - 1) : f[i] # End
<1>1. Callee(f) = End /\ f[Len(f)] = End
  BY DEF AtFault, End, Callee
<1>2. edges \in TracedGraphs /\ f \in Seq(Traced) /\ Len(f) \in Nat \ {0}
      /\ \A i \in 1..(Len(f) - 1) : <<f[i], f[i + 1]>> \in edges
  BY PathIsSeq DEF StoryOK
<1>3. \A i, j \in 1..Len(f) : i < j => f[i] # f[j]
  BY <1>2, PathIsSimple
<1> QED BY <1>1, <1>2, <1>3

(* Above the fault every call arrives.                                      *)
LEMMA NoneCutAbove ==
  ASSUME StoryOK, kind \in {"service", "edge"}, NEW p \in Paths(edges), NEW f \in Paths(edges),
         AtFault(f), IsPrefix(p, f), p # f
  PROVE  ~Cut(p) /\ Len(p) < Len(f)
<1>1. /\ Len(p) <= Len(f) /\ Len(p) \in Nat /\ Len(f) \in Nat
      /\ \A i \in 1..Len(p) : p[i] = f[i]
  BY PathIsSeq, PrefixOfPath
<1>2. Len(p) # Len(f)
  BY <1>1, SamePath
<1>3. ASSUME Cut(p) PROVE FALSE
  <2>1. kind = "edge" /\ \E n \in 2..Len(p) : p[n - 1] = origin /\ p[n] = story.target
    BY <1>3, CutIs
  <2>2. PICK n \in 2..Len(p) : p[n] = story.target
    BY <2>1
  <2>3. n \in 1..(Len(f) - 1) /\ n \in 1..Len(p)
    BY <1>1, <1>2
  <2>4. f[n] # End
    BY <2>3, FaultIsLast
  <2>5. f[n] = story.target
    BY <1>1, <2>2, <2>3
  <2> QED BY <2>1, <2>4, <2>5 DEF End
<1> QED BY <1>1, <1>2, <1>3

(* What fails, but not because the fault is there, made a call that failed. *)
LEMMA FailureComesUp ==
  ASSUME StoryOK, kind \in {"service", "edge"}, NEW p \in Paths(edges), Fails(p), ~AtFault(p)
  PROVE  /\ ~Cut(p) /\ Callee(p) # End
         /\ \E q \in Paths(edges) : /\ Len(q) > 1 /\ Front(q) = p /\ Fails(q) /\ q[1] = p[1]
                                    /\ Caller(q) = Callee(p) /\ Made(q, TRUE, "client")
<1>1. PICK f \in Paths(edges) : /\ AtFault(f) /\ IsPrefix(p, f)
                                /\ ~\E i \in Len(p)..(Len(f) - 1) : f[i] \in story.handlers
  BY DEF Fails
<1>2. ~Cut(p) /\ Len(p) < Len(f)
  BY <1>1, NoneCutAbove
<1>3. /\ Len(p) \in Nat \ {0} /\ Len(f) \in Nat
      /\ \A i \in 1..Len(p) : p[i] = f[i]
  BY <1>1, PathIsSeq, PrefixOfPath
<1> DEFINE n == Len(p) + 1  q == SubSeq(f, 1, n)
<1>4. n \in 1..Len(f) /\ n > 1 /\ n - 1 = Len(p) /\ n \in Nat
  BY <1>2, <1>3
<1> HIDE DEF n
<1>5. q \in Paths(edges) /\ Len(q) = n /\ \A i \in 1..n : q[i] = f[i]
  BY <1>4, PartIsPath
<1> HIDE DEF q
<1>6. Front(q) = p
  <2>1. n - 1 \in 1..Len(q)
    BY <1>3, <1>4, <1>5
  <2>2. Front(q) \in Paths(edges) /\ Len(Front(q)) = n - 1 /\ \A i \in 1..(n - 1) : Front(q)[i] = q[i]
    BY <1>5, <2>1, PartIsPath DEF Front
  <2>3. \A i \in 1..Len(p) : Front(q)[i] = p[i]
    BY <1>3, <1>4, <1>5, <2>2
  <2> QED BY <1>4, <2>2, <2>3, SamePath
<1>7. IsPrefix(q, f)
  BY <1>4, <1>5, PrefixOfPath
<1>8. Fails(q)
  <2>1. \A i \in Len(q)..(Len(f) - 1) : i \in Len(p)..(Len(f) - 1)
    BY <1>3, <1>4, <1>5
  <2> QED BY <1>1, <1>7, <2>1 DEF Fails
<1>9. Caller(q) = Callee(p) /\ q[1] = p[1]
  BY <1>3, <1>4, <1>5 DEF Caller, Callee
<1>10. Made(q, TRUE, "client")
  BY <1>2, <1>4, <1>5, <1>6 DEF Made
<1>11. Callee(p) # End
  <2>1. Len(p) \in 1..(Len(f) - 1) /\ Len(p) \in 1..Len(p)
    BY <1>2, <1>3
  <2> QED BY <1>1, <1>3, <2>1, FaultIsLast DEF Callee
<1> QED BY <1>2, <1>4, <1>5, <1>6, <1>8, <1>9, <1>10, <1>11

(* No call is made twice but on a bad network.                              *)
LEMMA CalledOnce ==
  ASSUME StoryOK, kind \in {"service", "edge"}, NEW p \in Paths(edges)
  PROVE  Calls(p) = 1
<1>1. story.twice = None
  BY DEF StoryOK, Told, Quiet
<1>2. ASSUME Len(p) > 1 PROVE Caller(p) \in Traced
  <2>1. Len(p) - 1 \in 1..Len(p)
    BY <1>2, PathIsSeq
  <2> QED BY <2>1, PathIsSeq DEF Caller
<1> QED BY <1>1, <1>2, TracedAreFew DEF Calls

(* An index with whole traces of a fault, and one in it that shows it.      *)
FaultIsSeen ==
  /\ StoryOK /\ kind \in {"service", "edge"}
  /\ index # None /\ index \subseteq remote
  /\ \A s \in index, t \in remote : t.trace = s.trace => t \in index
  /\ \E s \in index : s.error /\ s.time > Onset

(* The span that shows it: of the work, or of the call, at fault.           *)
Witness(f) == Span(f, TRUE, IF kind = "service" THEN "server" ELSE "client", 1)
(* The one of what failed on its own.                                       *)
Aside == Span(<<story.noise>>, FALSE, "server", 1)

(* What a span has by its name, whatever its side.                          *)
LEMMA SpanHas ==
  ASSUME NEW p \in Paths(edges), NEW after \in BOOLEAN, NEW side \in {"server", "client"}, NEW n \in 1..2
  PROVE  /\ Span(p, after, side, n).id = <<p, after, side, n>>
         /\ Span(p, after, side, n).trace = <<p[1], after>>
         /\ Span(p, after, side, n).kind = side
<1>1. CASE side = "server"
  BY <1>1, ServerIs
<1>2. CASE side = "client"
  BY <1>2, ClientIs
<1> QED BY <1>1, <1>2

(* What has a span was done.                                                *)
LEMMA SpanIsMade ==
  ASSUME NEW p \in Paths(edges), NEW after \in BOOLEAN, NEW side \in {"server", "client"}, NEW n \in 1..2,
         Span(p, after, side, n) \in Spans
  PROVE  n <= Calls(p) /\ Made(p, after, side)
<1> DEFINE s == Span(p, after, side, n)
<1>1. PICK q \in Paths(edges), b \in BOOLEAN, edge \in {"server", "client"}, m \in 1..2 :
        s = Span(q, b, edge, m) /\ m <= Calls(q) /\ Made(q, b, edge)
  BY SpanOf
<1>2. <<p, after, side, n>> = <<q, b, edge, m>>
  <2>1. s.id = <<p, after, side, n>>
    BY SpanHas
  <2>2. Span(q, b, edge, m).id = <<q, b, edge, m>>
    BY SpanHas
  <2> HIDE DEF s
  <2> QED BY <1>1, <2>1, <2>2
<1>3. p = q /\ after = b /\ side = edge /\ n = m
  BY <1>2
<1> QED BY <1>1, <1>3

(* A trace is in the index with all its spans.                              *)
LEMMA TraceIsWhole ==
  ASSUME FaultIsSeen, NEW p \in Paths(edges), NEW q \in Paths(edges), p[1] = q[1], NEW after \in BOOLEAN,
         NEW side \in {"server", "client"}, NEW edge \in {"server", "client"}, NEW n \in 1..2, NEW m \in 1..2,
         Span(p, after, side, n) \in index, m <= Calls(q), Made(q, after, edge)
  PROVE  Span(q, after, edge, m) \in index
<1>1. Span(q, after, edge, m) \in remote
  BY IsSpan DEF FaultIsSeen, StoryOK
<1>2. Span(q, after, edge, m).trace = Span(p, after, side, n).trace
  <2>1. Span(q, after, edge, m).trace = <<q[1], after>>
    BY SpanHas
  <2>2. Span(p, after, side, n).trace = <<p[1], after>>
    BY SpanHas
  <2> QED BY <2>1, <2>2
<1> QED BY <1>1, <1>2 DEF FaultIsSeen

(* Which spans of the index are errors.                                     *)
LEMMA ErrorIs ==
  ASSUME FaultIsSeen, NEW s \in index
  PROVE  \E p \in Paths(edges), after \in BOOLEAN, side \in {"server", "client"} :
           /\ s = Span(p, after, side, 1) /\ Made(p, after, side)
           /\ s.error => IF after THEN Fails(p) ELSE side = "server" /\ p = <<story.noise>>
           /\ after /\ Fails(p) => s.error
<1>1. s \in Spans
  BY DEF FaultIsSeen, StoryOK
<1>2. PICK p \in Paths(edges), after \in BOOLEAN, side \in {"server", "client"}, n \in 1..2 :
        s = Span(p, after, side, n) /\ n <= Calls(p) /\ Made(p, after, side)
  BY <1>1, SpanOf
<1>3. n = 1
  BY <1>2, CalledOnce DEF FaultIsSeen
<1>4. CASE side = "server"
  <2>1. s.error = IF after THEN Fails(p) ELSE p = <<story.noise>>
    <3>1. Span(p, after, "server", n).error = IF after THEN Fails(p) ELSE p = <<story.noise>>
      BY ServerIs
    <3> QED BY <1>2, <1>4, <3>1
  <2>2. s.error => IF after THEN Fails(p) ELSE side = "server" /\ p = <<story.noise>>
    BY <1>4, <2>1
  <2>3. after /\ Fails(p) => s.error
    BY <2>1
  <2> QED BY <1>2, <1>3, <2>2, <2>3, Zenon
<1>5. CASE side = "client"
  <2>1. s.error = IF after THEN Fails(p) ELSE FALSE
    <3>1. Span(p, after, "client", n).error = IF after THEN Fails(p) ELSE FALSE
      BY ClientIs
    <3> QED BY <1>2, <1>5, <3>1
  <2>2. s.error => IF after THEN Fails(p) ELSE side = "server" /\ p = <<story.noise>>
    BY <2>1
  <2>3. after /\ Fails(p) => s.error
    BY <2>1
  <2> QED BY <1>2, <1>3, <2>2, <2>3, Zenon
<1> QED BY <1>4, <1>5

(* The index has the fault itself.                                          *)
LEMMA FaultIsIndexed ==
  ASSUME FaultIsSeen
  PROVE  \E f \in Paths(edges) : AtFault(f) /\ Witness(f) \in index
<1>1. PICK s \in index : s.error /\ s.time > Onset
  BY DEF FaultIsSeen
<1>2. PICK p \in Paths(edges), after \in BOOLEAN, side \in {"server", "client"} :
        /\ s = Span(p, after, side, 1) /\ Made(p, after, side)
        /\ IF after THEN Fails(p) ELSE side = "server" /\ p = <<story.noise>>
  BY <1>1, ErrorIs
<1>3. after
  <2>1. SUFFICES ASSUME ~after PROVE FALSE
    OBVIOUS
  <2>2. side = "server" /\ p = <<story.noise>>
    BY <1>2, <2>1
  <2>3. Len(p) = 1
    BY <2>2
  <2>4. s.time = Begin(p, after)
    BY <1>2, <2>2, FirstCall, ServerIs
  <2>5. Begin(p, after) = 0
    BY <2>1, <2>3 DEF Begin
  <2>6. Onset \in Nat
    BY StoreAssumption DEF Onset
  <2> QED BY <1>1, <2>4, <2>5, <2>6
<1>4. PICK f \in Paths(edges) : AtFault(f) /\ IsPrefix(p, f)
  BY <1>2, <1>3 DEF Fails
<1>5. p[1] = f[1]
  BY <1>4, PathIsSeq, PrefixOfPath
<1>6. StoryOK /\ edges \in TracedGraphs
  BY DEF FaultIsSeen, StoryOK
<1>7. after = TRUE
  BY <1>3
<1>8. Span(p, TRUE, side, 1) \in index
  BY <1>2, <1>7
<1>9. CASE kind = "service"
  <2>1. Made(f, TRUE, "server")
    BY <1>9 DEF Made, Cut
  <2>2. Span(f, TRUE, "server", 1) \in index
    BY <1>5, <1>8, <2>1, FirstCall, CalledAtLeastOnce, TraceIsWhole
  <2> QED BY <1>4, <1>9, <2>2 DEF Witness
<1>10. CASE kind = "edge"
  <2>1. Span(f, TRUE, "client", 1) \in Spans
    BY <1>4, <1>6, <1>10, CallShowsFault
  <2>2. Made(f, TRUE, "client")
    BY <2>1, FirstCall, SpanIsMade
  <2>3. Span(f, TRUE, "client", 1) \in index
    BY <1>5, <1>8, <2>2, FirstCall, CalledAtLeastOnce, TraceIsWhole
  <2> QED BY <1>4, <1>10, <2>3 DEF Witness
<1> QED BY <1>9, <1>10 DEF FaultIsSeen

(* It is an error, of the service's work or of a call that never arrived.   *)
LEMMA WitnessIs ==
  ASSUME FaultIsSeen, NEW f \in Paths(edges), AtFault(f), Witness(f) \in index
  PROVE  /\ Witness(f) \in Errors
         /\ kind = "service" => Witness(f) = Span(f, TRUE, "server", 1)
         /\ kind = "edge" => Witness(f) = Span(f, TRUE, "client", 1) /\ Len(f) > 1 /\ Cut(f)
<1>1. kind = "service" => Witness(f) = Span(f, TRUE, "server", 1) /\ Callee(f) = origin
  BY DEF Witness, AtFault
<1>2. kind = "edge" => Witness(f) = Span(f, TRUE, "client", 1)
  BY DEF Witness
<1>3. kind = "edge" => Len(f) > 1 /\ Cut(f)
  <2>1. SUFFICES ASSUME kind = "edge" PROVE Len(f) > 1 /\ Cut(f)
    OBVIOUS
  <2>2. Len(f) > 1 /\ f[Len(f) - 1] = origin /\ f[Len(f)] = story.target
    BY <2>1 DEF AtFault, Caller, Callee
  <2>3. Len(f) \in 2..Len(f)
    BY <2>2, PathIsSeq
  <2> QED BY <2>1, <2>2, <2>3, CutIs
<1>4. Witness(f).error = TRUE
  BY <1>1, <1>2, ServiceShowsFault, CallShowsFault DEF FaultIsSeen
<1> QED BY <1>1, <1>2, <1>3, <1>4 DEF Errors, all_spans, FaultIsSeen

(* A call at fault never arrives.                                           *)
LEMMA FaultIsCut ==
  ASSUME NEW f \in Paths(edges), kind = "edge", AtFault(f)
  PROVE  Len(f) > 1 /\ Cut(f)
<1>1. Len(f) > 1 /\ f[Len(f) - 1] = origin /\ f[Len(f)] = story.target
  BY DEF AtFault, Caller, Callee
<1>2. Len(f) \in 2..Len(f)
  BY <1>1, PathIsSeq
<1> QED BY <1>1, <1>2, CutIs

(* An error with no error below it is the fault's, or the one that failed   *)
(* on its own.                                                              *)
LEMMA LeafIsFault ==
  ASSUME FaultIsSeen, NEW s \in Leaves
  PROVE  \/ \E f \in Paths(edges) : AtFault(f) /\ s = Witness(f)
         \/ story.noise \in Roots(edges) /\ s = Aside
<1>1. s \in index /\ s.error /\ all_spans = index /\ StoryOK /\ kind \in {"service", "edge"}
  BY DEF Leaves, Errors, all_spans, FaultIsSeen
<1>2. PICK p \in Paths(edges), after \in BOOLEAN, side \in {"server", "client"} :
        /\ s = Span(p, after, side, 1) /\ Made(p, after, side)
        /\ IF after THEN Fails(p) ELSE side = "server" /\ p = <<story.noise>>
  BY <1>1, ErrorIs
<1>3. CASE ~after
  <2>1. side = "server" /\ p = <<story.noise>> /\ after = FALSE
    BY <1>2, <1>3
  <2>2. story.noise \in Roots(edges)
    BY <1>1, <2>1, NoiseIsEntry
  <2> QED BY <1>2, <2>1, <2>2 DEF Aside
<1>4. CASE after
  <2>1. after = TRUE /\ Fails(p) /\ s = Span(p, TRUE, side, 1) /\ Span(p, TRUE, side, 1) \in index
    BY <1>1, <1>2, <1>4
  <2>2. s.id = <<p, TRUE, side, 1>>
    BY <2>1, FirstCall, SpanHas
  <2>3. ASSUME side = "client", ~Cut(p) PROVE FALSE
    <3>1. Len(p) > 1 /\ Made(p, TRUE, "server")
      BY <1>2, <2>3 DEF Made
    <3> DEFINE c == Span(p, TRUE, "server", 1)
    <3>2. c \in index
      BY <2>1, <3>1, FirstCall, CalledAtLeastOnce, TraceIsWhole
    <3>3. c.error = Fails(p) /\ c.parent = IF Len(p) = 1 THEN None ELSE <<p, TRUE, "client", 1>>
      BY FirstCall, ServerIs
    <3>4. Len(p) # 1
      BY <3>1, PathIsSeq
    <3> HIDE DEF c
    <3>5. c \in children_of(s.id) /\ c.error
      BY <1>1, <2>1, <2>2, <2>3, <3>2, <3>3, <3>4 DEF children_of
    <3> QED BY <3>5 DEF Leaves
  <2>4. CASE AtFault(p)
    <3>1. CASE kind = "service"
      <4>1. side = "server"
        BY <2>3, <3>1 DEF Cut
      <4> QED BY <2>1, <2>4, <3>1, <4>1 DEF Witness
    <3>2. CASE kind = "edge"
      <4>1. side = "client"
        BY <1>2, <2>1, <2>4, <3>2, FaultIsCut DEF Made
      <4> QED BY <2>1, <2>4, <3>2, <4>1 DEF Witness
    <3> QED BY <1>1, <3>1, <3>2
  <2>5. CASE ~AtFault(p)
    <3>1. PICK q \in Paths(edges) : /\ Len(q) > 1 /\ Front(q) = p /\ Fails(q) /\ q[1] = p[1]
                                    /\ Made(q, TRUE, "client")
      BY <1>1, <2>1, <2>5, FailureComesUp
    <3>2. ~Cut(p)
      BY <1>1, <2>1, <2>5, FailureComesUp
    <3>3. side = "server"
      BY <2>3, <3>2
    <3> DEFINE c == Span(q, TRUE, "client", 1)
    <3>4. c \in index
      BY <2>1, <3>1, FirstCall, CalledAtLeastOnce, TraceIsWhole
    <3>5. c.error = Fails(q) /\ c.parent = <<p, TRUE, "server", 1>>
      BY <3>1, FirstCall, ClientIs
    <3> HIDE DEF c
    <3>6. c \in children_of(s.id) /\ c.error
      BY <1>1, <2>2, <3>1, <3>3, <3>4, <3>5 DEF children_of
    <3> QED BY <3>6 DEF Leaves
  <2> QED BY <2>4, <2>5
<1> QED BY <1>3, <1>4

(* Nothing that failed is below the fault.                                  *)
LEMMA FaultIsLeaf ==
  ASSUME FaultIsSeen, NEW f \in Paths(edges), AtFault(f), Witness(f) \in index
  PROVE  Witness(f) \in Leaves
<1>1. Witness(f) \in Errors /\ all_spans = index /\ index \subseteq Spans /\ StoryOK
      /\ kind \in {"service", "edge"}
  BY WitnessIs DEF all_spans, FaultIsSeen, StoryOK
<1>2. SUFFICES ASSUME NEW c \in children_of(Witness(f).id), c.error PROVE FALSE
  BY <1>1 DEF Leaves
<1>3. c \in Spans /\ c.parent = Witness(f).id
  BY <1>1 DEF children_of
<1>4. CASE kind = "service"
  <2>1. Witness(f).id = <<f, TRUE, "server", 1>>
    BY <1>4, FirstCall, SpanHas DEF Witness
  <2>2. PICK q \in Paths(edges), m \in 1..2 :
          c = Span(q, TRUE, "client", m) /\ Len(q) > 1 /\ Front(q) = f
    <3>1. c.parent = <<f, TRUE, "server", 1>>
      BY <1>3, <2>1
    <3>2. \E q \in Paths(edges), m \in 1..2 :
            /\ c = Span(q, TRUE, "client", m) /\ m <= Calls(q) /\ Made(q, TRUE, "client")
            /\ Len(q) > 1 /\ Front(q) = f
      BY <1>3, <3>1, FirstCall, ChildOfServer
    <3> QED BY <3>2, Zenon
  <2>3. Fails(q)
    <3>1. Span(q, TRUE, "client", m).error = Fails(q)
      BY FirstCall, ClientIs
    <3> QED BY <1>2, <2>2, <3>1
  <2>4. PICK g \in Paths(edges) : AtFault(g) /\ IsPrefix(q, g)
    BY <2>3 DEF Fails
  <2>5. /\ Len(q) <= Len(g) /\ \A i \in 1..Len(q) : q[i] = g[i]
        /\ Len(q) \in Nat /\ Len(g) \in Nat /\ Len(f) \in Nat \ {0}
    BY <2>4, PathIsSeq, PrefixOfPath
  <2>6. Len(f) = Len(q) - 1 /\ f[Len(f)] = q[Len(f)]
    <3>1. Len(q) - 1 \in 1..Len(q)
      BY <2>2, <2>5
    <3>2. Len(Front(q)) = Len(q) - 1 /\ Front(q)[Len(q) - 1] = q[Len(q) - 1]
      BY <2>5, <3>1, PartIsPath DEF Front
    <3> QED BY <2>2, <3>2
  <2>7. Len(f) \in 1..(Len(g) - 1) /\ Len(f) \in 1..Len(q)
    BY <2>5, <2>6
  <2>8. g[Len(f)] # End /\ f[Len(f)] = End
    BY <1>1, <2>4, <2>7, FaultIsLast DEF Callee
  <2> QED BY <2>5, <2>6, <2>7, <2>8
<1>5. CASE kind = "edge"
  <2>1. Witness(f).id = <<f, TRUE, "client", 1>>
    BY <1>5, FirstCall, SpanHas DEF Witness
  <2>2. c = Span(f, TRUE, "server", 1)
    BY <1>3, <2>1, FirstCall, ChildOfCall
  <2>3. Made(f, TRUE, "server")
    BY <1>3, <2>2, FirstCall, SpanIsMade
  <2> QED BY <1>5, <2>3, FaultIsCut DEF Made
<1> QED BY <1>1, <1>4, <1>5

(* What is to be blamed, and what the span that shows the fault votes for.  *)
Blamed == IF kind = "service" THEN Of("service", None, origin)
          ELSE Of("edge", origin, IF story.named THEN story.target ELSE None)

(* It votes for what is to be blamed; the target of a call at fault has no  *)
(* errors of its own, the service at fault has.                             *)
LEMMA VoteOfFault ==
  ASSUME FaultIsSeen, NEW f \in Paths(edges), AtFault(f), Witness(f) \in index
  PROVE  /\ Vote(Witness(f)) = Blamed
         /\ kind = "service" => origin \in ServerErrorServices
         /\ kind = "edge" => story.target \notin ServerErrorServices
<1>1. Witness(f) \in Errors /\ all_spans = index /\ index \subseteq Spans /\ StoryOK
      /\ kind \in {"service", "edge"} /\ index # None /\ index \subseteq remote /\ remote = Spans
  BY WitnessIs DEF all_spans, FaultIsSeen, StoryOK
<1>2. CASE kind = "service"
  <2> DEFINE s == Witness(f)
  <2>1. s.kind = "server" /\ s.service = Callee(f)
    BY <1>2, FirstCall, ServerIs DEF Witness
  <2>2. s.service = origin
    BY <1>2, <2>1 DEF AtFault
  <2> HIDE DEF s
  <2>3. Vote(s) = Of("service", None, s.service)
    BY <2>1 DEF Vote
  <2>4. s \in Errors
    BY <1>1 DEF s
  <2>5. origin \in ServerErrorServices
    BY <2>1, <2>2, <2>4 DEF ServerErrorServices
  <2> QED BY <1>2, <2>2, <2>3, <2>5 DEF Blamed, s
<1>3. CASE kind = "edge"
  <2>1. story.target \notin ServerErrorServices
    <3>1. SUFFICES ASSUME NEW e \in Errors, e.kind = "server", e.service = story.target PROVE FALSE
      BY DEF ServerErrorServices
    <3>2. e \in Spans /\ e.error
      BY <1>1 DEF Errors
    <3>3. e.error = TRUE
      <4>1. PICK p \in Paths(edges), after \in BOOLEAN, side \in {"server", "client"}, n \in 1..2 :
              e = Span(p, after, side, n)
        BY <3>2, SpanOf
      <4>2. side = "server"
        BY <3>1, <4>1, SpanHas
      <4>3. Span(p, after, "server", n).error = IF after THEN Fails(p) ELSE p = <<story.noise>>
        BY ServerIs
      <4>4. e.error = IF after THEN Fails(p) ELSE p = <<story.noise>>
        BY <4>1, <4>2, <4>3
      <4>5. Fails(p) \in BOOLEAN
        BY DEF Fails
      <4> QED BY <3>2, <4>4, <4>5
    <3> QED BY <1>1, <1>3, <3>1, <3>2, <3>3, TargetIsInnocent
  <2>2. None \notin ServerErrorServices
    <3>1. SUFFICES ASSUME NEW e \in Errors, e.kind = "server", e.service = None PROVE FALSE
      BY DEF ServerErrorServices
    <3>2. PICK p \in Paths(edges), after \in BOOLEAN, side \in {"server", "client"}, n \in 1..2 :
            e = Span(p, after, side, n)
      BY <1>1, SpanOf DEF Errors
    <3>3. side = "server"
      BY <3>1, <3>2, SpanHas
    <3>4. e.service = Callee(p)
      <4>1. Span(p, after, "server", n).service = Callee(p)
        BY ServerIs
      <4> QED BY <3>2, <3>3, <4>1
    <3> QED BY <3>1, <3>4, PathIsSeq, TracedAreFew
  <2> DEFINE s == Span(f, TRUE, "client", 1)
  <2>3. Witness(f) = s /\ Len(f) > 1 /\ Cut(f)
    BY <1>3, WitnessIs
  <2>4. /\ s.kind = "client" /\ s.service = Caller(f) /\ s.id = <<f, TRUE, "client", 1>>
        /\ s.rpc = IF story.named THEN Callee(f) ELSE None
    BY FirstCall, ClientIs
  <2>5. children_of(s.id) = {}
    <3>1. SUFFICES ASSUME NEW c \in children_of(s.id) PROVE FALSE
      OBVIOUS
    <3>2. c \in Spans /\ c.parent = <<f, TRUE, "client", 1>>
      BY <1>1, <2>4 DEF children_of
    <3>3. c = Span(f, TRUE, "server", 1)
      BY <3>2, FirstCall, ChildOfCall
    <3>4. Made(f, TRUE, "server")
      BY <3>2, <3>3, FirstCall, SpanIsMade
    <3> QED BY <2>3, <3>4 DEF Made
  <2> HIDE DEF s
  <2>6. callee_of(s) = IF story.named THEN story.target ELSE None
    <3>1. callee_of(s) = s.rpc
      BY <2>5 DEF callee_of
    <3> QED BY <1>3, <2>4, <3>1 DEF AtFault
  <2>7. callee_of(s) \notin ServerErrorServices
    BY <2>1, <2>2, <2>6
  <2>8. Vote(s) = Of("edge", s.service, callee_of(s))
    BY <2>4, <2>7 DEF Vote
  <2>9. s.service = origin
    BY <1>3, <2>4 DEF AtFault
  <2> QED BY <1>3, <2>1, <2>3, <2>6, <2>8, <2>9 DEF Blamed
<1> QED BY <1>1, <1>2, <1>3

-----------------------------------------------------------------------------
(* How deep a span is: the recursion of Depth, solved.                      *)

(* How far a span is from the top of its trace, told from its name.         *)
Level(s) == 2 * Len(s.id[1]) - IF s.id[3] = "server" THEN 2 ELSE 3
(* The parents Depth goes by.                                               *)
ParentsOf(s) == {p \in all_spans : p.id = s.parent}

(* A span that has one of the names is the one of that name.                *)
LEMMA NamedSpan ==
  ASSUME NEW s \in Spans, NEW p \in Paths(edges), NEW after \in BOOLEAN, NEW side \in {"server", "client"},
         NEW n \in 1..2, s.id = <<p, after, side, n>>
  PROVE  s = Span(p, after, side, n)
<1>1. PICK q \in Paths(edges), b \in BOOLEAN, edge \in {"server", "client"}, m \in 1..2 :
        s = Span(q, b, edge, m)
  BY SpanOf
<1>2. <<p, after, side, n>> = <<q, b, edge, m>>
  <2>1. Span(q, b, edge, m).id = <<q, b, edge, m>>
    BY SpanHas
  <2> QED BY <1>1, <2>1
<1>3. p = q /\ after = b /\ side = edge /\ n = m
  BY <1>2
<1> QED BY <1>1, <1>3

(* The parent of a call that was made is the work of the caller, and of the *)
(* work of one that is no entry its call.                                   *)
LEMMA ParentIs ==
  ASSUME FaultIsSeen, NEW s \in index
  PROVE  /\ Level(s) \in Nat /\ Level(s) <= 2 * Cardinality(Traced)
         /\ \/ ParentsOf(s) = {} /\ Level(s) = 0
            \/ \E t \in index : ParentsOf(s) = {t} /\ Level(t) = Level(s) - 1
<1>1. StoryOK /\ all_spans = index /\ index \subseteq Spans /\ Cardinality(Traced) \in Nat
  BY TracedAreFew DEF all_spans, FaultIsSeen, StoryOK
<1>2. PICK p \in Paths(edges), after \in BOOLEAN, side \in {"server", "client"} :
        s = Span(p, after, side, 1) /\ Made(p, after, side)
  BY ErrorIs
<1>3. s.id = <<p, after, side, 1>>
  BY <1>2, FirstCall, SpanHas
<1>4. Len(p) \in Nat \ {0} /\ Len(p) <= Cardinality(Traced) /\ (Len(p) = 1 \/ Len(p) > 1)
  <2> DEFINE n == Len(p)
  <2>1. n \in Nat \ {0} /\ n <= Cardinality(Traced)
    BY PathIsSeq
  <2> HIDE DEF n
  <2>2. n = 1 \/ n > 1
    BY <2>1
  <2> QED BY <2>1, <2>2 DEF n
<1>5. Level(s) = 2 * Len(p) - IF side = "server" THEN 2 ELSE 3
  BY <1>3 DEF Level
<1>6. side = "client" => Len(p) > 1
  BY <1>2 DEF Made
<1>7. Level(s) \in Nat /\ Level(s) <= 2 * Cardinality(Traced)
  BY <1>1, <1>4, <1>5, <1>6
<1>8. ASSUME NEW q \in Paths(edges), NEW edge \in {"server", "client"}, Made(q, after, edge), q[1] = p[1],
             s.parent = <<q, after, edge, 1>>
      PROVE  \E t \in index : ParentsOf(s) = {t} /\ t = Span(q, after, edge, 1)
  <2> DEFINE t == Span(q, after, edge, 1)
  <2>1. t \in index
    BY <1>2, <1>8, FirstCall, CalledAtLeastOnce, TraceIsWhole
  <2>2. t.id = s.parent
    BY <1>8, FirstCall, SpanHas
  <2>3. ASSUME NEW r \in ParentsOf(s) PROVE r = t
    <3>1. r \in Spans /\ r.id = <<q, after, edge, 1>>
      BY <1>1, <1>8 DEF ParentsOf
    <3> QED BY <3>1, FirstCall, NamedSpan
  <2> HIDE DEF t
  <2>4. ParentsOf(s) = {t}
    BY <1>1, <2>1, <2>2, <2>3 DEF ParentsOf
  <2> QED BY <2>1, <2>4 DEF t
<1>9. ASSUME Len(p) > 1
      PROVE  /\ Front(p) \in Paths(edges) /\ Len(Front(p)) = Len(p) - 1 /\ Front(p)[1] = p[1]
             /\ after /\ Cut(Front(p)) => Cut(p)
  <2>1. Len(p) - 1 \in 1..Len(p) /\ 1 \in 1..(Len(p) - 1)
    BY <1>4, <1>9
  <2>2. /\ Front(p) \in Paths(edges) /\ Len(Front(p)) = Len(p) - 1
        /\ \A i \in 1..(Len(p) - 1) : Front(p)[i] = p[i]
    BY <2>1, PartIsPath DEF Front
  <2>3. ASSUME Cut(Front(p)) PROVE Cut(p)
    <3>1. kind = "edge" /\ \E n \in 2..Len(Front(p)) : Front(p)[n - 1] = origin /\ Front(p)[n] = story.target
      BY <2>2, <2>3, CutIs
    <3>2. PICK n \in 2..Len(Front(p)) : Front(p)[n - 1] = origin /\ Front(p)[n] = story.target
      BY <3>1
    <3>3. n \in 2..Len(p) /\ n - 1 \in 1..(Len(p) - 1) /\ n \in 1..(Len(p) - 1)
      BY <1>4, <2>2
    <3>4. p[n - 1] = origin /\ p[n] = story.target
      BY <2>2, <3>2, <3>3
    <3> QED BY <3>1, <3>3, <3>4, CutIs
  <2> QED BY <2>1, <2>2, <2>3
<1>10. CASE side = "server" /\ Len(p) = 1
  <2>1. s.parent = None
    <3>1. Span(p, after, "server", 1).parent = IF Len(p) = 1 THEN None ELSE <<p, after, "client", 1>>
      BY FirstCall, ServerIs
    <3> QED BY <1>2, <1>10, <3>1
  <2>2. ASSUME NEW r \in ParentsOf(s) PROVE FALSE
    <3>1. r \in Spans /\ r.id = None
      BY <1>1, <2>1, <2>2 DEF ParentsOf
    <3>2. PICK q \in Paths(edges), b \in BOOLEAN, edge \in {"server", "client"}, m \in 1..2 :
            r = Span(q, b, edge, m)
      BY <3>1, SpanOf
    <3>3. r.id = <<q, b, edge, m>>
      BY <3>2, SpanHas
    <3> QED BY <3>1, <3>3, SpansHaveNames
  <2> QED BY <1>5, <1>7, <1>10, <2>2
<1>11. CASE side = "server" /\ Len(p) # 1
  <2>1. s.parent = <<p, after, "client", 1>>
    <3>1. Span(p, after, "server", 1).parent = IF Len(p) = 1 THEN None ELSE <<p, after, "client", 1>>
      BY FirstCall, ServerIs
    <3> QED BY <1>2, <1>11, <3>1
  <2>2. Len(p) > 1
    BY <1>4, <1>11
  <2>3. Made(p, after, "client")
    <3>1. ~(after /\ Cut(p))
      BY <1>2, <1>11 DEF Made
    <3>2. ~(after /\ Cut(Front(p)))
      BY <1>9, <2>2, <3>1
    <3> QED BY <2>2, <3>2 DEF Made
  <2>4. PICK t \in index : ParentsOf(s) = {t} /\ t = Span(p, after, "client", 1)
    BY <1>8, <2>1, <2>3
  <2>5. t.id = <<p, after, "client", 1>>
    BY <2>4, FirstCall, SpanHas
  <2>6. Level(t) = 2 * Len(p) - 3
    BY <2>5 DEF Level
  <2>7. Level(t) = Level(s) - 1
    BY <1>4, <1>5, <1>11, <2>6
  <2> QED BY <1>7, <2>4, <2>7
<1>12. CASE side = "client"
  <2>1. s.parent = <<Front(p), after, "server", 1>>
    BY <1>2, <1>12, FirstCall, ClientIs
  <2>2. Made(Front(p), after, "server")
    BY <1>2, <1>12 DEF Made
  <2>3. PICK t \in index : ParentsOf(s) = {t} /\ t = Span(Front(p), after, "server", 1)
    BY <1>6, <1>8, <1>9, <1>12, <2>1, <2>2
  <2>4. t.id = <<Front(p), after, "server", 1>>
    BY <1>6, <1>9, <1>12, <2>3, FirstCall, SpanHas
  <2>5. Level(t) = 2 * (Len(p) - 1) - 2
    BY <1>6, <1>9, <1>12, <2>4 DEF Level
  <2>6. Level(t) = Level(s) - 1
    BY <1>4, <1>5, <1>12, <2>5
  <2> QED BY <1>7, <2>3, <2>6
<1> QED BY <1>10, <1>11, <1>12

(* What Depth computes is that.                                             *)
LEMMA DepthIs ==
  ASSUME FaultIsSeen
  PROVE  \A s \in index : Depth[s] = Level(s)
<1>1. all_spans = index
  BY DEF all_spans, FaultIsSeen
<1> DEFINE Unfolded(g) ==
             [s \in all_spans |-> IF ParentsOf(s) = {} THEN 0
                                  ELSE 1 + g[CHOOSE p \in ParentsOf(s) : TRUE]]
           L == [s \in all_spans |-> Level(s)]
<1>2. L = Unfolded(L)
  <2>1. ASSUME NEW s \in all_spans
        PROVE  Level(s) = IF ParentsOf(s) = {} THEN 0 ELSE 1 + L[CHOOSE p \in ParentsOf(s) : TRUE]
    <3>1. CASE ParentsOf(s) = {} /\ Level(s) = 0
      BY <3>1
    <3>2. CASE \E t \in index : ParentsOf(s) = {t} /\ Level(t) = Level(s) - 1
      <4>1. PICK t \in index : ParentsOf(s) = {t} /\ Level(t) = Level(s) - 1
        BY <3>2
      <4>2. (CHOOSE p \in ParentsOf(s) : TRUE) = t
        BY <4>1
      <4>3. L[t] = Level(s) - 1
        BY <1>1, <4>1
      <4>4. Level(s) \in Nat
        BY <1>1, ParentIs
      <4> HIDE DEF L
      <4>5. 1 + L[t] = Level(s)
        BY <4>3, <4>4
      <4> QED BY <4>1, <4>2, <4>5
    <3> QED BY <1>1, <3>1, <3>2, ParentIs
  <2> QED BY <2>1
<1>3. Depth = CHOOSE g : g = Unfolded(g)
  BY DEF Depth, ParentsOf
<1>4. Depth = Unfolded(Depth)
  <2> HIDE DEF Unfolded, L
  <2> QED BY <1>2, <1>3, Zenon
<1>5. ASSUME NEW s \in index
      PROVE  \/ Depth[s] = 0 /\ Level(s) = 0
             \/ \E t \in index : Depth[s] = 1 + Depth[t] /\ Level(t) = Level(s) - 1
  <2>1. Depth[s] = IF ParentsOf(s) = {} THEN 0 ELSE 1 + Depth[CHOOSE p \in ParentsOf(s) : TRUE]
    BY <1>1, <1>4
  <2>2. CASE ParentsOf(s) = {} /\ Level(s) = 0
    BY <2>1, <2>2
  <2>3. CASE \E t \in index : ParentsOf(s) = {t} /\ Level(t) = Level(s) - 1
    <3>1. PICK t \in index : ParentsOf(s) = {t} /\ Level(t) = Level(s) - 1
      BY <2>3
    <3>2. (CHOOSE p \in ParentsOf(s) : TRUE) = t
      BY <3>1
    <3> QED BY <2>1, <3>1, <3>2
  <2> QED BY <2>2, <2>3, ParentIs
<1> DEFINE Bad == {Level(s) : s \in {t \in index : Depth[t] # Level(t)}}
<1>6. Bad \in SUBSET Nat
  BY ParentIs
<1>7. Bad = {}
  <2>1. SUFFICES ASSUME Bad # {} PROVE FALSE
    OBVIOUS
  <2> DEFINE m == Min(Bad)
  <2>2. m \in Bad /\ \A k \in Bad : m <= k
    <3> HIDE DEF Bad
    <3> QED BY <1>6, <2>1, LeastIsMin
  <2>3. PICK s \in index : Depth[s] # Level(s) /\ Level(s) = m
    BY <2>2
  <2> HIDE DEF m
  <2>4. PICK t \in index : Depth[s] = 1 + Depth[t] /\ Level(t) = Level(s) - 1
    BY <1>5, <2>3
  <2>5. Level(t) \in Nat /\ Level(s) \in Nat
    BY ParentIs
  <2>6. CASE Depth[t] = Level(t)
    <3>1. Depth[s] = 1 + Level(t)
      BY <2>4, <2>6
    <3> QED BY <2>3, <2>4, <2>5, <3>1
  <2>7. CASE Depth[t] # Level(t)
    <3>1. Level(t) \in Bad
      BY <2>7
    <3>2. m <= Level(t)
      BY <2>2, <3>1
    <3> QED BY <2>3, <2>4, <2>5, <3>2
  <2> QED BY <2>6, <2>7
<1> QED BY <1>7

(* What failed on its own was an entry: it is not as deep as a fault below. *)
LEMMA AsideIsAbove ==
  ASSUME FaultIsSeen, Deeper, story.noise \in Roots(edges), Aside \in index,
         NEW f \in Paths(edges), AtFault(f), Witness(f) \in index
  PROVE  ~(Depth[Witness(f)] <= Depth[Aside])
<1>1. kind \in {"service", "edge"} /\ story.noise # None
  BY TracedAreFew DEF FaultIsSeen, Roots
<1>2. <<story.noise>> \in Paths(edges)
  <2>1. /\ <<story.noise>> \in Seq(Traced) /\ Len(<<story.noise>>) = 1
        /\ <<story.noise>>[1] = story.noise
    BY DEF Roots
  <2>2. 1 <= Cardinality(Traced)
    BY PathIsSeq, TracedAreFew
  <2> DEFINE q == <<story.noise>>
  <2> HIDE DEF q
  <2>3. q \in Seq(Traced) /\ Len(q) \in 1..Cardinality(Traced) /\ q[1] \in Roots(edges)
        /\ \A i \in 1..(Len(q) - 1) : <<q[i], q[i + 1]>> \in edges
    BY <2>1, <2>2, TracedAreFew DEF q
  <2>4. q \in Paths(edges)
    BY <2>3, PathFromSeq
  <2> QED BY <2>4 DEF q
<1>3. Depth[Aside] = 0
  <2>1. Aside.id = <<<<story.noise>>, FALSE, "server", 1>>
    BY <1>2, FirstCall, SpanHas DEF Aside
  <2>2. Level(Aside) = 2 * Len(<<story.noise>>) - 2
    BY <2>1 DEF Level
  <2> QED BY <2>2, DepthIs
<1>4. Len(f) > 1
  <2> DEFINE n == Len(f)
  <2>1. n \in Nat \ {0} /\ f[1] \in Roots(edges)
    BY PathIsSeq
  <2>2. kind = "edge" => n > 1
    BY WitnessIs
  <2>3. kind = "service" => n # 1
    <3>1. kind = "service" => origin \notin Roots(edges) /\ f[n] = origin
      BY <1>1 DEF Deeper, AtFault, Callee
    <3> QED BY <2>1, <3>1
  <2> HIDE DEF n
  <2>4. n > 1
    BY <1>1, <2>1, <2>2, <2>3
  <2> QED BY <2>4 DEF n
<1>5. Depth[Witness(f)] >= 1 /\ Depth[Witness(f)] \in Int
  <2> DEFINE n == Len(f)
  <2>1. ASSUME kind = "service" PROVE Level(Witness(f)) = 2 * n - 2
    <3>1. Witness(f).id = <<f, TRUE, "server", 1>>
      BY <2>1, FirstCall, SpanHas DEF Witness
    <3> QED BY <3>1 DEF Level
  <2>2. ASSUME kind = "edge" PROVE Level(Witness(f)) = 2 * n - 3
    <3>1. Witness(f).id = <<f, TRUE, "client", 1>>
      BY <2>2, FirstCall, SpanHas DEF Witness
    <3> QED BY <3>1 DEF Level
  <2>3. Depth[Witness(f)] = Level(Witness(f)) /\ n \in Nat
    BY DepthIs, PathIsSeq
  <2>4. n > 1
    BY <1>4
  <2> HIDE DEF n
  <2> QED BY <1>1, <2>1, <2>2, <2>3, <2>4
<1> QED BY <1>3, <1>5

(* The deepest errors have the fault among them, and all vote for it.       *)
LEMMA DeepestAreFault ==
  ASSUME FaultIsSeen, Deeper
  PROVE  Deepest # {} /\ \A s \in Deepest : Vote(s) = Blamed
<1>1. PICK f \in Paths(edges) : AtFault(f) /\ Witness(f) \in index
  BY FaultIsIndexed
<1>2. Witness(f) \in Leaves
  BY <1>1, FaultIsLeaf
<1>3. \A s \in Leaves : s \in index
  BY DEF Leaves, Errors, all_spans, FaultIsSeen
<1>4. Deepest # {}
  <2> DEFINE D == {Depth[s] : s \in Leaves}
             m == 2 * Cardinality(Traced)
  <2>1. D \in SUBSET Nat /\ (\A k \in D : k <= m) /\ m \in Nat /\ D # {}
    <3>1. m \in Nat
      BY TracedAreFew
    <3>2. ASSUME NEW s \in Leaves PROVE Depth[s] \in Nat /\ Depth[s] <= m
      BY <1>3, DepthIs, ParentIs
    <3> HIDE DEF m
    <3> QED BY <1>2, <3>1, <3>2
  <2>2. Max(D) \in D /\ \A k \in D : k <= Max(D)
    <3> HIDE DEF D, m
    <3> QED BY <2>1, GreatestIsMax
  <2>3. PICK s \in Leaves : Depth[s] = Max(D)
    BY <2>2
  <2>4. \A t \in Leaves : Depth[t] <= Depth[s]
    BY <2>2, <2>3
  <2> QED BY <2>3, <2>4 DEF Deepest
<1>5. ASSUME NEW s \in Deepest PROVE Vote(s) = Blamed
  <2>1. s \in Leaves /\ s \in index /\ Depth[Witness(f)] <= Depth[s]
    BY <1>2, <1>3 DEF Deepest
  <2>2. CASE \E g \in Paths(edges) : AtFault(g) /\ s = Witness(g)
    BY <2>1, <2>2, VoteOfFault
  <2>3. CASE story.noise \in Roots(edges) /\ s = Aside
    BY <1>1, <2>1, <2>3, AsideIsAbove
  <2> QED BY <2>1, <2>2, <2>3, LeafIsFault
<1> QED BY <1>4, <1>5

(* traces_error_origin blames what was at fault and nothing else.           *)
LEMMA OriginIsTold ==
  ASSUME FaultIsSeen, Deeper
  PROVE  traces_error_origin = {Blamed}
<1>1. Deepest # {} /\ \A s \in Deepest : Vote(s) = Blamed
  BY DeepestAreFault
<1>2. Deepest \subseteq Errors /\ Errors \subseteq Spans
  BY DEF Deepest, Leaves, Errors, all_spans, FaultIsSeen, StoryOK
<1>3. Cardinality(Deepest) \in Nat
  BY <1>2, SpansAreFinite, FS_Subset, FS_CardinalityType
<1>4. {Vote(s) : s \in Deepest} = {Blamed}
  BY <1>1
<1>5. {s \in Deepest : Vote(s) = Blamed} = Deepest
  BY <1>1
<1>6. MostVoted(Deepest) = {Blamed}
  BY <1>3, <1>4, <1>5 DEF MostVoted
<1> QED BY <1>1, <1>2, <1>6 DEF traces_error_origin

-----------------------------------------------------------------------------
(* The graph tool agrees.                                                   *)

(* What calls that fail are seen as, when operations name the callee.       *)
LEMMA FailingCallIsEdge ==
  ASSUME FaultIsSeen, story.named, NEW q \in Paths(edges), Len(q) > 1, Fails(q),
         Span(q, TRUE, "client", 1) \in index
  PROVE  <<Caller(q), Callee(q)>> \in Edges(Errors)
<1>1. StoryOK /\ index # None /\ index \subseteq remote /\ remote = Spans /\ all_spans = index
  BY DEF FaultIsSeen, StoryOK, all_spans
<1>2. callee_of(Span(q, TRUE, "client", 1)) = Callee(q)
  BY <1>1, FirstCall, CalleeOfCall
<1>3. Span(q, TRUE, "client", 1).error = Fails(q)
  BY FirstCall, ClientIs
<1>4. Span(q, TRUE, "client", 1) \in Errors
  BY <1>1, <1>3 DEF Errors
<1>5. Errors \in SUBSET index
  BY <1>1 DEF Errors
<1> QED BY <1>1, <1>2, <1>4, <1>5, FirstCall, CallsAreEdges

(* Of the edges that fail one ends where the fault is, which calls nothing  *)
(* that fails; where another ends something that failed was called.         *)
LEMMA FailingEdges ==
  ASSUME FaultIsSeen, story.named, kind = "service" => origin \notin Roots(edges)
  PROVE  /\ \E e \in Edges(Errors) : e[2] = End
         /\ \A e \in Edges(Errors) : /\ e[1] # End
                                     /\ e[2] # End => \E d \in Edges(Errors) : d[1] = e[2]
<1>1. /\ StoryOK /\ index # None /\ index \subseteq remote /\ remote = Spans /\ all_spans = index
      /\ kind \in {"service", "edge"}
  BY DEF FaultIsSeen, StoryOK, all_spans
<1>2. Errors \in SUBSET index
  BY <1>1 DEF Errors
<1>3. \E e \in Edges(Errors) : e[2] = End
  <2>1. PICK f \in Paths(edges) : AtFault(f) /\ Witness(f) \in index
    BY FaultIsIndexed
  <2>2. Callee(f) = End /\ Fails(f)
    BY <1>1, <2>1, FaultIsLast, FaultFails
  <2>3. Len(f) > 1 /\ Span(f, TRUE, "client", 1) \in index
    <3>1. CASE kind = "edge"
      BY <2>1, <3>1, WitnessIs
    <3>2. CASE kind = "service"
      <4>1. Witness(f) = Span(f, TRUE, "server", 1)
        BY <2>1, <3>2, WitnessIs
      <4>2. Len(f) > 1
        <5> DEFINE n == Len(f)
        <5>1. n \in Nat \ {0} /\ f[1] \in Roots(edges) /\ f[n] = origin
          BY <2>1, <3>2, PathIsSeq DEF AtFault, Callee
        <5>2. n # 1
          BY <3>2, <5>1
        <5> HIDE DEF n
        <5>3. n > 1
          BY <5>1, <5>2
        <5> QED BY <5>3 DEF n
      <4>3. Made(f, TRUE, "client")
        BY <3>2, <4>2 DEF Made, Cut
      <4>4. Span(f, TRUE, "client", 1) \in index
        BY <2>1, <4>1, <4>3, FirstCall, CalledAtLeastOnce, TraceIsWhole
      <4> QED BY <4>2, <4>4
    <3> QED BY <1>1, <3>1, <3>2
  <2>4. <<Caller(f), Callee(f)>> \in Edges(Errors)
    BY <2>2, <2>3, FailingCallIsEdge
  <2> QED BY <2>2, <2>4
<1>4. ASSUME NEW e \in Edges(Errors)
      PROVE  e[1] # End /\ (e[2] # End => \E d \in Edges(Errors) : d[1] = e[2])
  <2>1. PICK p \in Paths(edges), after \in BOOLEAN, n \in 1..2 :
          /\ Span(p, after, "client", n) \in Errors /\ Len(p) > 1
          /\ e = <<Caller(p), Callee(p)>>
    BY <1>1, <1>2, EdgesAreCalls
  <2>2. Span(p, after, "client", n) \in Spans /\ Span(p, after, "client", n).error
    BY <1>1, <2>1 DEF Errors
  <2>3. Span(p, after, "client", n).error = IF after THEN Fails(p) ELSE FALSE
    BY ClientIs
  <2>4. after = TRUE /\ Fails(p)
    BY <2>2, <2>3
  <2>5. PICK f \in Paths(edges) : AtFault(f) /\ IsPrefix(p, f)
    BY <2>4 DEF Fails
  <2>6. e[1] # End
    <3>1. /\ Len(p) <= Len(f) /\ Len(p) \in Nat /\ Len(f) \in Nat
          /\ \A i \in 1..Len(p) : p[i] = f[i]
      BY <2>5, PathIsSeq, PrefixOfPath
    <3>2. Len(p) - 1 \in 1..(Len(f) - 1) /\ Len(p) - 1 \in 1..Len(p)
      BY <2>1, <3>1
    <3>3. f[Len(p) - 1] # End
      BY <1>1, <2>5, <3>2, FaultIsLast
    <3>4. Caller(p) = f[Len(p) - 1]
      BY <3>1, <3>2 DEF Caller
    <3> QED BY <2>1, <3>3, <3>4
  <2>7. ASSUME e[2] # End PROVE \E d \in Edges(Errors) : d[1] = e[2]
    <3>1. ~AtFault(p)
      <4>1. Callee(p) # End
        BY <2>1, <2>7
      <4> QED BY <1>1, <4>1, FaultIsLast
    <3>2. PICK q \in Paths(edges) : /\ Len(q) > 1 /\ Front(q) = p /\ Fails(q) /\ q[1] = p[1]
                                    /\ Caller(q) = Callee(p) /\ Made(q, TRUE, "client")
      BY <1>1, <2>4, <3>1, FailureComesUp
    <3>3. Span(p, TRUE, "client", n) \in index
      BY <1>2, <2>1, <2>4
    <3>4. Span(q, TRUE, "client", 1) \in index
      BY <3>2, <3>3, FirstCall, CalledAtLeastOnce, TraceIsWhole
    <3>5. <<Caller(q), Callee(q)>> \in Edges(Errors)
      BY <3>2, <3>4, FailingCallIsEdge
    <3> QED BY <2>1, <3>2, <3>5
  <2> QED BY <2>6, <2>7
<1> QED BY <1>3, <1>4

(* topology_locate_origin blames it too, naming no caller.                  *)
LEMMA TopologyAgrees ==
  ASSUME FaultIsSeen, kind = "edge" => story.named, kind = "service" => origin \notin Roots(edges)
  PROVE  topology_locate_origin = [Blamed EXCEPT !.caller = None]
<1>1. StoryOK /\ kind \in {"service", "edge"}
  BY DEF FaultIsSeen
<1>2. story.named
  BY <1>1, StoriesSay
<1> DEFINE E == Edges(Errors)
           callees == {e[2] : e \in E}
           ends == callees \ {e[1] : e \in E}
<1>3. (\E e \in E : e[2] = End) /\ \A e \in E : e[1] # End /\ (e[2] # End => \E d \in E : d[1] = e[2])
  BY <1>2, FailingEdges
<1>4. PICK f \in Paths(edges) : AtFault(f) /\ Witness(f) \in index
  BY FaultIsIndexed
<1>5. End \in Nat
  BY <1>1, <1>4, FaultIsLast, PathIsSeq, TracedAreFew
<1>6. E # {} /\ ends = {End}
  <2> HIDE DEF E
  <2> QED BY <1>3
<1>7. Min({End}) = End
  <2> DEFINE S == {End}
  <2>1. S \in SUBSET Nat /\ S # {}
    BY <1>5
  <2> HIDE DEF S
  <2>2. Min(S) \in S
    BY <2>1, LeastIsMin
  <2> QED BY <2>2 DEF S
<1>8. End \in ServerErrorServices <=> kind = "service"
  BY <1>1, <1>4, VoteOfFault DEF End
<1>9. topology_locate_origin = IF End \in ServerErrorServices THEN Of("service", None, End)
                               ELSE Of("edge", None, End)
  <2>1. topology_locate_origin =
          LET terminal == Min(IF ends # {} THEN ends ELSE callees)
          IN  IF E = {} THEN Unknown
              ELSE IF terminal \in ServerErrorServices THEN Of("service", None, terminal)
              ELSE Of("edge", None, terminal)
    BY DEF topology_locate_origin
  <2> HIDE DEF E, callees, ends
  <2>2. Min(IF ends # {} THEN ends ELSE callees) = End
    BY <1>6, <1>7
  <2> QED BY <1>6, <2>1, <2>2
<1>10. CASE kind = "service"
  <2>1. topology_locate_origin = Of("service", None, origin)
    BY <1>8, <1>9, <1>10 DEF End
  <2> QED BY <1>10, <2>1 DEF Blamed, Of
<1>11. CASE kind = "edge"
  <2>1. topology_locate_origin = Of("edge", None, story.target)
    BY <1>8, <1>9, <1>11 DEF End
  <2> QED BY <1>2, <1>11, <2>1 DEF Blamed, Of
<1> QED BY <1>1, <1>10, <1>11

(* What was sampled of a fault shows it.                                    *)
LEMMA SampleShowsFault ==
  ASSUME IncidentInv, Sampled, kind \in {"service", "edge"}
  PROVE  FaultIsSeen
<1>1. index # None /\ StoryOK /\ remote = Spans
  BY DEF IncidentInv, Sampled, Recorded, StoryOK
<1>2. CASE backend = "lgtm" /\ \E s \in index : s.error /\ s.time > Onset
  <2>1. WholeTraces
    BY DEF IncidentInv, Sampled, Recorded
  <2> QED BY <1>1, <1>2, <2>1 DEF FaultIsSeen, WholeTraces
<1>3. CASE index = remote
  <2>1. PICK f \in Paths(edges) : AtFault(f)
    BY <1>1, PathToFault
  <2> DEFINE b == Begin(f, TRUE)
             n == Len(f)
  <2>2. b = Onset + 1 + 2 * (n - 1) /\ n \in Nat \ {0} /\ Onset \in Nat
    BY FirstCall, BeginsWhen, PathIsSeq DEF Begin
  <2>3. CASE kind = "service"
    <3> DEFINE s == Span(f, TRUE, "server", 1)
    <3>1. s \in index /\ s.error = TRUE
      BY <1>1, <1>3, <2>1, <2>3, ServiceShowsFault DEF AtFault
    <3>2. s.time = b
      BY FirstCall, ServerIs
    <3> HIDE DEF s, b, n
    <3>3. s.time > Onset
      BY <2>2, <3>2
    <3> QED BY <1>1, <1>3, <3>1, <3>3 DEF FaultIsSeen
  <2>4. CASE kind = "edge"
    <3> DEFINE s == Span(f, TRUE, "client", 1)
    <3>1. s \in index /\ s.error = TRUE
      BY <1>1, <1>3, <2>1, <2>4, CallShowsFault
    <3>2. s.time = b - 1
      BY FirstCall, ClientIs
    <3>3. n > 1
      BY <2>1, <2>4 DEF AtFault
    <3> HIDE DEF s, b, n
    <3>4. s.time > Onset
      BY <2>2, <3>2, <3>3
    <3> QED BY <1>1, <1>3, <3>1, <3>4 DEF FaultIsSeen
  <2> QED BY <2>3, <2>4
<1> QED BY <1>2, <1>3 DEF Sampled

(* The tools blame what was at fault.                                       *)
LEMMA FaultHolds ==
  ASSUME IncidentInv
  PROVE  RecordedFaultIsFound
<1>1. SUFFICES ASSUME Sampled, kind \in {"service", "edge"}, Deeper
               PROVE  /\ traces_error_origin = {Blamed}
                      /\ (kind = "edge" => story.named) /\ (kind = "service" => origin \notin Roots(edges))
                           => topology_locate_origin = [Blamed EXCEPT !.caller = None]
  BY DEF RecordedFaultIsFound, Blamed
<1>2. FaultIsSeen
  BY <1>1, SampleShowsFault
<1> QED BY <1>1, <1>2, OriginIsTold, TopologyAgrees

-----------------------------------------------------------------------------
(* The report.                                                              *)

(* What is put together as evidence.                                        *)
LEMMA EvidenceHas ==
  ASSUME NEW service, NEW onset, NEW culprit
  PROVE  /\ (\E c \in changes : c.id = culprit)
              => "culprit" \in report_build_evidence(service, onset, culprit).evidence
         /\ find_spans(service, "server", TRUE) # {}
              => "errors" \in report_build_evidence(service, onset, culprit).evidence
<1> DEFINE Has(e) == CASE e = "errors"  -> find_spans(service, "server", TRUE) # {}
                       [] e = "latency" -> LatencyRises(service, onset)
                       [] e = "culprit" -> \E c \in changes : c.id = culprit
<1>1. report_build_evidence(service, onset, culprit).evidence =
        {e \in {"errors", "latency", "culprit"} : Has(e)}
  BY DEF report_build_evidence
<1>2. Has("culprit") = \E c \in changes : c.id = culprit
  <2>1. "culprit" # "errors" /\ "culprit" # "latency"
    OBVIOUS
  <2> QED BY <2>1, Zenon
<1>3. Has("errors") = (find_spans(service, "server", TRUE) # {})
  <2>1. "errors" # "culprit" /\ "errors" # "latency"
    OBVIOUS
  <2> QED BY <2>1, Zenon
<1> HIDE DEF Has
<1> QED BY <1>1, <1>2, <1>3

(* What the check of a draft passes.                                        *)
LEMMA NothingToCorrect ==
  ASSUME NEW report
  PROVE  report_self_check(report) = {} <=>
           /\ ~(report.at.class = "service" /\ report.at.service = None)
           /\ ~(report.at.class = "edge" /\ None \in {report.at.caller, report.at.service})
           /\ report.culprit \in {c.id : c \in changes}
           /\ report.culprit \notin report.ruledOut
           /\ report.evidence # {}
<1> DEFINE at == report.at
           known == {c.id : c \in changes}
           Wrong(issue) ==
             CASE issue = "service"   -> at.class = "service" /\ at.service = None
               [] issue = "edge"      -> at.class = "edge" /\ None \in {at.caller, at.service}
               [] issue = "culprit"   -> report.culprit \notin known
               [] issue = "ruled out" -> report.culprit \in report.ruledOut
               [] issue = "evidence"  -> report.evidence = {}
<1>1. report_self_check(report) =
        {issue \in {"service", "edge", "culprit", "ruled out", "evidence"} : Wrong(issue)}
  BY DEF report_self_check
<1>2. /\ "service" \notin {"edge", "culprit", "ruled out", "evidence"}
      /\ "edge" \notin {"culprit", "ruled out", "evidence"}
      /\ "culprit" \notin {"ruled out", "evidence"} /\ "ruled out" # "evidence"
  OBVIOUS
<1>3. Wrong("service") = (at.class = "service" /\ at.service = None)
  BY <1>2, Zenon
<1>4. Wrong("edge") = (at.class = "edge" /\ None \in {at.caller, at.service})
  BY <1>2, Zenon
<1>5. Wrong("culprit") = (report.culprit \notin known)
  BY <1>2, Zenon
<1>6. Wrong("ruled out") = (report.culprit \in report.ruledOut)
  BY <1>2, Zenon
<1>7. Wrong("evidence") = (report.evidence = {})
  BY <1>2, Zenon
<1>8. report_self_check(report) = {} <=>
        ~Wrong("service") /\ ~Wrong("edge") /\ ~Wrong("culprit") /\ ~Wrong("ruled out") /\ ~Wrong("evidence")
  <2> HIDE DEF Wrong
  <2> QED BY <1>1
<1> HIDE DEF Wrong
<1> QED BY <1>3, <1>4, <1>5, <1>6, <1>7, <1>8

(* A draft of the right answers, and what is thought of it.                 *)
LEMMA DraftIsGraded ==
  ASSUME FaultIsSeen, index = remote, story.noise = None, Unmistaken,
         NEW onset, onset = traces_first_error_time,
         NEW report, report = Draft(Blamed, Change("culprit", origin, Culprit), onset)
  PROVE  /\ grade(report, Truth).culprit /\ grade(report, Truth).decoys
         /\ grade(report, Truth).correct <=> (kind = "service" \/ story.named)
         /\ report_self_check(report) = {} <=> (kind = "service" \/ story.named)
         /\ kind = "service" => "errors" \in report.evidence
<1> DEFINE c == Change("culprit", origin, Culprit)
<1>1. StoryOK /\ index # None /\ kind \in {"service", "edge"} /\ all_spans = index
  BY DEF FaultIsSeen, all_spans
<1>2. PICK f \in Paths(edges) : AtFault(f) /\ Witness(f) \in index
  BY FaultIsIndexed
<1>3. origin \in Traced /\ origin # None /\ (kind = "edge" => story.target # None)
  <2>1. origin \in Traced
    BY <1>1 DEF StoryOK
  <2>2. kind = "edge" => story.target \in Traced
    BY <1>2, PathIsSeq DEF AtFault
  <2> QED BY <2>1, <2>2, TracedAreFew
<1>4. onset \in Nat /\ Onset \in Nat /\ Onset <= onset
  BY <1>1, FirstErrorIsLate
<1>5. PICK s \in Traced \ {origin}, t \in Nat :
        t > Onset /\ changes = {c, Change("elsewhere", s, Culprit + 1), Change("late", origin, t)}
  BY <1>1, ChangesAre
<1> DEFINE e == Change("elsewhere", s, Culprit + 1)  l == Change("late", origin, t)
<1>6. /\ c.id = "culprit" /\ c.service = origin /\ c.time = 3
      /\ e.id = "elsewhere" /\ l.id = "late" /\ l.service = origin /\ l.time = t
      /\ Culprit = 3 /\ Culprit < Onset
  BY IncidentAssumption DEF Change, Culprit
<1>7. /\ report.at = Blamed /\ report.culprit = c.id
      /\ report.evidence = report_build_evidence(Suspect(Blamed), onset, c.id).evidence
      /\ report.ruledOut = {d.id : d \in {x \in changes : ChangeRuledOut(x, onset)}}
  BY DEF Draft
<1> HIDE DEF c, e, l
<1>8. changes = {c, e, l} /\ c \in changes /\ l \in changes
  BY <1>5 DEF e, l
<1>9. "late" \in report.ruledOut /\ "culprit" \notin report.ruledOut
  <2>1. l.time >= onset
    BY <1>4, <1>5, <1>6, <1>8 DEF Unmistaken
  <2>2. ChangeRuledOut(l, onset) /\ ~ChangeRuledOut(c, onset)
    BY <1>4, <1>6, <2>1 DEF ChangeRuledOut
  <2> QED BY <1>6, <1>7, <1>8, <2>2
<1>10. "culprit" \in report.evidence /\ "culprit" \in {d.id : d \in changes}
  <2>1. \E d \in changes : d.id = c.id
    BY <1>8
  <2>2. "culprit" \in report_build_evidence(Suspect(Blamed), onset, c.id).evidence
    BY <2>1, EvidenceHas
  <2> QED BY <1>6, <1>7, <1>8, <2>2
<1>11. kind = "service" => "errors" \in report.evidence
  <2>1. SUFFICES ASSUME kind = "service" PROVE "errors" \in report.evidence
    OBVIOUS
  <2> DEFINE w == Witness(f)
  <2>2. w \in index /\ w.kind = "server" /\ w.error = TRUE /\ w.service = origin
    <3>1. w = Span(f, TRUE, "server", 1) /\ Callee(f) = origin
      BY <1>2, <2>1, WitnessIs DEF AtFault
    <3>2. Span(f, TRUE, "server", 1).kind = "server" /\ Span(f, TRUE, "server", 1).service = Callee(f)
      BY FirstCall, ServerIs
    <3>3. Span(f, TRUE, "server", 1).error = TRUE
      BY <1>1, <2>1, <3>1, ServiceShowsFault
    <3> QED BY <1>2, <3>1, <3>2, <3>3
  <2> HIDE DEF w
  <2>3. find_spans(origin, "server", TRUE) # {}
    BY <1>1, <2>2 DEF find_spans
  <2>4. Suspect(Blamed) = origin
    BY <1>3, <2>1 DEF Suspect, Blamed, Of
  <2> QED BY <1>7, <2>3, <2>4, EvidenceHas
<1>12. Truth.culprit = "culprit" /\ Truth.decoys = {"late"} /\ Truth.accepted = {origin}
       /\ Truth.at = IF kind = "service" THEN Of("service", None, origin) ELSE Of("edge", origin, story.target)
  BY DEF Truth
<1>13. location_correct(report.at, Truth) <=> (kind = "service" \/ story.named)
  <2>1. CASE kind = "service"
    <3>1. /\ Blamed.class = "service" /\ Blamed.service = origin /\ Truth.at.class = "service"
      BY <1>12, <2>1 DEF Blamed, Of
    <3> QED BY <1>7, <1>12, <2>1, <3>1 DEF location_correct
  <2>2. CASE kind = "edge"
    <3>1. /\ Blamed.class = "edge" /\ Blamed.caller = origin
          /\ Blamed.service = IF story.named THEN story.target ELSE None
          /\ Truth.at.class = "edge" /\ Truth.at.caller = origin /\ Truth.at.service = story.target
      BY <1>12, <2>2 DEF Blamed, Of
    <3>2. location_correct(report.at, Truth) <=> Blamed.service = story.target
      BY <1>7, <3>1 DEF location_correct
    <3> QED BY <1>3, <2>2, <3>1, <3>2
  <2> QED BY <1>1, <2>1, <2>2
<1>14. /\ grade(report, Truth).culprit = (report.culprit = Truth.culprit)
       /\ grade(report, Truth).decoys = (Truth.decoys \subseteq report.ruledOut)
       /\ grade(report, Truth).correct = (location_correct(report.at, Truth) /\ report.culprit = Truth.culprit)
  BY DEF grade
<1>15. report_self_check(report) = {} <=> (kind = "service" \/ story.named)
  <2>1. report_self_check(report) = {} <=>
          /\ ~(report.at.class = "service" /\ report.at.service = None)
          /\ ~(report.at.class = "edge" /\ None \in {report.at.caller, report.at.service})
    BY <1>6, <1>7, <1>9, <1>10, NothingToCorrect
  <2>2. CASE kind = "service"
    <3>1. Blamed.class = "service" /\ Blamed.service = origin
      BY <2>2 DEF Blamed, Of
    <3> QED BY <1>3, <1>7, <2>1, <2>2, <3>1
  <2>3. CASE kind = "edge"
    <3>1. /\ Blamed.class = "edge" /\ Blamed.caller = origin
          /\ Blamed.service = IF story.named THEN story.target ELSE None
      BY <2>3 DEF Blamed, Of
    <3> QED BY <1>3, <1>7, <2>1, <2>3, <3>1
  <2> QED BY <1>1, <2>2, <2>3
<1> QED BY <1>6, <1>7, <1>9, <1>11, <1>12, <1>13, <1>14, <1>15

(* A report of what they blame is graded so, and passes its check.          *)
LEMMA ReportHolds ==
  ASSUME IncidentInv
  PROVE  ReportIsGraded
<1> SUFFICES ASSUME Known, kind \in {"service", "edge"}, story.noise = None, Unmistaken,
                    NEW answer \in traces_error_origin,
                    NEW c \in changes_rank_culprit(origin, traces_first_error_time)
             PROVE  LET report == Draft(answer, c, traces_first_error_time)
                        graded == grade(report, Truth)
                    IN  /\ graded.culprit /\ graded.decoys
                        /\ graded.correct = (kind = "service" \/ story.named)
                        /\ graded.correct = (report_self_check(report) = {})
                        /\ kind = "service" => "errors" \in report.evidence
  BY DEF ReportIsGraded
<1>1. Sampled /\ Deeper /\ index = remote
  BY DEF Known, Sampled, Deeper
<1>2. FaultIsSeen
  BY <1>1, SampleShowsFault
<1>3. answer = Blamed
  BY <1>1, <1>2, OriginIsTold
<1> DEFINE onset == traces_first_error_time
<1>4. onset \in Nat /\ Onset <= onset /\ StoryOK
  BY <1>1, <1>2, FirstErrorIsLate DEF FaultIsSeen
<1>5. c = Change("culprit", origin, Culprit)
  BY <1>4, CulpritRanksFirst
<1> DEFINE report == Draft(answer, c, onset)
<1>6. report = Draft(Blamed, Change("culprit", origin, Culprit), onset)
  BY <1>3, <1>5
<1>7. onset = traces_first_error_time
  OBVIOUS
<1> HIDE DEF report
<1>8. /\ grade(report, Truth).culprit /\ grade(report, Truth).decoys
      /\ grade(report, Truth).correct <=> (kind = "service" \/ story.named)
      /\ report_self_check(report) = {} <=> (kind = "service" \/ story.named)
      /\ kind = "service" => "errors" \in report.evidence
  BY <1>1, <1>2, <1>6, <1>7, DraftIsGraded
<1>9. grade(report, Truth).correct \in BOOLEAN /\ (kind = "service" \/ story.named) \in BOOLEAN
  BY DEF grade
<1> QED BY <1>8, <1>9 DEF report

-----------------------------------------------------------------------------
(* What is looked up: all spans of a fault at a service that had not failed  *)
(* before.                                                                   *)
FaultIsWhole == FaultIsSeen /\ index = remote /\ story.noise # origin

(* Spans before the fault are before the onset, those since are after it.    *)
LEMMA TimeIs ==
  ASSUME NEW p \in Paths(edges), NEW after \in BOOLEAN, NEW side \in {"server", "client"}, NEW n \in 1..2,
         Made(p, after, side), NEW s, s = Span(p, after, side, n)
  PROVE  /\ s.time \in Nat
         /\ after => s.time > Onset
         /\ ~after => s.time < Onset
         /\ side = "server" => s.time = Begin(p, after)
         /\ side = "client" => s.time = Begin(p, after) - 1 /\ Len(p) > 1
<1> DEFINE l == Len(p)
           c == Cardinality(Traced)
           b == Begin(p, after)
<1>1. l \in Nat \ {0} /\ c \in Nat /\ l <= c
  BY PathIsSeq, TracedAreFew
<1>2. Onset \in Nat /\ 2 * c <= Onset + 1
  BY BeginsWhen, IncidentAssumption
<1>3. b = (IF after THEN Onset + 1 ELSE 0) + 2 * (l - 1)
  BY DEF Begin
<1>4. side = "server" => s.time = b
  <2>1. side = "server" => Span(p, after, "server", n).time = b
    BY ServerIs
  <2> QED BY <2>1
<1>5. side = "client" => s.time = b - 1 /\ l > 1
  <2>1. Span(p, after, "client", n).time = b - 1
    BY ClientIs
  <2> QED BY <2>1 DEF Made
<1> HIDE DEF l, c, b
<1>6. CASE after
  <2>1. b = Onset + 1 + 2 * (l - 1)
    BY <1>3, <1>6
  <2>2. side = "server" \/ side = "client"
    OBVIOUS
  <2>3. s.time \in Nat /\ s.time > Onset
    BY <1>1, <1>2, <1>4, <1>5, <2>1, <2>2
  <2> QED BY <1>4, <1>5, <1>6, <2>3 DEF b, l
<1>7. CASE ~after
  <2>1. b = 2 * (l - 1)
    BY <1>1, <1>3, <1>7
  <2>2. side = "server" \/ side = "client"
    OBVIOUS
  <2>3. s.time \in Nat /\ s.time < Onset
    BY <1>1, <1>2, <1>4, <1>5, <2>1, <2>2
  <2> QED BY <1>4, <1>5, <1>7, <2>3 DEF b, l
<1> QED BY <1>6, <1>7

(* What failed since onset is of a request after the fault, and later.       *)
LEMMA SinceIs ==
  ASSUME FaultIsSeen, NEW s \in Errors, s.time >= Onset
  PROVE  \E p \in Paths(edges), side \in {"server", "client"} :
           /\ s = Span(p, TRUE, side, 1) /\ Made(p, TRUE, side) /\ Fails(p)
           /\ s.time \in Nat /\ s.time > Onset /\ s.trace = <<p[1], TRUE>> /\ s.kind = side
           /\ side = "server" => s.service = Callee(p)
           /\ side = "client" => s.service = Caller(p) /\ Len(p) > 1
<1>1. s \in index /\ s.error /\ Onset \in Nat
  BY StoreAssumption DEF Errors, all_spans, FaultIsSeen, Onset
<1>2. PICK p \in Paths(edges), after \in BOOLEAN, side \in {"server", "client"} :
        /\ s = Span(p, after, side, 1) /\ Made(p, after, side)
        /\ IF after THEN Fails(p) ELSE side = "server" /\ p = <<story.noise>>
  BY <1>1, ErrorIs
<1>3. /\ s.time \in Nat /\ (after => s.time > Onset) /\ (~after => s.time < Onset)
      /\ side = "client" => Len(p) > 1
  BY <1>2, FirstCall, TimeIs
<1>4. after = TRUE /\ Fails(p)
  BY <1>1, <1>2, <1>3
<1>5. s.trace = <<p[1], TRUE>> /\ s.kind = side
  BY <1>2, <1>4, FirstCall, SpanHas
<1>6. side = "server" => s.service = Callee(p)
  <2>1. Span(p, TRUE, "server", 1).service = Callee(p)
    BY FirstCall, ServerIs
  <2> QED BY <1>2, <1>4, <2>1
<1>7. side = "client" => s.service = Caller(p)
  <2>1. Span(p, TRUE, "client", 1).service = Caller(p)
    BY FirstCall, ClientIs
  <2> QED BY <1>2, <1>4, <2>1
<1>8. /\ s = Span(p, TRUE, side, 1) /\ Made(p, TRUE, side) /\ Fails(p)
      /\ s.time \in Nat /\ s.time > Onset
  BY <1>2, <1>3, <1>4
<1> QED BY <1>3, <1>5, <1>6, <1>7, <1>8, Zenon

(* The service that makes the call at fault makes no other that fails.       *)
LEMMA CallOfOrigin ==
  ASSUME StoryOK, kind = "edge", NEW p \in Paths(edges), Len(p) > 1, Caller(p) = origin, Fails(p)
  PROVE  AtFault(p)
<1>1. PICK f \in Paths(edges) : AtFault(f) /\ IsPrefix(p, f)
  BY DEF Fails
<1>2. /\ Len(p) \in Nat /\ Len(f) \in Nat /\ Len(p) <= Len(f)
      /\ \A i \in 1..Len(p) : p[i] = f[i]
  BY <1>1, PathIsSeq, PrefixOfPath
<1>3. Len(f) > 1 /\ f[Len(f) - 1] = origin
  BY <1>1 DEF AtFault, Caller
<1>4. p[Len(p) - 1] = origin /\ Len(p) - 1 \in 1..Len(p)
  BY <1>2 DEF Caller
<1>5. f[Len(p) - 1] = origin
  BY <1>2, <1>4
<1>6. \A i, j \in 1..Len(f) : i < j => f[i] # f[j]
  BY PathIsSeq, PathIsSimple DEF StoryOK
<1>7. Len(p) = Len(f)
  <2>1. Len(p) - 1 \in 1..Len(f) /\ Len(f) - 1 \in 1..Len(f)
    BY <1>2, <1>3, <1>4
  <2>2. ~(Len(p) - 1 < Len(f) - 1)
    BY <1>3, <1>5, <1>6, <2>1
  <2> QED BY <1>2, <2>2
<1>8. p = f
  BY <1>2, <1>7, SamePath
<1> QED BY <1>1, <1>8

(* The span that shows the fault is shown as the fault.                      *)
LEMMA WitnessIsFault ==
  ASSUME FaultIsSeen, NEW f \in Paths(edges), AtFault(f), Witness(f) \in index
  PROVE  IsFault(_summary(Witness(f)))
<1> DEFINE w == Witness(f)
<1>1. kind \in {"service", "edge"} /\ story.named \in BOOLEAN
  BY StoriesSay DEF FaultIsSeen
<1>2. CASE kind = "service"
  <2>1. w.kind = "server" /\ w.service = Callee(f)
    BY <1>2, FirstCall, ServerIs DEF Witness
  <2>2. w.service = origin
    BY <1>2, <2>1 DEF AtFault
  <2> HIDE DEF w
  <2>3. _summary(w).service = origin /\ _summary(w).kind = "server"
    BY <2>1, <2>2 DEF _summary
  <2> QED BY <1>2, <2>3 DEF IsFault, w
<1>3. CASE kind = "edge"
  <2>1. w.kind = "client" /\ w.service = Caller(f)
    BY <1>3, FirstCall, ClientIs DEF Witness
  <2>2. w.service = origin
    BY <1>3, <2>1 DEF AtFault
  <2>3. Vote(w) = Of("edge", origin, IF story.named THEN story.target ELSE None)
    BY <1>3, VoteOfFault DEF Blamed
  <2> HIDE DEF w
  <2>4. \/ Vote(w) = Of("service", None, callee_of(w))
        \/ Vote(w) = Of("edge", origin, callee_of(w))
    BY <2>1, <2>2 DEF Vote
  <2>5. callee_of(w) = IF story.named THEN story.target ELSE None
    BY <2>3, <2>4 DEF Of
  <2>6. /\ _summary(w).service = origin /\ _summary(w).kind = "client"
        /\ _summary(w).callee = callee_of(w)
    BY <2>1, <2>2 DEF _summary
  <2> QED BY <1>3, <2>5, <2>6 DEF IsFault, w
<1> QED BY <1>1, <1>2, <1>3

(* There is the fault, and what its service did before it.                   *)
LEMMA FaultAndBefore ==
  ASSUME FaultIsWhole
  PROVE  /\ \E f \in Paths(edges) : AtFault(f) /\ Witness(f) \in Errors /\ Witness(f).time >= Onset
                                    /\ Witness(f).service = origin
         /\ \E s \in Operation(origin) : ~s.error /\ s.time < Onset
<1>1. /\ FaultIsSeen /\ StoryOK /\ kind \in {"service", "edge"} /\ edges \in TracedGraphs /\ origin \in Traced
      /\ all_spans = Spans /\ index = Spans
  BY DEF FaultIsWhole, FaultIsSeen, StoryOK, all_spans
<1>2. PICK f \in Paths(edges) : AtFault(f) /\ Witness(f) \in index
  BY <1>1, FaultIsIndexed
<1>3. Witness(f) \in Errors
  BY <1>1, <1>2, WitnessIs
<1>4. Witness(f).service = origin
  <2>1. IsFault(_summary(Witness(f)))
    BY <1>1, <1>2, WitnessIsFault
  <2> QED BY <2>1 DEF IsFault, _summary
<1>5. Witness(f).time >= Onset
  <2> DEFINE side == IF kind = "service" THEN "server" ELSE "client"
             w == Witness(f)
  <2>1. side \in {"server", "client"} /\ w = Span(f, TRUE, side, 1)
    BY DEF Witness
  <2>2. Made(f, TRUE, side)
    BY <1>1, <1>2, <2>1, FirstCall, SpanIsMade
  <2> HIDE DEF side, w
  <2>3. w.time \in Nat /\ w.time > Onset
    BY <2>1, <2>2, FirstCall, TimeIs
  <2>4. Onset \in Nat
    BY StoreAssumption DEF Onset
  <2> QED BY <2>3, <2>4 DEF w
<1>6. PICK p \in Paths(edges) : Callee(p) = origin
  BY <1>1, ServiceIsReached
<1> DEFINE s == Span(p, FALSE, "server", 1)
<1>7. s \in all_spans
  BY <1>1, MadeBefore
<1>8. s.kind = "server" /\ s.service = Callee(p) /\ s.error = (p = <<story.noise>>)
  BY FirstCall, ServerIs
<1>9. p # <<story.noise>>
  BY <1>1, <1>6, NoiseIsEntry DEF FaultIsWhole
<1>10. s.time < Onset
  <2>1. Made(p, FALSE, "server")
    BY DEF Made
  <2>2. s = Span(p, FALSE, "server", 1)
    OBVIOUS
  <2> HIDE DEF s
  <2> QED BY <2>1, <2>2, FirstCall, TimeIs
<1> HIDE DEF s
<1>11. s \in Operation(origin) /\ ~s.error /\ s.time < Onset
  BY <1>6, <1>7, <1>8, <1>9, <1>10 DEF Operation
<1> QED BY <1>2, <1>3, <1>4, <1>5, <1>11

(* Of spans there are first ones.                                            *)
LEMMA SomeAreFirst ==
  ASSUME NEW S, S # {}, \A s \in S : s.time \in Nat
  PROVE  First(S) # {} /\ First(S) \subseteq S /\ \A s \in First(S), t \in S : s.time <= t.time
<1> DEFINE Times == {s.time : s \in S}
<1>1. Times \in SUBSET Nat /\ Times # {}
  OBVIOUS
<1>2. \E t \in Times : \A u \in Times : t <= u
  <2> HIDE DEF Times
  <2> QED BY <1>1, LeastIsMin
<1>3. PICK s \in S : \A t \in S : s.time <= t.time
  BY <1>2
<1>4. \A t \in S : ~(t.time < s.time)
  BY <1>3
<1>5. s \in First(S)
  BY <1>4 DEF First, Earlier
<1>6. First(S) \subseteq S /\ \A q \in First(S), t \in S : q.time <= t.time
  BY DEF First, Earlier
<1> QED BY <1>5, <1>6

(* An error of the service at fault since onset shows the fault.             *)
LEMMA ErrorShowsFault ==
  ASSUME FaultIsWhole, NEW s \in Errors, s.service = origin, s.time >= Onset
  PROVE  ShowsFault(s.trace)
<1>1. FaultIsSeen
  BY DEF FaultIsWhole
<1>2. s.time > Onset
  BY <1>1, SinceIs
<1>3. s \in get_trace(s.trace) /\ s.error
  BY DEF get_trace, Errors
<1> QED BY <1>2, <1>3 DEF ShowsFault

(* The traces that stand for the errors of the service at fault show it.     *)
LEMMA ExemplarsShow ==
  ASSUME FaultIsWhole
  PROVE  /\ Exemplars(origin, Onset, 1) # {}
         /\ \A t \in Exemplars(origin, Onset, 2) : ShowsFault(t)
<1> DEFINE failing == {s \in Errors : s.service = origin /\ s.time >= Onset}
           sooner(t, u) == \E s \in {f \in failing : f.trace = u} : \A r \in {f \in failing : f.trace = t} : Earlier(s, r)
           ids == {s.trace : s \in failing}
<1>1. FaultIsSeen
  BY DEF FaultIsWhole
<1>2. failing # {}
  BY FaultAndBefore
<1>3. \A s \in failing : s.time \in Nat
  BY <1>1, SinceIs
<1>4. PICK s \in failing : \A t \in failing : s.time <= t.time
  <2> HIDE DEF failing
  <2> QED BY <1>2, <1>3, SomeAreFirst
<1>5. \A u : ~sooner(s.trace, u)
  <2> SUFFICES ASSUME NEW u, NEW g \in failing, g.trace = u,
                      \A r \in {f \in failing : f.trace = s.trace} : Earlier(g, r)
               PROVE  FALSE
    OBVIOUS
  <2>1. g.time < s.time /\ s.time <= g.time
    BY <1>4 DEF Earlier
  <2>2. g.time \in Nat /\ s.time \in Nat
    BY <1>3, <1>4
  <2> QED BY <2>1, <2>2
<1>6. {u \in ids : sooner(s.trace, u)} = {}
  <2> HIDE DEF sooner, ids
  <2> QED BY <1>5
<1>7. Cardinality({u \in ids : sooner(s.trace, u)}) < 1
  <2>1. Cardinality({u \in ids : sooner(s.trace, u)}) = 0
    <3> HIDE DEF sooner, ids
    <3> QED BY <1>6, FS_EmptySet
  <2> HIDE DEF sooner, ids
  <2> QED BY <2>1
<1>8. s.trace \in ids
  BY <1>4
<1>9. Exemplars(origin, Onset, 1) = {t \in ids : Cardinality({u \in ids : sooner(t, u)}) < 1}
  BY Zenon DEF Exemplars
<1>10. Exemplars(origin, Onset, 2) \subseteq ids
  BY DEF Exemplars
<1>11. \A t \in ids : ShowsFault(t)
  BY ErrorShowsFault
<1> QED BY <1>7, <1>8, <1>9, <1>10, <1>11, Zenon

(* So do the failing traces that are compared with healthy ones, and of the  *)
(* healthy ones none does.                                                   *)
LEMMA ComparisonShows ==
  ASSUME FaultIsWhole
  PROVE  LET picked == traces_compare_pre_post(origin, Onset)
         IN  /\ \A t \in picked.failing : ShowsFault(t)
             /\ picked.healthy # {} /\ \A t \in picked.healthy : ~ShowsFault(t)
<1> DEFINE well == {r \in Operation(origin) : ~r.error /\ r.time < Onset}
           bad == {r \in Operation(origin) : r.error /\ r.time >= Onset}
<1>1. /\ FaultIsSeen /\ StoryOK /\ index # None /\ all_spans = Spans /\ index = Spans
      /\ Onset \in Nat
  BY StoreAssumption DEF FaultIsWhole, FaultIsSeen, StoryOK, all_spans, Onset
<1>2. /\ traces_compare_pre_post(origin, Onset).healthy = {s.trace : s \in First(well)}
      /\ traces_compare_pre_post(origin, Onset).failing = {s.trace : s \in First(bad)}
  BY DEF traces_compare_pre_post
<1>3. ASSUME NEW s \in First(bad) PROVE ShowsFault(s.trace)
  <2>1. s \in Errors /\ s.service = origin /\ s.time >= Onset
    BY DEF First, Operation, Errors
  <2> QED BY <2>1, ErrorShowsFault
<1>4. ASSUME NEW s \in well
      PROVE  s.time \in Nat /\ \E p \in Paths(edges) : s.trace = <<p[1], FALSE>>
  <2>1. s \in Spans /\ s.time < Onset
    BY <1>1 DEF Operation
  <2>2. PICK p \in Paths(edges), after \in BOOLEAN, side \in {"server", "client"}, n \in 1..2 :
          s = Span(p, after, side, n) /\ Made(p, after, side)
    BY <2>1, SpanOf
  <2>3. s.time \in Nat /\ (after => s.time > Onset)
    BY <2>2, TimeIs
  <2>4. after = FALSE
    BY <1>1, <2>1, <2>3
  <2>5. s.trace = <<p[1], after>>
    BY <2>2, SpanHas
  <2> QED BY <2>3, <2>4, <2>5
<1>5. ASSUME NEW s \in well PROVE ~ShowsFault(s.trace)
  <2> SUFFICES ASSUME NEW t \in get_trace(s.trace), t.time > Onset PROVE FALSE
    BY DEF ShowsFault
  <2>1. PICK p \in Paths(edges) : s.trace = <<p[1], FALSE>>
    BY <1>4
  <2>2. t \in Spans /\ t.trace = s.trace
    BY <1>1 DEF get_trace
  <2>3. PICK q \in Paths(edges), after \in BOOLEAN, side \in {"server", "client"}, n \in 1..2 :
          t = Span(q, after, side, n) /\ Made(q, after, side)
    BY <2>2, SpanOf
  <2>4. t.trace = <<q[1], after>>
    BY <2>3, SpanHas
  <2>5. after = FALSE
    <3>1. <<p[1], FALSE>> = <<q[1], after>>
      BY <2>1, <2>2, <2>4
    <3> QED BY <3>1
  <2>6. t.time \in Nat /\ t.time < Onset
    BY <2>3, <2>5, TimeIs
  <2> QED BY <1>1, <2>6
<1>6. well # {} /\ \A s \in well : s.time \in Nat
  BY <1>4, FaultAndBefore
<1>7. First(well) # {} /\ First(well) \subseteq well
  <2> HIDE DEF well
  <2> QED BY <1>6, SomeAreFirst
<1> HIDE DEF well, bad
<1> QED BY <1>2, <1>3, <1>5, <1>7

(* The service at fault has errors of its own.                               *)
LEMMA ServerErrorsAre ==
  ASSUME FaultIsWhole, kind = "service"
  PROVE  traces_service_summary(origin).serverErrors > 0
<1> DEFINE spans == {s \in all_spans : s.service = origin}
           own == {s \in spans \cap Errors : s.kind = "server"}
<1>1. /\ FaultIsSeen /\ StoryOK /\ all_spans = Spans
  BY DEF FaultIsWhole, FaultIsSeen, StoryOK, all_spans
<1>2. PICK f \in Paths(edges) : AtFault(f) /\ Witness(f) \in Errors /\ Witness(f).service = origin
  BY FaultAndBefore
<1>3. Witness(f).kind = "server"
  BY FirstCall, ServerIs DEF Witness
<1>4. Witness(f) \in own
  BY <1>2, <1>3 DEF Errors
<1>5. own \in SUBSET Spans
  BY <1>1
<1>6. traces_service_summary(origin).serverErrors = Cardinality(own)
  BY DEF traces_service_summary
<1> HIDE DEF own
<1>7. IsFiniteSet(own) /\ own # {}
  BY <1>4, <1>5, SpansAreFinite, FS_Subset
<1>8. Cardinality(own) \in Nat /\ Cardinality(own) # 0
  BY <1>7, FS_EmptySet, FS_CardinalityType
<1> QED BY <1>6, <1>8

(* In the trace of a failure that is not the fault another failure is later. *)
LEMMA FailureGoesOn ==
  ASSUME FaultIsSeen, NEW p \in Paths(edges), NEW side \in {"server", "client"}, NEW s \in index,
         s = Span(p, TRUE, side, 1), Made(p, TRUE, side), Fails(p), ~(AtFault(p) /\ s = Witness(p))
  PROVE  \E t \in Errors : t.trace = s.trace /\ t.time > s.time /\ t.time \in Nat /\ s.time \in Nat
<1>1. StoryOK /\ kind \in {"service", "edge"} /\ all_spans = index /\ FALSE \notin {TRUE}
  BY DEF FaultIsSeen, StoryOK, all_spans
<1>2. s.trace = <<p[1], TRUE>> /\ s.time \in Nat
      /\ (side = "server" => s.time = Begin(p, TRUE))
      /\ (side = "client" => s.time = Begin(p, TRUE) - 1)
  BY FirstCall, SpanHas, TimeIs
<1> DEFINE b == Begin(p, TRUE)
<1>6. b \in Nat /\ (side = "server" => s.time = b) /\ (side = "client" => s.time = b - 1) /\ s.time \in Nat
  BY <1>2, FirstCall, BeginsWhen
<1> HIDE DEF b
<1>3. AtFault(p) => ~(side = IF kind = "service" THEN "server" ELSE "client")
  BY DEF Witness
<1>4. CASE side = "client"
  <2>1. ~Cut(p)
    <3>1. CASE AtFault(p)
      <4>1. kind = "service"
        BY <1>1, <1>3, <1>4, <3>1
      <4> QED BY <4>1 DEF Cut
    <3>2. CASE ~AtFault(p)
      BY <1>1, <3>2, FailureComesUp
    <3> QED BY <3>1, <3>2
  <2>2. Made(p, TRUE, "server")
    BY <2>1 DEF Made
  <2> DEFINE t == Span(p, TRUE, "server", 1)
  <2>3. 1 <= Calls(p)
    BY CalledAtLeastOnce
  <2>4. t \in index
    BY <1>4, <2>2, <2>3, FirstCall, TraceIsWhole
  <2>5. t.trace = <<p[1], TRUE>> /\ t.error = Fails(p) /\ t.time = Begin(p, TRUE)
    BY FirstCall, ServerIs
  <2>6. Begin(p, TRUE) \in Nat
    BY FirstCall, BeginsWhen
  <2> HIDE DEF t
  <2>7. t \in Errors /\ t.trace = s.trace
    <3>1. t.error
      BY <2>5, Zenon
    <3> QED BY <1>1, <1>2, <2>4, <2>5, <3>1 DEF Errors
  <2>8. t.time > s.time /\ t.time \in Nat
    <3>1. t.time = b
      BY <2>5 DEF b
    <3> DEFINE x == s.time
               y == t.time
    <3>2. b \in Nat /\ y = b /\ x = b - 1
      BY <1>4, <1>6, <3>1
    <3> HIDE DEF x, y
    <3>3. y > x /\ y \in Nat
      BY <3>2
    <3> QED BY <3>3 DEF x, y
  <2> QED BY <1>2, <2>7, <2>8
<1>5. CASE side = "server"
  <2>1. ~AtFault(p)
    <3> SUFFICES ASSUME AtFault(p) PROVE FALSE
      OBVIOUS
    <3>1. kind = "edge"
      BY <1>1, <1>3, <1>5
    <3>2. Cut(p)
      BY <3>1, FaultIsCut
    <3> QED BY <1>5, <3>2 DEF Made
  <2>2. PICK q \in Paths(edges) : /\ Len(q) > 1 /\ Front(q) = p /\ Fails(q) /\ q[1] = p[1]
                                  /\ Made(q, TRUE, "client")
    BY <1>1, <2>1, FailureComesUp
  <2> DEFINE t == Span(q, TRUE, "client", 1)
  <2>3. 1 <= Calls(q)
    BY CalledAtLeastOnce
  <2>4. t \in index
    BY <1>5, <2>2, <2>3, FirstCall, TraceIsWhole
  <2>5. t.trace = <<q[1], TRUE>> /\ t.error = Fails(q) /\ t.time = Begin(q, TRUE) - 1
    <3>1. t.error = IF TRUE THEN Fails(q) ELSE FALSE
      BY FirstCall, ClientIs
    <3>2. t.trace = <<q[1], TRUE>> /\ t.time = Begin(q, TRUE) - 1
      BY FirstCall, ClientIs
    <3> QED BY <3>1, <3>2
  <2>6. Len(q) \in Nat /\ Len(p) = Len(q) - 1 /\ Onset \in Nat
    <3>1. Len(Front(q)) = Len(q) - 1 /\ Len(q) \in Nat
      BY <2>2, PathIsSeq DEF Front
    <3> QED BY <2>2, <3>1, FirstCall, BeginsWhen
  <2>7. Begin(q, TRUE) = Begin(p, TRUE) + 2 /\ Begin(p, TRUE) \in Nat
    <3>1. Begin(p, TRUE) \in Nat
      BY FirstCall, BeginsWhen
    <3>2. /\ Begin(q, TRUE) = Onset + 1 + 2 * (Len(q) - 1)
          /\ Begin(p, TRUE) = Onset + 1 + 2 * (Len(p) - 1)
      BY DEF Begin
    <3> DEFINE l == Len(p)  k == Len(q)  c == Begin(q, TRUE)
               d == Begin(p, TRUE)
    <3>3. l = k - 1 /\ k \in Nat /\ Onset \in Nat /\ c = Onset + 1 + 2 * (k - 1)
          /\ d = Onset + 1 + 2 * (l - 1) /\ d \in Nat
      BY <2>6, <3>1, <3>2
    <3> HIDE DEF l, k, c, d
    <3>4. c = d + 2
      BY <3>3
    <3> QED BY <3>1, <3>4 DEF c, d
  <2> HIDE DEF t
  <2>8. t \in Errors /\ t.trace = s.trace
    <3>1. t.error
      BY <2>2, <2>5, Zenon
    <3> QED BY <1>1, <1>2, <2>2, <2>4, <2>5, <3>1 DEF Errors
  <2>9. t.time > s.time /\ t.time \in Nat
    <3>1. t.time = b + 1
      <4>1. t.time = Begin(q, TRUE) - 1 /\ Begin(q, TRUE) = b + 2
        BY <2>5, <2>7 DEF b
      <4> DEFINE y == t.time
                 c == Begin(q, TRUE)
      <4>2. y = c - 1 /\ c = b + 2 /\ b \in Nat
        BY <1>6, <4>1
      <4> HIDE DEF y, c
      <4>3. y = b + 1
        BY <4>2
      <4> QED BY <4>3 DEF y
    <3> DEFINE x == s.time
               y == t.time
    <3>2. b \in Nat /\ y = b + 1 /\ x = b
      BY <1>5, <1>6, <3>1
    <3> HIDE DEF x, y
    <3>3. y > x /\ y \in Nat
      BY <3>2
    <3> QED BY <3>3 DEF x, y
  <2> QED BY <1>2, <2>8, <2>9
<1> QED BY <1>4, <1>5

(* The last error of a failing trace is the fault.                           *)
LEMMA FaultComesLast ==
  ASSUME FaultIsWhole, NEW t \in traces_compare_pre_post(origin, Onset).failing
  PROVE  ErrorsLeadTo(traces_get_trace(t))
<1>1. FaultIsSeen /\ all_spans = index
  BY DEF FaultIsWhole, FaultIsSeen, all_spans
<1>2. \E r : t = <<r, TRUE>>
  <2>1. PICK g \in Operation(origin) : g.error /\ g.time >= Onset /\ t = g.trace
    BY DEF traces_compare_pre_post, First
  <2>2. g \in Errors
    BY <2>1 DEF Operation, Errors
  <2> QED BY <1>1, <2>1, <2>2, SinceIs
<1> SUFFICES ASSUME NEW s \in get_trace(t), s.error,
                    \A e \in get_trace(t) : e.error => e.time <= s.time
             PROVE  IsFault(_summary(s))
  <2>1. \A e : _summary(e).error = e.error /\ _summary(e).time = e.time
    BY DEF _summary
  <2> QED BY <2>1 DEF ErrorsLeadTo, traces_get_trace
<1>3. s \in index /\ s.trace = t
  BY <1>1 DEF get_trace
<1>4. PICK p \in Paths(edges), after \in BOOLEAN, side \in {"server", "client"} :
        /\ s = Span(p, after, side, 1) /\ Made(p, after, side)
        /\ IF after THEN Fails(p) ELSE side = "server" /\ p = <<story.noise>>
  BY <1>1, <1>3, ErrorIs
<1>5. after = TRUE
  <2>1. PICK r : t = <<r, TRUE>>
    BY <1>2
  <2>2. s.trace = <<p[1], after>>
    BY <1>4, FirstCall, SpanHas
  <2>3. <<r, TRUE>> = <<p[1], after>>
    BY <1>3, <2>1, <2>2
  <2> QED BY <2>3
<1>6. AtFault(p) /\ s = Witness(p)
  <2> SUFFICES ASSUME ~(AtFault(p) /\ s = Witness(p)) PROVE FALSE
    OBVIOUS
  <2>1. s = Span(p, TRUE, side, 1) /\ Made(p, TRUE, side) /\ Fails(p)
    BY <1>4, <1>5
  <2>2. PICK e \in Errors : e.trace = s.trace /\ e.time > s.time /\ e.time \in Nat /\ s.time \in Nat
    BY <1>1, <1>3, <2>1, FailureGoesOn
  <2>3. e \in get_trace(t) /\ e.error
    BY <1>3, <2>2 DEF Errors, get_trace
  <2>4. e.time <= s.time
    BY <2>3
  <2> QED BY <2>2, <2>4
<1> QED BY <1>1, <1>3, <1>6, WitnessIsFault

(* A search for the first error.                                             *)
Search(service, side, callee, start) == traces_find(service, side, TRUE, callee, start, 1)
(* What it looks through.                                                    *)
Matched(service, side, callee, start) ==
  {s \in all_spans : /\ Passes(service, s.service) /\ Passes(side, s.kind)
                     /\ Passes(TRUE, s.error) /\ s.time >= start
                     /\ callee # None => callee_of(s) = callee}

(* What is found one at a time is of what passes.                            *)
LEMMA FoundPasses ==
  ASSUME NEW service, NEW side, NEW callee, NEW start,
         Matched(service, side, callee, start) # {},
         IsFiniteSet(Matched(service, side, callee, start)),
         NEW found \in Search(service, side, callee, start)
  PROVE  found.spans # {} /\ \A r \in found.spans :
           \E s \in Matched(service, side, callee, start) : r = _summary(s)
<1> DEFINE M == Matched(service, side, callee, start)
<1>1. PICK X \in kSubset(Min({1, Cardinality(M)}), M) : found.spans = {_summary(s) : s \in X}
  <2>1. \E X \in kSubset(Min({1, Cardinality(Matched(service, side, callee, start))}),
                          Matched(service, side, callee, start)) :
          found.spans = {_summary(s) : s \in X}
    <3>1. \E X \in kSubset(Min({1, Cardinality(Matched(service, side, callee, start))}),
                            Matched(service, side, callee, start)) :
            found = [spans |-> {_summary(s) : s \in X},
                     total |-> Cardinality(Matched(service, side, callee, start)),
                     truncated |-> Cardinality(Matched(service, side, callee, start)) > 1]
      BY Zenon DEF Search, traces_find, Matched
    <3>2. \A X : [spans |-> {_summary(s) : s \in X},
                  total |-> Cardinality(Matched(service, side, callee, start)),
                  truncated |-> Cardinality(Matched(service, side, callee, start)) > 1].spans
                 = {_summary(s) : s \in X}
      OBVIOUS
    <3> QED BY <3>1, <3>2, Zenon
  <2> QED BY <2>1, Zenon DEF M
<1> HIDE DEF M
<1>2. Cardinality(M) \in Nat /\ Cardinality(M) # 0
  <2>1. M # {} /\ IsFiniteSet(M)
    BY DEF M
  <2> QED BY <2>1, FS_CardinalityType, FS_EmptySet
<1>3. Min({1, Cardinality(M)}) = 1
  <2>1. Cardinality(M) \in Int /\ 1 \in Int /\ 1 <= Cardinality(M)
    BY <1>2
  <2>2. Min({1, Cardinality(M)}) = IF 1 <= Cardinality(M) THEN 1 ELSE Cardinality(M)
    BY <2>1, MinOfTwo
  <2> QED BY <2>1, <2>2
<1>4. X \subseteq M /\ Cardinality(X) = 1
  BY <1>1, <1>3 DEF kSubset
<1>5. X # {}
  <2>1. X = {} => Cardinality(X) = 0
    BY FS_EmptySet, Zenon
  <2> QED BY <1>4, <2>1
<1> QED BY <1>1, <1>4, <1>5 DEF M

(* The search that tests a service, or an edge, finds the fault.             *)
LEMMA SearchHolds ==
  ASSUME FaultIsWhole
  PROVE  SearchFinds
<1>1. /\ FaultIsSeen /\ StoryOK /\ kind \in {"service", "edge"} /\ all_spans = index /\ index = Spans
      /\ story.named \in BOOLEAN /\ origin # None /\ (kind = "edge" => story.target # None)
  <2>1. FaultIsSeen /\ StoryOK /\ kind \in {"service", "edge"} /\ all_spans = index /\ index = Spans
    BY DEF FaultIsWhole, FaultIsSeen, StoryOK, all_spans
  <2>2. kind = "edge" => story.target \in Traced
    BY <2>1, StoriesSay, CallsAreTraced DEF StoryOK
  <2> QED BY <2>1, <2>2, StoriesSay, TracedAreFew DEF StoryOK
<1>2. "server" # None /\ "client" # None /\ TRUE # None
  BY NoneAssumption
<1>3. PICK f \in Paths(edges) : /\ AtFault(f) /\ Witness(f) \in Errors /\ Witness(f).time >= Onset
                                /\ Witness(f).service = origin
  BY FaultAndBefore
<1>4. Witness(f) \in index /\ Witness(f).error = TRUE
  BY <1>1, <1>3, WitnessIs, ServiceShowsFault, CallShowsFault DEF Errors, AtFault
<1> DEFINE side == IF kind = "service" THEN "server" ELSE "client"
           callee == IF kind = "service" THEN None ELSE IF story.named THEN story.target ELSE None
           M == Matched(origin, side, callee, Onset)
<1>5. side # None
  BY <1>2
<1>6. Witness(f) \in M
  <2> DEFINE w == Witness(f)
  <2>1. w.kind = side
    <3>1. w = Span(f, TRUE, side, 1) /\ side \in {"server", "client"}
      BY DEF Witness
    <3> HIDE DEF w, side
    <3> QED BY <3>1, FirstCall, SpanHas
  <2>2. IsFault(_summary(w)) /\ _summary(w).callee = IF w.kind = "client" THEN callee_of(w) ELSE None
    BY <1>1, <1>3, <1>4, WitnessIsFault DEF _summary
  <2> HIDE DEF w
  <2>3. callee # None => callee_of(w) = callee
    BY <1>1, <2>1, <2>2 DEF IsFault
  <2>4. w \in all_spans /\ w.service = origin /\ w.error = TRUE /\ w.time >= Onset
    BY <1>1, <1>3, <1>4 DEF w
  <2> QED BY <2>1, <2>3, <2>4 DEF Passes, Matched, w
<1>7. ASSUME NEW s \in M PROVE IsFault(_summary(s))
  <2>1. s \in all_spans /\ s.service = origin /\ s.kind = side /\ s.error = TRUE /\ s.time >= Onset
    BY <1>1, <1>2, <1>5 DEF Passes, Matched
  <2>2. CASE kind = "service"
    BY <2>1, <2>2 DEF IsFault, _summary
  <2>3. CASE kind = "edge"
    <3>1. s \in Errors /\ s.kind = "client"
      BY <2>1, <2>3 DEF Errors
    <3>2. PICK p \in Paths(edges), edge \in {"server", "client"} :
            /\ s = Span(p, TRUE, edge, 1) /\ Fails(p) /\ s.kind = edge
            /\ edge = "client" => s.service = Caller(p) /\ Len(p) > 1
      BY <1>1, <2>1, <3>1, SinceIs
    <3>3. AtFault(p)
      BY <1>1, <2>1, <2>3, <3>1, <3>2, CallOfOrigin
    <3>4. s = Witness(p)
      BY <2>3, <3>1, <3>2 DEF Witness
    <3> QED BY <1>1, <2>1, <3>3, <3>4, WitnessIsFault
  <2> QED BY <1>1, <2>2, <2>3
<1>8. IsFiniteSet(M)
  <2>1. M \in SUBSET Spans
    BY <1>1 DEF Matched
  <2> HIDE DEF M
  <2> QED BY <2>1, SpansAreFinite, FS_Subset
<1>9. M = Matched(origin, side, callee, Onset)
  OBVIOUS
<1> HIDE DEF M, side, callee
<1>10. \A found \in traces_find(origin, side, TRUE, callee, Onset, 1) :
         found.spans # {} /\ \A r \in found.spans : IsFault(r)
  <2> SUFFICES ASSUME NEW found \in traces_find(origin, side, TRUE, callee, Onset, 1)
               PROVE  found.spans # {} /\ \A r \in found.spans : IsFault(r)
    OBVIOUS
  <2>1. /\ Matched(origin, side, callee, Onset) # {}
        /\ IsFiniteSet(Matched(origin, side, callee, Onset))
    BY <1>6, <1>8, <1>9
  <2>2. /\ found.spans # {}
        /\ \A r \in found.spans : \E s \in Matched(origin, side, callee, Onset) : r = _summary(s)
    <3>1. found \in Search(origin, side, callee, Onset)
      BY DEF Search
    <3> QED BY <2>1, <3>1, FoundPasses
  <2> QED BY <1>7, <1>9, <2>2
<1>11. CASE kind = "service"
  <2>1. side = "server" /\ callee = None
    BY <1>11 DEF side, callee
  <2> QED BY <1>10, <1>11, <2>1 DEF SearchFinds
<1>12. CASE kind = "edge"
  <2>1. side = "client" /\ callee = IF story.named THEN story.target ELSE None
    BY <1>12 DEF side, callee
  <2> QED BY <1>10, <1>12, <2>1 DEF SearchFinds
<1> QED BY <1>1, <1>11, <1>12

(* From every service that fails and is not at fault a failing call leads on.*)
LEMMA FailingCallLeadsOn ==
  ASSUME FaultIsWhole, NEW t \in FailedSince \ {origin}
  PROVE  \E q \in Paths(edges), p \in Paths(edges), side \in {"server", "client"} :
           /\ Len(q) > 1 /\ Fails(q) /\ Caller(q) = t /\ q[1] = p[1]
           /\ Span(p, TRUE, side, 1) \in index
<1>1. /\ FaultIsSeen /\ StoryOK /\ kind \in {"service", "edge"}
      /\ all_spans = Spans /\ index = Spans /\ Onset \in Nat
  BY StoreAssumption DEF FaultIsWhole, FaultIsSeen, StoryOK, all_spans, Onset
<1>2. PICK s \in Errors : s.time > Onset /\ s.service = t
  BY DEF FailedSince
<1>3. s \in index /\ s.time >= Onset
  <2>1. s \in Spans
    BY <1>1 DEF Errors
  <2>2. s.time \in 0..WindowEnd
    BY <2>1, SpansAreTimely
  <2> QED BY <1>1, <1>2, <2>1, <2>2
<1>4. PICK p \in Paths(edges), side \in {"server", "client"} :
        /\ s = Span(p, TRUE, side, 1) /\ Made(p, TRUE, side) /\ Fails(p)
        /\ side = "server" => s.service = Callee(p)
        /\ side = "client" => s.service = Caller(p) /\ Len(p) > 1
  BY <1>1, <1>3, SinceIs
<1>5. Span(p, TRUE, side, 1) \in index
  BY <1>3, <1>4
<1>6. CASE side = "client"
  BY <1>2, <1>4, <1>5, <1>6
<1>7. CASE side = "server"
  <2>1. ~AtFault(p)
    <3> SUFFICES ASSUME AtFault(p) PROVE FALSE
      OBVIOUS
    <3>1. CASE kind = "service"
      BY <1>2, <1>4, <1>7, <3>1 DEF AtFault
    <3>2. CASE kind = "edge"
      <4>1. Cut(p)
        BY <3>2, FaultIsCut
      <4> QED BY <1>4, <1>7, <4>1 DEF Made
    <3> QED BY <1>1, <3>1, <3>2
  <2>2. PICK q \in Paths(edges) : Len(q) > 1 /\ Fails(q) /\ q[1] = p[1] /\ Caller(q) = Callee(p)
    BY <1>1, <1>4, <2>1, FailureComesUp
  <2> QED BY <1>2, <1>4, <1>5, <1>7, <2>2
<1> QED BY <1>6, <1>7

(* Where it leads fails, too.                                                *)
LEMMA FailingCalleeFails ==
  ASSUME FaultIsWhole, NEW q \in Paths(edges), Len(q) > 1, Fails(q), Caller(q) # origin,
         NEW p \in Paths(edges), NEW side \in {"server", "client"}, q[1] = p[1],
         Span(p, TRUE, side, 1) \in index
  PROVE  Callee(q) \in FailedSince
<1>1. /\ FaultIsSeen /\ StoryOK /\ kind \in {"service", "edge"} /\ all_spans = index
  BY DEF FaultIsWhole, FaultIsSeen, all_spans
<1>2. CASE AtFault(q)
  <2>1. kind = "service" /\ Callee(q) = origin
    BY <1>1, <1>2 DEF AtFault
  <2>2. PICK f \in Paths(edges) : /\ Witness(f) \in Errors /\ Witness(f).time >= Onset
                                  /\ Witness(f).service = origin
    BY FaultAndBefore
  <2>3. Witness(f).time > Onset
    BY <1>1, <2>2, SinceIs
  <2> QED BY <2>1, <2>2, <2>3 DEF FailedSince
<1>3. CASE ~AtFault(q)
  <2> DEFINE w == Span(q, TRUE, "server", 1)
  <2>1. ~Cut(q)
    BY <1>1, <1>3, FailureComesUp
  <2>2. Made(q, TRUE, "server") /\ 1 <= Calls(q)
    BY <2>1, CalledAtLeastOnce DEF Made
  <2>3. w \in index
    BY <1>1, <2>2, FirstCall, TraceIsWhole
  <2>4. w.error = Fails(q) /\ w.service = Callee(q)
    BY FirstCall, ServerIs
  <2>5. w = Span(q, TRUE, "server", 1)
    OBVIOUS
  <2> HIDE DEF w
  <2>6. w.time > Onset
    BY <2>2, <2>5, FirstCall, TimeIs
  <2>7. w.error
    BY <2>4, Zenon
  <2>8. w \in Errors
    BY <1>1, <2>3, <2>7 DEF Errors
  <2> QED BY <2>4, <2>6, <2>8 DEF FailedSince
<1> QED BY <1>2, <1>3

(* The topology of a whole index is the graph of calls.                      *)
LEMMA TopologyIs ==
  ASSUME StoryOK, index # None, index = remote, story.export = None
  PROVE  traces_build_topology = edges
<1>1. GraphIsRebuilt
  BY GraphHolds
<1> QED BY <1>1 DEF GraphIsRebuilt, Recorded

(* So each failing service has a failing callee, up to the one at fault.     *)
LEMMA CalleesFail ==
  ASSUME FaultIsWhole, story.export = None, NEW t \in FailedSince \ {origin}
  PROVE  topology_dependencies(t).callees \cap FailedSince # {}
<1>1. StoryOK /\ index # None /\ index = remote
  BY DEF FaultIsWhole, FaultIsSeen
<1>2. traces_build_topology = edges
  BY <1>1, TopologyIs
<1>3. PICK q \in Paths(edges), p \in Paths(edges), side \in {"server", "client"} :
        /\ Len(q) > 1 /\ Fails(q) /\ Caller(q) = t /\ q[1] = p[1]
        /\ Span(p, TRUE, side, 1) \in index
  BY FailingCallLeadsOn
<1>4. Callee(q) \in FailedSince
  BY <1>3, FailingCalleeFails
<1>5. <<t, Callee(q)>> \in edges
  <2>1. Len(q) \in Nat /\ \A i \in 1..(Len(q) - 1) : <<q[i], q[i + 1]>> \in edges
    BY PathIsSeq
  <2>2. Len(q) - 1 \in 1..(Len(q) - 1) /\ Len(q) - 1 + 1 = Len(q)
    BY <1>3, <2>1
  <2> QED BY <1>3, <2>1, <2>2 DEF Caller, Callee
<1>6. Callee(q) \in topology_dependencies(t).callees
  BY <1>2, <1>5 DEF topology_dependencies
<1> QED BY <1>4, <1>6

(* No path to a service is shorter than what is shown as its critical path.  *)
LEMMA ShortestIsShortest ==
  ASSUME edges \in TracedGraphs, NEW r, NEW t, NEW p \in _shortest_path(edges, r, t),
         NEW q \in Paths(edges), q[1] = r, Last(q) = t
  PROVE  Len(p) <= Len(q)
<1>1. NodesOf(edges) = Traced
  <2>1. UNION {{e[1], e[2]} : e \in edges} = Traced
    BY DEF TracedGraphs
  <2>2. UNION {{e[1], e[2]} : e \in edges} = NodesOf(edges)
    BY DEF NodesOf
  <2> QED BY <2>1, <2>2
<1>2. q \in Walks(edges)
  BY <1>1 DEF Paths, Chains, Walks
<1> QED BY <1>2 DEF _shortest_path

(* The fault is shown.                                                       *)
LEMMA ShownHolds ==
  ASSUME IncidentInv
  PROVE  FaultIsShown
<1> SUFFICES ASSUME Known, kind \in {"service", "edge"}, story.noise # origin
             PROVE  LET picked == traces_compare_pre_post(origin, Onset)
                    IN  /\ Exemplars(origin, Onset, 1) # {}
                        /\ \A t \in Exemplars(origin, Onset, 2) \cup picked.failing : ShowsFault(t)
                        /\ picked.healthy # {} /\ \A t \in picked.healthy : ~ShowsFault(t)
                        /\ kind = "service" => traces_service_summary(origin).serverErrors > 0
                        /\ \A t \in picked.failing : ErrorsLeadTo(traces_get_trace(t))
                        /\ SearchFinds
                        /\ \A s \in FailedSince \ {origin} : topology_dependencies(s).callees \cap FailedSince # {}
                        /\ \A r \in Roots(edges) :
                             \A p \in _shortest_path(traces_build_topology, r, origin) :
                               \A q \in Paths(edges) : q[1] = r /\ Last(q) = origin => Len(p) <= Len(q)
  BY DEF FaultIsShown
<1>1. Sampled /\ index = remote /\ story.export = None /\ index # None
  BY DEF Known, Sampled, Recorded
<1>2. FaultIsSeen
  BY <1>1, SampleShowsFault
<1>3. FaultIsWhole /\ StoryOK /\ edges \in TracedGraphs
  BY <1>1, <1>2 DEF FaultIsWhole, FaultIsSeen, StoryOK
<1>4. Exemplars(origin, Onset, 1) # {} /\ \A t \in Exemplars(origin, Onset, 2) : ShowsFault(t)
  BY <1>3, ExemplarsShow
<1> DEFINE picked == traces_compare_pre_post(origin, Onset)
<1>5. /\ \A t \in picked.failing : ShowsFault(t)
      /\ picked.healthy # {} /\ \A t \in picked.healthy : ~ShowsFault(t)
  BY <1>3, ComparisonShows
<1>6. kind = "service" => traces_service_summary(origin).serverErrors > 0
  BY <1>3, ServerErrorsAre
<1>7. \A t \in picked.failing : ErrorsLeadTo(traces_get_trace(t))
  BY <1>3, FaultComesLast
<1>8. SearchFinds
  BY <1>3, SearchHolds
<1>9. \A s \in FailedSince \ {origin} : topology_dependencies(s).callees \cap FailedSince # {}
  BY <1>1, <1>3, CalleesFail
<1>10. traces_build_topology = edges
  BY <1>1, <1>3, TopologyIs
<1>11. \A r \in Roots(edges) :
         \A p \in _shortest_path(traces_build_topology, r, origin) :
           \A q \in Paths(edges) : q[1] = r /\ Last(q) = origin => Len(p) <= Len(q)
  BY <1>3, <1>10, ShortestIsShortest
<1> HIDE DEF picked
<1>12. \A t \in Exemplars(origin, Onset, 2) \cup picked.failing : ShowsFault(t)
  BY <1>4, <1>5
<1> QED BY <1>4, <1>5, <1>6, <1>7, <1>8, <1>9, <1>11, <1>12 DEF picked

(* For any graph of calls, fault in a service or a call, handler of failures*)
(* and unrelated error, but for one as deep as the fault: traces_error_origin*)
(* gives what is at fault and nothing else, from all spans as from a sample *)
(* of whole traces with one that shows the fault; topology_locate_origin    *)
(* agrees where a caller sees the fault and the failing call names its      *)
(* callee; and the report drafted from the answers, with the change ranked  *)
(* first, is graded correct exactly when its own check finds nothing wrong  *)
(* (traces.py:396-463, topology.py:141-178, grader.py:35-70,                *)
(* report.py:45-113). And what is shown with the verdict shows the fault:   *)
(* the traces that are picked as failing, which have it as their last error *)
(* while the healthy ones have it not; the searches that test it; the chain *)
(* of failing callees from every other service that fails; and the critical *)
(* path, which no path to it undercuts (traces.py:465-511, 618-662,         *)
(* correlate.py:125-148, topology.py:72-138).                               *)
THEOREM FaultIsAttributed == IncidentSpec => []AttributionIsRight
<1>1. ASSUME IncidentInv PROVE AttributionIsRight
  BY <1>1, FaultHolds, ShownHolds, ReportHolds DEF AttributionIsRight
<1> QED BY <1>1, IncidentStarts, IncidentGoesOn, PTL DEF IncidentSpec
=============================================================================
