----------------------------- MODULE RcaRunProofs -----------------------------
(***************************************************************************)
(* The ranking and the investigation, for any services, graph, thresholds, *)
(* faults, pool and plans: the origin is ranked first, no worker outlives  *)
(* the run, only verdicts on the very services displaced move the pick,    *)
(* and a remedy is offered on the word of a worker that tested its target. *)
(*                                                                         *)
(* A ranking sorts keys that end in the service's name, so the keys are in *)
(* a strict total order and counting those which precede puts each at its  *)
(* place; what is first then precedes all others, and each rule is read    *)
(* off the components of its key. Calls descend, so among services that    *)
(* fail because of one below them the deepest calls none of the others.    *)
(* The invariant of the run adds that verdicts on what has stepped are in  *)
(* its favour, that the best of it is always among the hypotheses, and     *)
(* that a brief is made of what the run ended with.                        *)
(***************************************************************************)
EXTENDS RcaRun, FiniteSetTheorems, SequenceTheorems, TLAPS

-----------------------------------------------------------------------------
(* Induction over the naturals, as the least member of a set of them. *)
LEMMA LeastMember ==
  ASSUME NEW S \in SUBSET Nat, S # {}
  PROVE  \E i \in S : \A j \in S : i <= j
<1>1. PICK i \in S : \A j \in S : ~(<<j, i>> \in OpToRel(<, Nat))
  BY NatLessThanWellFounded, WFMin
<1>2. i \in S
  BY <1>1
<1>3. ASSUME NEW j \in S
      PROVE  ~(j < i)
  <2>1. <<j, i>> \notin OpToRel(<, Nat)
    BY <1>1
  <2>2. j \in Nat /\ i \in Nat
    BY <1>2
  <2> QED
    BY <2>1, <2>2, Zenon DEF OpToRel
<1> QED
  BY <1>2, <1>3

(* before orders S: no one precedes himself, and of two one precedes.        *)
Orders(before, S) ==
  /\ \A s \in S : <<s, s>> \notin before
  /\ \A s, t \in S : s # t => <<s, t>> \in before \/ <<t, s>> \in before
  /\ \A s, t, u \in S : <<s, t>> \in before /\ <<t, u>> \in before => <<s, u>> \in before

(* order names each member of S once, at the place that before gives it.     *)
Lists(order, S, before) ==
  /\ order \in [1..Cardinality(S) -> S]
  /\ \A s \in S : \E i \in 1..Cardinality(S) : order[i] = s
  /\ \A i, j \in 1..Cardinality(S) : i < j => <<order[i], order[j]>> \in before

(* Counting those which precede puts every member at its place. *)
LEMMA InOrderLists ==
  ASSUME NEW S, IsFiniteSet(S), NEW before, Orders(before, S)
  PROVE  Lists(inOrder(S, before), S, before)
<1> DEFINE n == Cardinality(S)
           Below(s) == {t \in S : <<t, s>> \in before}
           rank == [s \in S |-> Cardinality(Below(s))]
<1>1. n \in Nat
  BY FS_CardinalityType
<1>2. ASSUME NEW s \in S
      PROVE  IsFiniteSet(Below(s)) /\ Cardinality(Below(s)) \in Nat
  <2>1. Below(s) \in SUBSET S
    OBVIOUS
  <2> QED
    BY <2>1, FS_Subset, FS_CardinalityType
<1>3. ASSUME NEW s \in S, NEW t \in S, <<s, t>> \in before
      PROVE  rank[s] < rank[t]
  <2>1. s \notin Below(s) /\ Below(s) \cup {s} \in SUBSET Below(t)
    BY <1>3 DEF Orders
  <2>2. IsFiniteSet(Below(s)) /\ IsFiniteSet(Below(t)) /\ Cardinality(Below(s)) \in Nat
    BY <1>2
  <2> HIDE DEF Below
  <2>3. Cardinality(Below(s) \cup {s}) = Cardinality(Below(s)) + 1
    BY <2>1, <2>2, FS_AddElement
  <2>4. Cardinality(Below(s) \cup {s}) <= Cardinality(Below(t))
    BY <2>1, <2>2, FS_Subset
  <2>5. Cardinality(Below(t)) \in Nat
    BY <1>2
  <2> QED
    BY <2>2, <2>3, <2>4, <2>5
<1>4. ASSUME NEW s \in S
      PROVE  rank[s] \in 0..(n - 1)
  <2>1. Below(s) \in SUBSET (S \ {s})
    BY DEF Orders
  <2>2. IsFiniteSet(S \ {s}) /\ Cardinality(S \ {s}) = n - 1
    BY FS_RemoveElement
  <2>3. Cardinality(Below(s)) \in Nat
    BY <1>2
  <2> HIDE DEF Below
  <2>4. Cardinality(Below(s)) <= n - 1
    BY <2>1, <2>2, FS_Subset
  <2> QED
    BY <1>1, <2>3, <2>4
<1>5. rank \in Injection(S, 0..(n - 1))
  <2>1. rank \in [S -> 0..(n - 1)]
    BY <1>4
  <2>2. ASSUME NEW s \in S, NEW t \in S, rank[s] = rank[t]
        PROVE  s = t
    <3>1. ~(rank[s] < rank[t]) /\ ~(rank[t] < rank[s])
      BY <2>1, <2>2, <1>4
    <3> HIDE DEF rank
    <3> QED
      BY <3>1, <1>3 DEF Orders
  <2> HIDE DEF rank
  <2> QED
    BY <2>1, <2>2 DEF Injection, IsInjective
<1>6. rank \in Surjection(S, 0..(n - 1))
  <2>1. IsFiniteSet(0..(n - 1)) /\ Cardinality(0..(n - 1)) = n
    BY <1>1, FS_Interval
  <2> HIDE DEF rank
  <2> QED
    BY <2>1, <1>5, FS_Injection
<1> DEFINE order == inOrder(S, before)
<1>7. ASSUME NEW k \in 1..n
      PROVE  order[k] \in S /\ rank[order[k]] = k - 1
  <2>1. PICK s \in S : rank[s] = k - 1
    <3>1. k - 1 \in 0..(n - 1)
      BY <1>1
    <3> HIDE DEF rank
    <3> QED
      BY <3>1, <1>6 DEF Surjection
  <2>2. \E x \in S : Cardinality({t \in S : <<t, x>> \in before}) = k - 1
    BY <2>1
  <2>3. order[k] = CHOOSE x \in S : Cardinality({t \in S : <<t, x>> \in before}) = k - 1
    BY DEF inOrder
  <2> QED
    BY <2>2, <2>3
<1>8. order \in [1..n -> S]
  <2>1. order = [k \in 1..n |->
                   CHOOSE s \in S : Cardinality({t \in S : <<t, s>> \in before}) = k - 1]
    BY DEF inOrder
  <2> HIDE DEF order
  <2> QED
    BY <2>1, <1>7
<1>9. ASSUME NEW s \in S
      PROVE  \E i \in 1..n : order[i] = s
  <2>1. rank[s] + 1 \in 1..n
    BY <1>4, <1>1
  <2>2. rank[order[rank[s] + 1]] = rank[s]
    <3>1. rank[s] \in 0..(n - 1)
      BY <1>4
    <3> HIDE DEF rank, order
    <3> QED
      BY <2>1, <3>1, <1>7
  <2>3. order[rank[s] + 1] = s
    <3> HIDE DEF rank, order
    <3> QED
      BY <2>1, <2>2, <1>7, <1>5 DEF Injection, IsInjective
  <2> QED
    BY <2>1, <2>3
<1>10. ASSUME NEW i \in 1..n, NEW j \in 1..n, i < j
       PROVE  <<order[i], order[j]>> \in before
  <2>1. order[i] \in S /\ order[j] \in S /\ rank[order[i]] = i - 1 /\ rank[order[j]] = j - 1
    BY <1>7
  <2>2. ~(rank[order[j]] < rank[order[i]]) /\ rank[order[j]] # rank[order[i]]
    BY <2>1, <1>10, <1>1
  <2> HIDE DEF rank, order
  <2> QED
    BY <2>1, <2>2, <1>3 DEF Orders
<1> QED
  BY <1>8, <1>9, <1>10 DEF Lists

(* Tuples of one length that differ in their last component are in order.   *)
LEMMA KeysOrder ==
  ASSUME NEW L \in Nat \ {0}, NEW K, \A k \in K : k \in Seq(Int) /\ Len(k) = L,
         \A k, l \in K : k[L] = l[L] => k = l
  PROVE  Orders({p \in K \X K : Precedes(p[1], p[2])}, K)
<1>1. ASSUME NEW k \in K, NEW l \in K
      PROVE  <<k, l>> \in {p \in K \X K : Precedes(p[1], p[2])} <=> Precedes(k, l)
  OBVIOUS
<1>2. ASSUME NEW k \in K
      PROVE  ~Precedes(k, k)
  BY DEF Precedes
<1>3. ASSUME NEW k \in K, NEW l \in K, k # l
      PROVE  Precedes(k, l) \/ Precedes(l, k)
  <2> DEFINE differ == {i \in 1..L : k[i] # l[i]}
  <2>1. differ \in SUBSET Nat /\ differ # {}
    BY <1>3
  <2>2. PICK i \in differ : \A j \in differ : i <= j
    <3> HIDE DEF differ
    <3> QED
      BY <2>1, LeastMember
  <2>3. i \in 1..L /\ k[i] # l[i] /\ \A j \in 1..(i - 1) : k[j] = l[j]
    BY <2>2
  <2>4. k[i] \in Int /\ l[i] \in Int /\ i \in 1..Len(k) /\ i \in 1..Len(l)
    BY <2>3
  <2>5. CASE k[i] < l[i]
    BY <2>3, <2>4, <2>5 DEF Precedes
  <2>6. CASE l[i] < k[i]
    BY <2>3, <2>4, <2>6 DEF Precedes
  <2> QED
    BY <2>3, <2>4, <2>5, <2>6
<1>4. ASSUME NEW k \in K, NEW l \in K, NEW m \in K, Precedes(k, l), Precedes(l, m)
      PROVE  Precedes(k, m)
  <2>1. PICK i \in 1..L : k[i] < l[i] /\ \A j \in 1..(i - 1) : k[j] = l[j]
    BY <1>4 DEF Precedes
  <2>2. PICK h \in 1..L : l[h] < m[h] /\ \A j \in 1..(h - 1) : l[j] = m[j]
    BY <1>4 DEF Precedes
  <2>3. /\ k[i] \in Int /\ l[i] \in Int /\ m[i] \in Int
        /\ k[h] \in Int /\ l[h] \in Int /\ m[h] \in Int
    OBVIOUS
  <2>4. CASE i <= h
    <3>1. k[i] < m[i]
      <4>1. CASE i = h
        BY <2>1, <2>2, <2>3, <4>1
      <4>2. CASE i < h
        BY <2>1, <2>2, <2>3, <4>2
      <4> QED
        BY <2>4, <4>1, <4>2
    <3>2. \A j \in 1..(i - 1) : k[j] = m[j]
      BY <2>1, <2>2, <2>4
    <3> QED
      BY <3>1, <3>2 DEF Precedes
  <2>5. CASE h < i
    <3>1. k[h] < m[h]
      BY <2>1, <2>2, <2>3, <2>5
    <3>2. \A j \in 1..(h - 1) : k[j] = m[j]
      BY <2>1, <2>2, <2>5
    <3> QED
      BY <3>1, <3>2 DEF Precedes
  <2> QED
    BY <2>4, <2>5
<1> QED
  BY <1>1, <1>2, <1>3, <1>4 DEF Orders

(* order ranks S by key: everyone of it once, and nobody before a better.    *)
Ranks(order, S, key) ==
  /\ order \in [1..Cardinality(S) -> S]
  /\ \A s \in S : \E i \in 1..Cardinality(S) : order[i] = s
  /\ \A i, j \in 1..Cardinality(S) :
       i < j => order[i] # order[j] /\ Precedes(key[order[i]], key[order[j]])

(* Sorting by keys that end in the service's name ranks the services.        *)
LEMMA SortedRanks ==
  ASSUME NEW S, IsFiniteSet(S), NEW L \in Nat \ {0}, NEW key,
         \A s \in S : key[s] \in Seq(Int) /\ Len(key[s]) = L /\ key[s][L] = s,
         NEW keys, keys = {key[s] : s \in S},
         NEW sorted, sorted = inOrder(keys, {p \in keys \X keys : Precedes(p[1], p[2])})
  PROVE  Ranks([i \in DOMAIN sorted |-> Last(sorted[i])], S, key)
<1> DEFINE before == {p \in keys \X keys : Precedes(p[1], p[2])}
           order == [i \in DOMAIN sorted |-> Last(sorted[i])]
<1>1. IsFiniteSet(keys) /\ Cardinality(keys) = Cardinality(S)
  <2> DEFINE f == [s \in S |-> key[s]]
  <2>1. f \in Surjection(S, keys)
    BY DEF Surjection
  <2>2. f \in Injection(S, keys)
    BY DEF Injection, IsInjective
  <2> HIDE DEF f
  <2> QED
    BY <2>1, <2>2, FS_Surjection
<1>2. /\ \A k \in keys : k \in Seq(Int) /\ Len(k) = L
      /\ \A k, l \in keys : k[L] = l[L] => k = l
  OBVIOUS
<1>3. Orders(before, keys)
  BY <1>2, KeysOrder
<1>4. Lists(sorted, keys, before)
  BY <1>1, <1>3, InOrderLists
<1>5. DOMAIN sorted = 1..Cardinality(S)
  BY <1>1, <1>4 DEF Lists
<1>6. ASSUME NEW i \in 1..Cardinality(S)
      PROVE  order[i] \in S /\ sorted[i] = key[order[i]]
  <2>1. PICK s \in S : sorted[i] = key[s]
    <3>1. sorted[i] \in keys
      BY <1>1, <1>4 DEF Lists
    <3> QED
      BY <3>1
  <2>2. order[i] = s
    BY <2>1, <1>5 DEF Last
  <2> QED
    BY <2>1, <2>2
<1>7. order \in [1..Cardinality(S) -> S]
  BY <1>5, <1>6
<1>8. ASSUME NEW s \in S
      PROVE  \E i \in 1..Cardinality(S) : order[i] = s
  <2>1. PICK i \in 1..Cardinality(S) : sorted[i] = key[s]
    BY ZenonT(30), <1>1, <1>4 DEF Lists
  <2>2. order[i] = s
    BY <2>1, <1>5 DEF Last
  <2> QED
    BY <2>2
<1>9. ASSUME NEW i \in 1..Cardinality(S), NEW j \in 1..Cardinality(S), i < j
      PROVE  order[i] # order[j] /\ Precedes(key[order[i]], key[order[j]])
  <2>1. <<sorted[i], sorted[j]>> \in before
    BY <1>1, <1>4, <1>9 DEF Lists
  <2>2. Precedes(sorted[i], sorted[j])
    BY <2>1
  <2>3. sorted[i] # sorted[j]
    BY <2>1, <1>1, <1>3, <1>4 DEF Lists, Orders
  <2>4. sorted[i] = key[order[i]] /\ sorted[j] = key[order[j]]
    BY <1>6
  <2> HIDE DEF order
  <2> QED
    BY <2>2, <2>3, <2>4
<1> QED
  BY <1>7, <1>8, <1>9 DEF Ranks

(* The first of a ranking is before every other.                            *)
LEMMA BestFirst ==
  ASSUME NEW S, IsFiniteSet(S), NEW order, NEW key, Ranks(order, S, key), NEW s \in S
  PROVE  /\ order[1] \in S
         /\ order[1] = s \/ Precedes(key[order[1]], key[s])
<1>1. PICK i \in 1..Cardinality(S) : order[i] = s
  BY DEF Ranks
<1>2. Cardinality(S) \in Nat
  BY FS_CardinalityType
<1>3. 1 \in 1..Cardinality(S)
  BY <1>1, <1>2
<1> QED
  BY <1>1, <1>2, <1>3 DEF Ranks

(* The tuple that precedes is not the worse in the first component where     *)
(* they may differ.                                                          *)
LEMMA NextPart ==
  ASSUME NEW k \in Seq(Int), NEW l \in Seq(Int), Len(k) = Len(l), Precedes(k, l),
         NEW n \in 1..Len(k), \A j \in 1..(n - 1) : k[j] = l[j]
  PROVE  k[n] <= l[n]
<1>1. PICK i \in 1..Len(k) : k[i] < l[i] /\ \A j \in 1..(i - 1) : k[j] = l[j]
  BY DEF Precedes
<1>2. k[n] \in Int /\ l[n] \in Int /\ k[i] \in Int /\ l[i] \in Int
  BY <1>1
<1>3. CASE i = n
  BY <1>1, <1>2, <1>3
<1>4. CASE i < n
  BY <1>1, <1>2, <1>4
<1>5. CASE i > n
  BY <1>1, <1>2, <1>5
<1> QED
  BY <1>1, <1>3, <1>4, <1>5

LEMMA FirstPart ==
  ASSUME NEW k \in Seq(Int), NEW l \in Seq(Int), Len(k) = Len(l), Precedes(k, l)
  PROVE  k[1] <= l[1]
<1>1. 1 \in 1..Len(k) /\ \A j \in 1..(1 - 1) : k[j] = l[j]
  BY DEF Precedes
<1> QED
  BY <1>1, NextPart

(* A set of naturals with a bound has a greatest member. *)
LEMMA GreatestMember ==
  ASSUME NEW S \in SUBSET Nat, S # {}, NEW b \in Nat, \A s \in S : s <= b
  PROVE  Max(S) \in S /\ \A s \in S : s <= Max(S)
<1> DEFINE below == {b - s : s \in S}
<1>1. below \in SUBSET Nat /\ below # {}
  <2>1. \A s \in S : b - s \in Nat
    OBVIOUS
  <2> QED
    BY <2>1
<1>2. PICK i \in below : \A j \in below : i <= j
  <2> HIDE DEF below
  <2> QED
    BY <1>1, LeastMember
<1>3. PICK m \in S : i = b - m
  BY <1>2
<1>4. \A s \in S : m >= s
  <2> TAKE s \in S
  <2>1. b - m <= b - s
    BY <1>2, <1>3
  <2> QED
    BY <2>1
<1>5. \E x \in S : \A y \in S : x >= y
  BY <1>4
<1>6. /\ Max(S) \in S
      /\ \A s \in S : Max(S) >= s
  BY <1>5, Zenon DEF Max
<1> QED
  BY <1>6

(* A set of naturals has a least member. *)
LEMMA LeastIsMin ==
  ASSUME NEW S \in SUBSET Nat, S # {}
  PROVE  Min(S) \in S /\ \A s \in S : Min(S) <= s
<1>1. \E x \in S : \A y \in S : x <= y
  BY LeastMember
<1> QED
  BY <1>1, Zenon DEF Min
-----------------------------------------------------------------------------
(* What an investigation never changes: the graph and its effects.          *)
Static ==
  /\ edges \subseteq Pairs
  /\ effects \in [Services -> [FamilySet -> 0..(ZMin + 4)]]

LEMMA NodesFinite ==
  ASSUME Static
  PROVE  Nodes \subseteq Services /\ IsFiniteSet(Nodes) /\ Cardinality(Nodes) \in Nat
<1>1. Nodes \subseteq Services
  BY DEF Static, Nodes, Pairs
<1>2. IsFiniteSet(Services)
  BY RankAssumption, FS_Interval DEF Services
<1> QED
  BY <1>1, <1>2, FS_Subset, FS_CardinalityType

LEMMA ZTyped ==
  ASSUME Static, NEW s \in Services, NEW fam \in FamilySet
  PROVE  Z(s, fam) \in 0..(ZMin + 4)
BY DEF Static, Z

LEMMA MaxZTop ==
  ASSUME Static, NEW s \in Services
  PROVE  /\ MaxZ(s) \in 0..(ZMin + 4)
         /\ \A fam \in FamilySet : Z(s, fam) <= MaxZ(s)
         /\ \E fam \in FamilySet : Z(s, fam) = MaxZ(s)
<1> DEFINE zs == {Z(s, fam) : fam \in FamilySet}
<1>1. zs \in SUBSET Nat /\ zs # {} /\ \A z \in zs : z <= ZMin + 4 /\ ZMin + 4 \in Nat
  BY ZTyped, RankAssumption DEF FamilySet
<1>2. Max(zs) \in zs /\ \A z \in zs : z <= Max(zs)
  <2> HIDE DEF zs
  <2> QED
    BY <1>1, GreatestMember
<1>3. MaxZ(s) = Max(zs)
  BY DEF MaxZ
<1> QED
  BY <1>2, <1>3, ZTyped

LEMMA FirstFamilyPeaks ==
  ASSUME Static, NEW s \in Services
  PROVE  FirstFamily(s) \in FamilySet /\ Z(s, FirstFamily(s)) = MaxZ(s)
<1> DEFINE peaks == {i \in 1..3 : Z(s, Families[i]) = MaxZ(s)}
<1>1. peaks \in SUBSET Nat /\ peaks # {}
  BY MaxZTop DEF FamilySet, Families
<1>2. Min(peaks) \in peaks
  <2> HIDE DEF peaks
  <2> QED
    BY <1>1, LeastIsMin
<1>3. FirstFamily(s) = Families[Min(peaks)]
  BY DEF FirstFamily
<1> QED
  BY <1>2, <1>3 DEF Families, FamilySet

LEMMA TopZTop ==
  ASSUME Static, Nodes # {}
  PROVE  /\ TopZ \in 0..(ZMin + 4)
         /\ \A s \in Nodes : MaxZ(s) <= TopZ
         /\ \E s \in Nodes : MaxZ(s) = TopZ
<1> DEFINE zs == {MaxZ(s) : s \in Nodes}
<1>1. zs \in SUBSET Nat /\ zs # {} /\ \A z \in zs : z <= ZMin + 4 /\ ZMin + 4 \in Nat
  BY MaxZTop, NodesFinite, RankAssumption
<1>2. Max(zs) \in zs /\ \A z \in zs : z <= Max(zs)
  <2> HIDE DEF zs
  <2> QED
    BY <1>1, GreatestMember
<1>3. TopZ = Max(zs)
  BY DEF TopZ
<1> QED
  BY <1>2, <1>3, MaxZTop, NodesFinite

LEMMA MassTyped ==
  ASSUME Static, NEW S \in SUBSET Services, NEW T \in SUBSET S
  PROVE  Mass(S) \in Nat /\ Mass(T) \in Nat /\ Mass(T) <= Mass(S)
<1> DEFINE Points(W) == UNION {{s} \X (1..Z(s, "latency")) : s \in W}
           all == Services \X (1..(ZMin + 4))
<1>1. IsFiniteSet(all)
  <2>1. IsFiniteSet(Services) /\ IsFiniteSet(1..(ZMin + 4))
    BY RankAssumption, FS_Interval DEF Services
  <2> QED
    BY <2>1, FS_Product
<1>2. Points(S) \in SUBSET all
  BY ZTyped, RankAssumption DEF FamilySet
<1>3. Points(T) \in SUBSET Points(S)
  OBVIOUS
<1>4. Mass(S) = Cardinality(Points(S)) /\ Mass(T) = Cardinality(Points(T))
  BY DEF Mass
<1> HIDE DEF Points, all
<1> QED
  BY <1>1, <1>2, <1>3, <1>4, FS_Subset, FS_CardinalityType

LEMMA CoverTyped ==
  ASSUME Static, NEW s \in Nodes
  PROVE  Cover(s) \in Nat /\ Cover(s) <= Mass(Stepped("latency"))
<1>1. Stepped("latency") \in SUBSET Services
  BY NodesFinite DEF Stepped
<1>2. Stepped("latency") \cap ({s} \cup Callees(s) \cup Callers(s)) \in SUBSET Stepped("latency")
  OBVIOUS
<1> QED
  BY <1>1, <1>2, MassTyped DEF Cover

LEMMA FlagTyped == \A p : Flag(p) \in {0, 1}
BY DEF Flag

LEMMA QuietKeyTyped ==
  ASSUME Static, NEW s \in Nodes
  PROVE  QuietKey(s) \in Seq(Int) /\ Len(QuietKey(s)) = 3 /\ QuietKey(s)[3] = s
<1>1. s \in Int /\ MaxZ(s) \in Int /\ Flag(s \notin Demoted) \in Int
  BY NodesFinite, MaxZTop, FlagTyped DEF Services
<1> QED
  BY <1>1 DEF QuietKey

LEMMA QuietRanks ==
  ASSUME Static
  PROVE  Ranks(SortedBy({QuietKey(s) : s \in Nodes}), Nodes, [s \in Nodes |-> QuietKey(s)])
<1> DEFINE key == [s \in Nodes |-> QuietKey(s)]
           keys == {QuietKey(s) : s \in Nodes}
           sorted == inOrder(keys, {p \in keys \X keys : Precedes(p[1], p[2])})
<1>1. \A s \in Nodes : key[s] \in Seq(Int) /\ Len(key[s]) = 3 /\ key[s][3] = s
  BY QuietKeyTyped
<1>2. keys = {key[s] : s \in Nodes}
  OBVIOUS
<1>3. SortedBy({QuietKey(s) : s \in Nodes}) = [i \in DOMAIN sorted |-> Last(sorted[i])]
  BY DEF SortedBy
<1>4. sorted = inOrder(keys, {p \in keys \X keys : Precedes(p[1], p[2])})
  OBVIOUS
<1>5. 3 \in Nat \ {0}
  OBVIOUS
<1>6. Ranks([i \in DOMAIN sorted |-> Last(sorted[i])], Nodes, key)
  <2> HIDE DEF key, keys, sorted
  <2> QED
    BY ZenonT(30), <1>1, <1>2, <1>4, <1>5, NodesFinite, SortedRanks
<1> QED
  BY <1>3, <1>6

LEMMA ResourceKeyTyped ==
  ASSUME Static, NEW s \in Nodes
  PROVE  ResourceKey(s) \in Seq(Int) /\ Len(ResourceKey(s)) = 4 /\ ResourceKey(s)[4] = s
<1>1. s \in Int /\ MaxZ(s) \in Int /\ Flag(s \notin Synthetic) \in Int
  BY NodesFinite, MaxZTop, FlagTyped DEF Services
<1>2. Z(s, "resource") \in Int
  BY NodesFinite, ZTyped DEF FamilySet
<1> QED
  BY <1>1, <1>2 DEF ResourceKey

LEMMA ResourceRanks ==
  ASSUME Static
  PROVE  Ranks(SortedBy({ResourceKey(s) : s \in Nodes}), Nodes, [s \in Nodes |-> ResourceKey(s)])
<1> DEFINE key == [s \in Nodes |-> ResourceKey(s)]
           keys == {ResourceKey(s) : s \in Nodes}
           sorted == inOrder(keys, {p \in keys \X keys : Precedes(p[1], p[2])})
<1>1. \A s \in Nodes : key[s] \in Seq(Int) /\ Len(key[s]) = 4 /\ key[s][4] = s
  BY ResourceKeyTyped
<1>2. keys = {key[s] : s \in Nodes}
  OBVIOUS
<1>3. SortedBy({ResourceKey(s) : s \in Nodes}) = [i \in DOMAIN sorted |-> Last(sorted[i])]
  BY DEF SortedBy
<1>4. sorted = inOrder(keys, {p \in keys \X keys : Precedes(p[1], p[2])})
  OBVIOUS
<1>5. 4 \in Nat \ {0}
  OBVIOUS
<1>6. Ranks([i \in DOMAIN sorted |-> Last(sorted[i])], Nodes, key)
  <2> HIDE DEF key, keys, sorted
  <2> QED
    BY ZenonT(30), <1>1, <1>2, <1>4, <1>5, NodesFinite, SortedRanks
<1> QED
  BY <1>3, <1>6

LEMMA LatencyKeyTyped ==
  ASSUME Static, NEW s \in Nodes
  PROVE  LatencyKey(s) \in Seq(Int) /\ Len(LatencyKey(s)) = 6 /\ LatencyKey(s)[6] = s
<1>1. s \in Int /\ MaxZ(s) \in Int /\ Cover(s) \in Int
  BY NodesFinite, MaxZTop, CoverTyped DEF Services
<1>2. /\ Flag(s \in Stepped("latency")) \in Int
      /\ Flag(NearBest(s)) \in Int
      /\ Flag(s \notin Demoted) \in Int
  BY FlagTyped
<1> QED
  BY <1>1, <1>2 DEF LatencyKey

LEMMA LatencyRanks ==
  ASSUME Static
  PROVE  Ranks(SortedBy({LatencyKey(s) : s \in Nodes}), Nodes, [s \in Nodes |-> LatencyKey(s)])
<1> DEFINE key == [s \in Nodes |-> LatencyKey(s)]
           keys == {LatencyKey(s) : s \in Nodes}
           sorted == inOrder(keys, {p \in keys \X keys : Precedes(p[1], p[2])})
<1>1. \A s \in Nodes : key[s] \in Seq(Int) /\ Len(key[s]) = 6 /\ key[s][6] = s
  BY LatencyKeyTyped
<1>2. keys = {key[s] : s \in Nodes}
  OBVIOUS
<1>3. SortedBy({LatencyKey(s) : s \in Nodes}) = [i \in DOMAIN sorted |-> Last(sorted[i])]
  BY DEF SortedBy
<1>4. sorted = inOrder(keys, {p \in keys \X keys : Precedes(p[1], p[2])})
  OBVIOUS
<1>5. 6 \in Nat \ {0}
  OBVIOUS
<1>6. Ranks([i \in DOMAIN sorted |-> Last(sorted[i])], Nodes, key)
  <2> HIDE DEF key, keys, sorted
  <2> QED
    BY ZenonT(30), <1>1, <1>2, <1>4, <1>5, NodesFinite, SortedRanks
<1> HIDE DEF sorted
<1> QED
  BY <1>3, <1>6

LEMMA ErrorKeyTyped ==
  ASSUME Static, NEW s \in Nodes
  PROVE  ErrorKey(s) \in Seq(Int) /\ Len(ErrorKey(s)) = 5 /\ ErrorKey(s)[5] = s
<1>1. s \in Int /\ Z(s, "error") \in Int
  BY NodesFinite, ZTyped DEF Services, FamilySet
<1>2. /\ Flag(s \in Stepped("error")) \in Int
      /\ Flag(s \in Stepped("error") /\ Callees(s) \cap Stepped("error") = {}) \in Int
      /\ Flag(s \notin Demoted) \in Int
  BY FlagTyped
<1> QED
  BY <1>1, <1>2 DEF ErrorKey

LEMMA ErrorRanks ==
  ASSUME Static
  PROVE  Ranks(SortedBy({ErrorKey(s) : s \in Nodes}), Nodes, [s \in Nodes |-> ErrorKey(s)])
<1> DEFINE key == [s \in Nodes |-> ErrorKey(s)]
           keys == {ErrorKey(s) : s \in Nodes}
           sorted == inOrder(keys, {p \in keys \X keys : Precedes(p[1], p[2])})
<1>1. \A s \in Nodes : key[s] \in Seq(Int) /\ Len(key[s]) = 5 /\ key[s][5] = s
  BY ErrorKeyTyped
<1>2. keys = {key[s] : s \in Nodes}
  OBVIOUS
<1>3. SortedBy({ErrorKey(s) : s \in Nodes}) = [i \in DOMAIN sorted |-> Last(sorted[i])]
  BY DEF SortedBy
<1>4. sorted = inOrder(keys, {p \in keys \X keys : Precedes(p[1], p[2])})
  OBVIOUS
<1>5. 5 \in Nat \ {0}
  OBVIOUS
<1>6. Ranks([i \in DOMAIN sorted |-> Last(sorted[i])], Nodes, key)
  <2> HIDE DEF key, keys, sorted
  <2> QED
    BY ZenonT(30), <1>1, <1>2, <1>4, <1>5, NodesFinite, SortedRanks
<1> HIDE DEF sorted
<1> QED
  BY <1>3, <1>6
-----------------------------------------------------------------------------
(* What is kept of a sequence stands in its order, at places p of it.       *)
Places(order, S) == {i \in 1..Len(order) : order[i] \in S}
Earlier(P) == {e \in P \X P : e[1] < e[2]}

LEMMA KeptPlaces ==
  ASSUME NEW T, NEW order \in Seq(T), NEW S
  PROVE  \E p : /\ Lists(p, Places(order, S), Earlier(Places(order, S)))
                /\ Cardinality(Places(order, S)) \in Nat
                /\ Kept(order, S) = [k \in 1..Cardinality(Places(order, S)) |-> order[p[k]]]
<1> DEFINE P == Places(order, S)
           p == inOrder(P, Earlier(P))
<1>1. P \subseteq 1..Len(order) /\ Len(order) \in Nat
  BY DEF Places
<1>2. IsFiniteSet(P) /\ Cardinality(P) \in Nat
  <2>1. IsFiniteSet(1..Len(order))
    BY <1>1, FS_Interval
  <2> HIDE DEF P
  <2> QED
    BY <1>1, <2>1, FS_Subset, FS_CardinalityType
<1>3. Orders(Earlier(P), P)
  <2>1. \A i \in P : i \in Int
    BY <1>1
  <2> HIDE DEF P
  <2> QED
    BY <2>1 DEF Orders, Earlier
<1>4. Lists(p, P, Earlier(P))
  <2> HIDE DEF P
  <2> QED
    BY <1>2, <1>3, InOrderLists
<1>5. ASSUME NEW i \in P
      PROVE  {j \in P : <<j, i>> \in Earlier(P)} = {j \in P : j < i}
  BY DEF Earlier
<1>6. ASSUME NEW k \in 1..Cardinality(P)
      PROVE  p[k] = CHOOSE i \in P : Cardinality({j \in P : j < i}) = k - 1
  <2>1. p[k] = CHOOSE i \in P : Cardinality({j \in P : <<j, i>> \in Earlier(P)}) = k - 1
    BY DEF inOrder
  <2>2. \A i \in P : Cardinality({j \in P : <<j, i>> \in Earlier(P)}) = k - 1
                     <=> Cardinality({j \in P : j < i}) = k - 1
    BY <1>5
  <2> HIDE DEF P, p
  <2> QED
    BY <2>1, <2>2
<1>7. Kept(order, S) = [k \in 1..Cardinality(P) |-> order[p[k]]]
  <2>1. Kept(order, S) = [k \in 1..Cardinality(P) |->
                            order[CHOOSE i \in P : Cardinality({j \in P : j < i}) = k - 1]]
    BY DEF Kept, Places
  <2> HIDE DEF P, p
  <2> QED
    BY <1>6, <2>1
<1> QED
  <2> HIDE DEF p
  <2> QED
    BY <1>2, <1>4, <1>7

LEMMA KeptKeeps ==
  ASSUME NEW T, NEW order \in Seq(T), NEW S
  PROVE  /\ Kept(order, S) \in Seq(T)
         /\ ToSet(Kept(order, S)) = ToSet(order) \cap S
         /\ IsInjective(order) => IsInjective(Kept(order, S))
<1> DEFINE P == Places(order, S)
           n == Cardinality(P)
           kept == Kept(order, S)
<1>1. PICK p : /\ Lists(p, P, Earlier(P))
               /\ n \in Nat
               /\ kept = [k \in 1..n |-> order[p[k]]]
  <2>1. \E p : /\ Lists(p, Places(order, S), Earlier(Places(order, S)))
               /\ Cardinality(Places(order, S)) \in Nat
               /\ Kept(order, S) = [k \in 1..Cardinality(Places(order, S)) |-> order[p[k]]]
    BY KeptPlaces
  <2> QED
    BY <2>1, Zenon
<1>2. \A i \in P : i \in 1..Len(order) /\ order[i] \in S
  BY DEF Places
<1>3. \A k \in 1..n : p[k] \in P
  BY <1>1 DEF Lists
<1>4. kept \in Seq(T)
  <2>1. \A k \in 1..n : order[p[k]] \in T
    BY <1>2, <1>3
  <2> HIDE DEF P, kept
  <2>2. kept \in [1..n -> T]
    BY <1>1, <2>1
  <2> QED
    BY <1>1, <2>2, SeqDef
<1>5. ToSet(kept) = ToSet(order) \cap S
  <2>1. DOMAIN kept = 1..n /\ DOMAIN order = 1..Len(order)
    BY <1>1
  <2>2. ASSUME NEW x \in ToSet(kept)
        PROVE  x \in ToSet(order) \cap S
    <3>1. PICK k \in 1..n : x = order[p[k]]
      BY <1>1, <2>1 DEF ToSet
    <3> QED
      BY <1>2, <1>3, <2>1, <3>1 DEF ToSet
  <2>3. ASSUME NEW x \in ToSet(order) \cap S
        PROVE  x \in ToSet(kept)
    <3>1. PICK i \in 1..Len(order) : x = order[i]
      BY <2>1 DEF ToSet
    <3>2. i \in P
      BY <3>1 DEF Places
    <3>3. PICK k \in 1..n : p[k] = i
      BY <1>1, <3>2 DEF Lists
    <3>4. kept[k] = x
      BY <1>1, <3>1, <3>3
    <3> QED
      BY <2>1, <3>4 DEF ToSet
  <2> QED
    BY <2>2, <2>3
<1>6. ASSUME IsInjective(order)
      PROVE  IsInjective(kept)
  <2>1. ASSUME NEW k \in 1..n, NEW l \in 1..n, k < l
        PROVE  kept[k] # kept[l]
    <3>1. p[k] \in 1..Len(order) /\ p[l] \in 1..Len(order) /\ p[k] < p[l]
      BY <1>1, <1>2, <1>3, <2>1 DEF Lists, Earlier
    <3>2. order[p[k]] # order[p[l]]
      BY <1>6, <3>1 DEF IsInjective
    <3> QED
      BY <1>1, <3>2
  <2>2. DOMAIN kept = 1..n
    BY <1>1
  <2> HIDE DEF kept
  <2> QED
    BY <1>1, <2>1, <2>2 DEF IsInjective
<1> QED
  BY <1>4, <1>5, <1>6

(* A sequence of all services, each of them once. *)
Whole(order) ==
  /\ order \in Seq(Nodes)
  /\ IsInjective(order)
  /\ ToSet(order) = Nodes

LEMMA RanksWhole ==
  ASSUME Static, NEW order, NEW key, Ranks(order, Nodes, key)
  PROVE  Whole(order)
<1> DEFINE n == Cardinality(Nodes)
<1>1. n \in Nat /\ order \in [1..n -> Nodes]
  BY NodesFinite DEF Ranks
<1>2. order \in Seq(Nodes)
  BY <1>1, SeqDef
<1>3. IsInjective(order)
  BY <1>1 DEF Ranks, IsInjective
<1>4. ToSet(order) = Nodes
  BY <1>1 DEF Ranks, ToSet
<1> QED
  BY <1>2, <1>3, <1>4 DEF Whole

(* One service moved to the front. *)
LEMMA MovedWhole ==
  ASSUME NEW order, Whole(order), NEW c \in Nodes
  PROVE  Whole(<<c>> \o Kept(order, Nodes \ {c})) /\ Head(<<c>> \o Kept(order, Nodes \ {c})) = c
<1> DEFINE rest == Kept(order, Nodes \ {c})
           r == <<c>> \o rest
<1>1. /\ rest \in Seq(Nodes) /\ IsInjective(rest)
      /\ ToSet(rest) = Nodes \ {c}
  <2>1. order \in Seq(Nodes) /\ IsInjective(order) /\ ToSet(order) = Nodes
    BY DEF Whole
  <2>2. Nodes \cap (Nodes \ {c}) = Nodes \ {c}
    OBVIOUS
  <2> QED
    BY <2>1, <2>2, KeptKeeps
<1> HIDE DEF rest
<1>2. /\ r \in Seq(Nodes) /\ Len(r) = Len(rest) + 1 /\ r[1] = c
      /\ \A i \in 1..Len(rest) : r[i + 1] = rest[i]
  BY <1>1
<1>3. \A i \in 2..Len(r) : r[i] = rest[i - 1] /\ i - 1 \in 1..Len(rest)
  BY <1>1
<1>4. \A i \in 1..Len(rest) : rest[i] \in Nodes \ {c}
  BY <1>1 DEF ToSet
<1> HIDE DEF r
<1>5. DOMAIN r = 1..Len(r) /\ DOMAIN rest = 1..Len(rest) /\ Len(rest) \in Nat
  BY <1>1, <1>2
<1>6. IsInjective(r)
  <2>1. ASSUME NEW i \in 1..Len(r), NEW j \in 1..Len(r), i # j
        PROVE  r[i] # r[j]
    <3>1. CASE i = 1
      BY <1>2, <1>3, <1>4, <1>5, <2>1, <3>1
    <3>2. CASE j = 1
      BY <1>2, <1>3, <1>4, <1>5, <2>1, <3>2
    <3>3. CASE i # 1 /\ j # 1
      <4>1. i \in 2..Len(r) /\ j \in 2..Len(r)
        BY <3>3
      <4>2. i - 1 # j - 1
        BY <2>1
      <4> QED
        BY <4>1, <4>2, <1>1, <1>3, <1>5 DEF IsInjective
    <3> QED
      BY <3>1, <3>2, <3>3
  <2> QED
    BY <1>5, <2>1 DEF IsInjective
<1>7. ToSet(r) = Nodes
  <2>1. ASSUME NEW s \in Nodes
        PROVE  s \in ToSet(r)
    <3>1. CASE s = c
      BY <1>2, <1>5, <3>1 DEF ToSet
    <3>2. CASE s # c
      <4>1. PICK i \in 1..Len(rest) : rest[i] = s
        BY <1>1, <1>5, <3>2 DEF ToSet
      <4>2. r[i + 1] = s /\ i + 1 \in 1..Len(r)
        BY <1>2, <1>5, <4>1
      <4> QED
        BY <1>5, <4>2 DEF ToSet
    <3> QED
      BY <3>1, <3>2
  <2>2. ToSet(r) \subseteq Nodes
    BY <1>2, <1>5 DEF ToSet
  <2> QED
    BY <2>1, <2>2
<1>8. Head(r) = c
  BY <1>2
<1> QED
  BY <1>2, <1>6, <1>7, <1>8 DEF Whole, r, rest

LEMMA WholeHead ==
  ASSUME NEW order, Whole(order), Nodes # {}
  PROVE  Len(order) \in Nat /\ 1 \in 1..Len(order) /\ Head(order) = order[1] /\ order[1] \in Nodes
<1>1. order \in Seq(Nodes) /\ ToSet(order) = Nodes
  BY DEF Whole
<1>2. order # <<>>
  BY <1>1 DEF ToSet
<1> QED
  BY <1>1, <1>2

LEMMA TransitIsZ ==
  ASSUME Static, NEW s \in Services
  PROVE  /\ Transit(s) \in Nat
         /\ Transit(s) <= MaxZ(s)
         /\ Transit(s) >= Z(s, "latency") /\ Transit(s) >= Z(s, "resource")
         /\ Transit(s) = Z(s, "latency") \/ Transit(s) = Z(s, "resource")
<1> DEFINE zs == {Z(s, "latency"), Z(s, "resource")}
<1>1. /\ Z(s, "latency") \in 0..(ZMin + 4) /\ Z(s, "resource") \in 0..(ZMin + 4)
      /\ MaxZ(s) \in Nat /\ Z(s, "latency") <= MaxZ(s) /\ Z(s, "resource") <= MaxZ(s)
  BY ZTyped, MaxZTop DEF FamilySet
<1>2. zs \in SUBSET Nat /\ zs # {} /\ \A z \in zs : z <= ZMin + 4 /\ ZMin + 4 \in Nat
  BY <1>1, RankAssumption
<1>3. Max(zs) \in zs /\ \A z \in zs : z <= Max(zs)
  <2> HIDE DEF zs
  <2> QED
    BY <1>2, GreatestMember
<1>4. Transit(s) = Max(zs)
  BY DEF Transit
<1> QED
  BY <1>1, <1>3, <1>4

(* The callees in distress of the service that was found deepest. *)
Lossy(s) == {c \in Callees(s) \ Stepped("error") : Transit(c) >= ZMin}

LEMMA DescendedWhole ==
  ASSUME Static, Nodes # {}, NEW order, Whole(order), NEW r \in Descended(order)
  PROVE  /\ Whole(r)
         /\ \/ /\ Head(r) = order[1]
               /\ order[1] \notin Stepped("error") \/ Lossy(order[1]) = {}
            \/ Head(r) \in Lossy(order[1]) /\ order[1] \in Stepped("error")
<1> DEFINE deepest == Head(order)
           lossy == {c \in Callees(deepest) \ Stepped("error") : Transit(c) >= ZMin}
           worst == {c \in lossy : \A d \in lossy : Transit(d) <= Transit(c)}
<1>1. Descended(order) = IF deepest \in Stepped("error") /\ lossy # {}
                           THEN {<<c>> \o Kept(order, Nodes \ {c}) : c \in worst}
                           ELSE {order}
  BY DEF Descended
<1>2. deepest = order[1] /\ lossy = Lossy(order[1])
  BY WholeHead DEF Lossy
<1>3. lossy \subseteq Nodes
  BY DEF Callees, Nodes
<1>4. CASE deepest \in Stepped("error") /\ lossy # {}
  <2>1. PICK c \in lossy : r = <<c>> \o Kept(order, Nodes \ {c})
    <3> HIDE DEF lossy, deepest
    <3> QED
      BY <1>1, <1>4
  <2>2. Whole(r) /\ Head(r) = c
    BY <1>3, <2>1, MovedWhole
  <2> QED
    BY <1>2, <1>4, <2>1, <2>2
<1>5. CASE ~(deepest \in Stepped("error") /\ lossy # {})
  <2>1. r = order
    <3> HIDE DEF lossy, deepest
    <3> QED
      BY <1>1, <1>5
  <2> QED
    BY <1>2, <1>5, <2>1
<1> QED
  BY <1>4, <1>5

LEMMA SomeNode ==
  ASSUME edges # {}, Static
  PROVE  Nodes # {}
<1>1. PICK e \in edges : TRUE
  OBVIOUS
<1>2. e[1] \in Nodes
  BY DEF Nodes
<1> QED
  BY <1>2

(* Where the families agree on who is first: nobody has stepped more in the  *)
(* dominant one, and the dominant one did step where anything did.           *)
LEMMA DominantStepped ==
  ASSUME Static, Nodes # {}, NEW fam \in Dominants
  PROVE  /\ fam \in FamilySet
         /\ \E s \in Nodes : Z(s, fam) = TopZ /\ FirstFamily(s) = fam /\ MaxZ(s) = TopZ
<1>1. PICK s \in Nodes : fam = FirstFamily(s) /\ MaxZ(s) = TopZ
  BY DEF Dominants
<1> QED
  BY <1>1, NodesFinite, FirstFamilyPeaks

LEMMA ResourceFirst ==
  ASSUME Static, NEW h \in Nodes, NEW s \in Nodes,
         h = s \/ Precedes(ResourceKey(h), ResourceKey(s))
  PROVE  Z(h, "resource") >= Z(s, "resource")
<1>1. Z(h, "resource") \in Int /\ Z(s, "resource") \in Int
  BY NodesFinite, ZTyped DEF FamilySet
<1>2. CASE Precedes(ResourceKey(h), ResourceKey(s))
  <2>1. ResourceKey(h)[1] <= ResourceKey(s)[1]
    BY <1>2, ResourceKeyTyped, FirstPart
  <2>2. \A t : ResourceKey(t)[1] = -Z(t, "resource")
    BY DEF ResourceKey
  <2> QED
    BY <1>1, <2>1, <2>2
<1> QED
  BY <1>1, <1>2

(* Rules that put what has stepped first do so. *)
LEMMA FirstByLatency ==
  ASSUME Static, NEW order, NEW key, key = [t \in Nodes |-> LatencyKey(t)],
         Ranks(order, Nodes, key), NEW s \in Stepped("latency")
  PROVE  order[1] \in Stepped("latency")
<1>1. s \in Nodes
  BY DEF Stepped
<1>2. order[1] \in Nodes /\ (order[1] = s \/ Precedes(key[order[1]], key[s]))
  BY <1>1, NodesFinite, BestFirst
<1>3. CASE Precedes(LatencyKey(order[1]), LatencyKey(s))
  <2>1. LatencyKey(order[1])[1] <= LatencyKey(s)[1]
    BY <1>1, <1>2, <1>3, LatencyKeyTyped, FirstPart
  <2>2. \A t : LatencyKey(t)[1] = Flag(t \in Stepped("latency"))
    BY DEF LatencyKey
  <2>3. Flag(order[1] \in Stepped("latency")) <= Flag(s \in Stepped("latency"))
    BY <2>1, <2>2
  <2> QED
    BY <2>3 DEF Flag
<1> QED
  BY <1>1, <1>2, <1>3

LEMMA FirstByError ==
  ASSUME Static, NEW order, NEW key, key = [t \in Nodes |-> ErrorKey(t)],
         Ranks(order, Nodes, key), NEW s \in Stepped("error")
  PROVE  order[1] \in Stepped("error")
<1>1. s \in Nodes
  BY DEF Stepped
<1>2. order[1] \in Nodes /\ (order[1] = s \/ Precedes(key[order[1]], key[s]))
  BY <1>1, NodesFinite, BestFirst
<1>3. CASE Precedes(ErrorKey(order[1]), ErrorKey(s))
  <2>1. ErrorKey(order[1])[1] <= ErrorKey(s)[1]
    BY <1>1, <1>2, <1>3, ErrorKeyTyped, FirstPart
  <2>2. \A t : ErrorKey(t)[1] = Flag(t \in Stepped("error"))
    BY DEF ErrorKey
  <2>3. Flag(order[1] \in Stepped("error")) <= Flag(s \in Stepped("error"))
    BY <2>1, <2>2
  <2> QED
    BY <2>3 DEF Flag
<1> QED
  BY <1>1, <1>2, <1>3

LEMMA RankingsWhole ==
  ASSUME Static, Nodes # {}, NEW r \in Rankings
  PROVE  Whole(r) /\ (Anomalous # {} => Head(r) \in Anomalous)
<1>1. IsFiniteSet(Nodes) /\ Nodes \subseteq Services
  BY NodesFinite
<1>2. Anomalous # {} => ~(TopZ < ZMin)
  BY <1>1, TopZTop, MaxZTop, RankAssumption DEF Anomalous
<1>3. CASE TopZ < ZMin
  <2>1. r = SortedBy({QuietKey(s) : s \in Nodes})
    BY <1>3 DEF Rankings
  <2> QED
    BY <1>2, <1>3, <2>1, QuietRanks, RanksWhole
<1>4. CASE ~(TopZ < ZMin)
  <2>1. PICK fam \in Dominants : r \in RankBy(fam)
    BY <1>4 DEF Rankings
  <2>2. fam \in FamilySet
    BY <2>1, DominantStepped
  <2>3. PICK s \in Nodes : Z(s, fam) = TopZ /\ FirstFamily(s) = fam /\ MaxZ(s) = TopZ
    BY <2>1, DominantStepped
  <2>4. Z(s, fam) >= ZMin
    BY <1>4, <2>3, TopZTop, RankAssumption
  <2>5. ASSUME NEW h \in Nodes, NEW f \in FamilySet, Z(h, f) >= ZMin
        PROVE  h \in Anomalous
    BY <1>1, <2>5, MaxZTop, ZTyped, RankAssumption DEF Anomalous
  <2>6. CASE fam = "resource"
    <3> DEFINE key == [t \in Nodes |-> ResourceKey(t)]
    <3>1. r = SortedBy({ResourceKey(t) : t \in Nodes})
      BY <2>1, <2>6 DEF RankBy
    <3>2. Ranks(r, Nodes, key)
      BY <3>1, ResourceRanks
    <3>3. Whole(r)
      BY <3>2, RanksWhole
    <3>4. r[1] \in Nodes /\ (r[1] = s \/ Precedes(ResourceKey(r[1]), ResourceKey(s)))
      BY <1>1, <3>2, BestFirst
    <3>5. Z(r[1], "resource") >= Z(s, "resource")
      BY <2>3, <3>4, ResourceFirst
    <3>6. Z(r[1], "resource") \in Int /\ Z(s, "resource") \in Int
      BY <1>1, <3>4, ZTyped DEF FamilySet
    <3>7. r[1] \in Anomalous
      BY <2>4, <2>5, <2>6, <3>4, <3>5, <3>6, RankAssumption DEF FamilySet
    <3> QED
      BY <3>3, <3>7, WholeHead
  <2>7. CASE fam = "latency"
    <3>1. r = SortedBy({LatencyKey(t) : t \in Nodes})
      BY <2>1, <2>7 DEF RankBy
    <3>2. Ranks(r, Nodes, [t \in Nodes |-> LatencyKey(t)])
      BY <3>1, LatencyRanks
    <3>3. Whole(r)
      BY <3>2, RanksWhole
    <3>4. r[1] \in Stepped("latency")
      BY <1>1, <2>4, <2>7, <3>2, FirstByLatency DEF Stepped
    <3> QED
      BY <3>3, <3>4, <2>5, WholeHead DEF Stepped, FamilySet
  <2>8. CASE fam = "error"
    <3> DEFINE order == SortedBy({ErrorKey(t) : t \in Nodes})
    <3>1. Ranks(order, Nodes, [t \in Nodes |-> ErrorKey(t)])
      BY ErrorRanks
    <3>2. r \in Descended(order)
      BY <2>1, <2>8 DEF RankBy
    <3>3. order[1] \in Stepped("error")
      BY <2>4, <2>8, <3>1, FirstByError DEF Stepped
    <3>4. Whole(order)
      BY <3>1, RanksWhole
    <3> HIDE DEF order
    <3>5. Whole(r) /\ (Head(r) = order[1] \/ Head(r) \in Lossy(order[1]))
      BY <3>2, <3>4, DescendedWhole
    <3>6. CASE Head(r) = order[1]
      BY <3>3, <3>5, <3>6, <2>5 DEF Stepped, FamilySet
    <3>7. CASE Head(r) \in Lossy(order[1])
      <4>1. Head(r) \in Nodes /\ Transit(Head(r)) >= ZMin
        BY <3>7 DEF Lossy, Callees, Nodes
      <4>2. MaxZ(Head(r)) >= ZMin
        BY <1>1, <4>1, TransitIsZ, MaxZTop, RankAssumption
      <4> QED
        BY <3>5, <4>1, <4>2 DEF Anomalous
    <3> QED
      BY <3>5, <3>6, <3>7
  <2> QED
    BY <2>2, <2>6, <2>7, <2>8 DEF FamilySet
<1> QED
  BY <1>3, <1>4
-----------------------------------------------------------------------------
LEMMA EffectsTyped ==
  ASSUME NEW G \in Graphs, NEW k \in Kinds, NEW o \in Services, NEW e \in EffectsOf(k, G, o)
  PROVE  e \in [Services -> [FamilySet -> 0..(ZMin + 4)]]
<1>1. ASSUME NEW fam, NEW z \in 0..(ZMin + 4), NEW q \in 0..(ZMin + 4)
      PROVE  Only(fam, z, q) \in [FamilySet -> 0..(ZMin + 4)]
  BY DEF Only
<1>2. /\ 0 \in 0..(ZMin + 4) /\ ZMin \in 0..(ZMin + 4)
      /\ ZMin + 1 \in 0..(ZMin + 4) /\ ZMin + 2 \in 0..(ZMin + 4) /\ ZMin + 4 \in 0..(ZMin + 4)
      /\ QuietZ \subseteq 0..(ZMin + 4) /\ StepZ \subseteq 0..(ZMin + 4)
  BY RankAssumption DEF QuietZ, StepZ
<1>3. CASE k = "resource"
  <2>1. PICK z \in [Services -> QuietZ \cup {ZMin}] :
          e = [s \in Services |-> Only("resource", IF s = o THEN ZMin + 4 ELSE z[s], 0)]
    <3>1. e \in ResourceFault(G, o)
      BY <1>3, Zenon DEF EffectsOf
    <3> QED
      BY <3>1 DEF ResourceFault
  <2>2. ASSUME NEW s \in Services
        PROVE  e[s] \in [FamilySet -> 0..(ZMin + 4)]
    <3>1. (IF s = o THEN ZMin + 4 ELSE z[s]) \in 0..(ZMin + 4)
      BY <1>2, <2>1
    <3> QED
      BY <1>1, <1>2, <2>1, <3>1
  <2> QED
    BY <2>1, <2>2
<1>4. CASE k = "latency"
  <2>1. PICK W \in SUBSET Neighbours(G, o), z \in [Services -> StepZ], q \in QuietZ :
          e = [s \in Services |-> Only("latency", IF s \in W \cup {o} THEN z[s] ELSE q, 0)]
    <3>1. e \in LatencyFault(G, o)
      BY <1>4, Zenon DEF EffectsOf
    <3> QED
      BY <3>1 DEF LatencyFault
  <2>2. ASSUME NEW s \in Services
        PROVE  e[s] \in [FamilySet -> 0..(ZMin + 4)]
    <3>1. (IF s \in W \cup {o} THEN z[s] ELSE q) \in 0..(ZMin + 4)
      BY <1>2, <2>1
    <3> QED
      BY <1>1, <1>2, <2>1, <3>1
  <2> QED
    BY <2>1, <2>2
<1>5. CASE k = "error"
  <2>1. PICK V \in Reach(G, o), z \in [Services -> StepZ], q \in QuietZ :
          e = [s \in Services |-> Only("error", IF s \in V \cup {o} THEN z[s] ELSE q, 0)]
    <3>1. e \in ErrorFault(G, o)
      BY <1>5, Zenon DEF EffectsOf
    <3> QED
      BY <3>1 DEF ErrorFault
  <2>2. ASSUME NEW s \in Services
        PROVE  e[s] \in [FamilySet -> 0..(ZMin + 4)]
    <3>1. (IF s \in V \cup {o} THEN z[s] ELSE q) \in 0..(ZMin + 4)
      BY <1>2, <2>1
    <3> QED
      BY <1>1, <1>2, <2>1, <3>1
  <2> QED
    BY <2>1, <2>2
<1>6. CASE k = "loss"
  <2>1. PICK V \in Reach(G, o) \ {{}}, z \in [Services -> {ZMin + 1, ZMin + 2}], q \in QuietZ,
             fam \in {"latency", "resource"} :
          e = [s \in Services |-> IF s = o THEN Only(fam, ZMin, q)
                                  ELSE Only("error", IF s \in V THEN z[s] ELSE q, 0)]
    <3>1. e \in LossFault(G, o)
      BY <1>6, Zenon DEF EffectsOf
    <3> QED
      BY <3>1 DEF LossFault
  <2>2. ASSUME NEW s \in Services
        PROVE  e[s] \in [FamilySet -> 0..(ZMin + 4)]
    <3>1. (IF s \in V THEN z[s] ELSE q) \in 0..(ZMin + 4)
      BY <1>2, <2>1
    <3> QED
      BY <1>1, <1>2, <2>1, <3>1
  <2> QED
    BY <2>1, <2>2
<1>7. CASE k = "none"
  <2>1. PICK z \in [Services -> QuietZ] : e = [s \in Services |-> Only("latency", z[s], 0)]
    <3>1. e \in NoFault(G, o)
      BY <1>7, Zenon DEF EffectsOf
    <3> QED
      BY <3>1 DEF NoFault
  <2>2. ASSUME NEW s \in Services
        PROVE  e[s] \in [FamilySet -> 0..(ZMin + 4)]
    BY <1>1, <1>2, <2>1
  <2> QED
    BY <2>1, <2>2
<1> QED
  BY <1>3, <1>4, <1>5, <1>6, <1>7, RankAssumption

(* A fault as Init chooses it. *)
Chosen == /\ edges \in Graphs /\ kind \in Kinds /\ origin \in Services
          /\ effects \in EffectsOf(kind, edges, origin)

LEMMA ChosenStatic ==
  ASSUME Chosen
  PROVE  Static /\ Nodes = Services /\ Nodes # {}
<1>1. effects \in [Services -> [FamilySet -> 0..(ZMin + 4)]]
  BY EffectsTyped DEF Chosen
<1>2. edges \subseteq Pairs /\ Nodes = Services
  BY DEF Chosen, Graphs, Nodes
<1>3. 1 \in Services
  BY RankAssumption DEF Services
<1> QED
  BY <1>1, <1>2, <1>3 DEF Static

(* Calls descend: of some services of which each calls another of them or o, *)
(* none is as deep as o, and one calls none of the rest.                     *)
LEMMA Deepest ==
  ASSUME NEW G \in Graphs, NEW o \in Services, NEW V \in Reach(G, o)
  PROVE  /\ \A v \in V : <<o, v>> \notin G
         /\ V # {} => \E v \in V : \A w \in V : <<v, w>> \notin G
<1>1. PICK depth \in [Services -> Services] : \A e \in G : depth[e[1]] < depth[e[2]]
  BY DEF Graphs
<1>2. /\ V \subseteq Services \ {o}
      /\ \A v \in V : \E e \in G : e[1] = v /\ e[2] \in V \cup {o}
  BY DEF Reach, Failing
<1>3. \A s \in Services : depth[s] \in Nat /\ depth[s] <= N /\ N \in Nat
  BY RankAssumption DEF Services
<1>4. ASSUME NEW U \in SUBSET V, U # {}
      PROVE  \E v \in U : \A u \in U : depth[u] <= depth[v]
  <2> DEFINE depths == {depth[u] : u \in U}
  <2>1. depths \in SUBSET Nat /\ depths # {} /\ \A d \in depths : d <= N
    BY <1>2, <1>3, <1>4
  <2>2. Max(depths) \in depths /\ \A d \in depths : d <= Max(depths)
    <3> HIDE DEF depths
    <3> QED
      BY <2>1, RankAssumption, GreatestMember
  <2> QED
    BY <2>2
<1>5. \A v \in V : depth[v] < depth[o]
  <2> DEFINE U == {v \in V : ~(depth[v] < depth[o])}
  <2>1. ASSUME U # {}
        PROVE  FALSE
    <3>1. U \in SUBSET V
      OBVIOUS
    <3>2. PICK v \in U : \A u \in U : depth[u] <= depth[v]
      <4> HIDE DEF U
      <4> QED
        BY <2>1, <3>1, <1>4
    <3>3. v \in V /\ ~(depth[v] < depth[o])
      BY <3>2
    <3>4. PICK e \in G : e[1] = v /\ e[2] \in V \cup {o}
      BY <1>2, <3>3
    <3>5. depth[v] < depth[e[2]]
      BY <1>1, <3>4
    <3>6. depth[v] \in Nat /\ depth[e[2]] \in Nat /\ depth[o] \in Nat
      BY <1>2, <1>3, <3>3, <3>4
    <3>7. e[2] \in U
      BY <3>3, <3>4, <3>5, <3>6
    <3> QED
      BY <3>2, <3>5, <3>6, <3>7
  <2> QED
    BY <2>1
<1>6. ASSUME NEW v \in V
      PROVE  <<o, v>> \notin G
  <2>1. depth[v] < depth[o] /\ depth[v] \in Nat /\ depth[o] \in Nat
    BY <1>2, <1>3, <1>5
  <2>2. <<o, v>> \in G => depth[o] < depth[v]
    BY <1>1
  <2> QED
    BY <2>1, <2>2
<1>7. ASSUME V # {}
      PROVE  \E v \in V : \A w \in V : <<v, w>> \notin G
  <2>1. PICK v \in V : \A u \in V : depth[u] <= depth[v]
    BY <1>4, <1>7
  <2>2. ASSUME NEW w \in V
        PROVE  <<v, w>> \notin G
    <3>1. <<v, w>> \in G => depth[v] < depth[w]
      BY <1>1
    <3>2. depth[w] <= depth[v] /\ depth[v] \in Nat /\ depth[w] \in Nat
      BY <1>2, <1>3, <2>1
    <3> QED
      BY <3>1, <3>2
  <2> QED
    BY <2>2
<1> QED
  BY <1>6, <1>7

LEMMA CalleesAre ==
  ASSUME edges \subseteq Pairs, NEW s \in Services, NEW t
  PROVE  /\ t \in Callees(s) <=> <<s, t>> \in edges
         /\ t \in Callers(s) <=> <<t, s>> \in edges
<1>1. \A e \in edges : e = <<e[1], e[2]>>
  BY DEF Pairs
<1> QED
  BY <1>1 DEF Callees, Callers

(* The families that may be dominant have stepped as much as anything.       *)
LEMMA DominantIs ==
  ASSUME Static, Nodes # {}, NEW s \in Nodes, NEW fam \in FamilySet, Z(s, fam) >= ZMin,
         NEW r \in Rankings
  PROVE  \E f \in FamilySet : \E t \in Nodes :
           r \in RankBy(f) /\ Z(t, f) >= Z(s, fam) /\ Z(t, f) = MaxZ(t)
<1>1. TopZ \in Nat /\ MaxZ(s) \in Nat /\ MaxZ(s) <= TopZ /\ Z(s, fam) <= MaxZ(s) /\ Z(s, fam) \in Nat
  BY NodesFinite, ZTyped, TopZTop, MaxZTop
<1>2. ~(TopZ < ZMin)
  BY <1>1, RankAssumption
<1>3. PICK f \in Dominants : r \in RankBy(f)
  BY <1>2 DEF Rankings
<1>4. PICK t \in Nodes : Z(t, f) = TopZ /\ MaxZ(t) = TopZ
  BY <1>3, DominantStepped
<1> QED
  BY <1>1, <1>3, <1>4, DominantStepped

LEMMA ResourceOrigin ==
  ASSUME Chosen, kind = "resource", NEW r \in Rankings
  PROVE  Head(r) = origin
<1>1. Static /\ Nodes = Services /\ Nodes # {} /\ origin \in Nodes
  BY ChosenStatic DEF Chosen
<1>2. PICK z \in [Services -> QuietZ \cup {ZMin}] :
        effects = [s \in Services |-> Only("resource", IF s = origin THEN ZMin + 4 ELSE z[s], 0)]
  <2>1. effects \in ResourceFault(edges, origin)
    BY Zenon DEF EffectsOf, Chosen
  <2> QED
    BY <2>1 DEF ResourceFault
<1>3. /\ Z(origin, "resource") = ZMin + 4
      /\ \A s \in Nodes, f \in FamilySet : s # origin \/ f # "resource" => Z(s, f) <= ZMin
  BY <1>1, <1>2, RankAssumption DEF Z, Only, FamilySet, QuietZ
<1>4. PICK f \in FamilySet, t \in Nodes :
        r \in RankBy(f) /\ Z(t, f) >= Z(origin, "resource")
  BY <1>1, <1>3, DominantIs, RankAssumption DEF FamilySet
<1>5. f = "resource"
  BY <1>1, <1>3, <1>4, ZTyped, RankAssumption
<1>6. r = SortedBy({ResourceKey(s) : s \in Nodes})
  BY <1>4, <1>5, Zenon DEF RankBy
<1>7. Ranks(r, Nodes, [s \in Nodes |-> ResourceKey(s)]) /\ Whole(r)
  BY <1>1, <1>6, ResourceRanks, RanksWhole
<1>8. r[1] \in Nodes /\ (r[1] = origin \/ Precedes(ResourceKey(r[1]), ResourceKey(origin)))
  BY <1>1, <1>7, NodesFinite, BestFirst
<1>9. Z(r[1], "resource") >= Z(origin, "resource")
  BY <1>1, <1>8, ResourceFirst
<1>10. r[1] = origin
  BY <1>1, <1>3, <1>8, <1>9, ZTyped, RankAssumption DEF FamilySet
<1> QED
  BY <1>1, <1>7, <1>10, WholeHead

(* Of what fails, a service that calls nothing else that fails comes first.  *)
LEMMA ErrorHead ==
  ASSUME Static, NEW order, Ranks(order, Nodes, [t \in Nodes |-> ErrorKey(t)]),
         NEW v \in Stepped("error"), Callees(v) \cap Stepped("error") = {}
  PROVE  order[1] \in Stepped("error") /\ Callees(order[1]) \cap Stepped("error") = {}
<1> DEFINE h == order[1]
<1>1. v \in Nodes
  BY DEF Stepped
<1>2. h \in Stepped("error")
  BY FirstByError
<1>3. h \in Nodes /\ (h = v \/ Precedes(ErrorKey(h), ErrorKey(v)))
  BY <1>1, NodesFinite, BestFirst
<1> HIDE DEF h
<1>4. CASE Precedes(ErrorKey(h), ErrorKey(v))
  <2>1. /\ ErrorKey(h) \in Seq(Int) /\ Len(ErrorKey(h)) = 5
        /\ ErrorKey(v) \in Seq(Int) /\ Len(ErrorKey(v)) = 5
    BY <1>1, <1>3, ErrorKeyTyped
  <2>2. ErrorKey(h)[1] = 0 /\ ErrorKey(v)[1] = 0 /\ ErrorKey(v)[2] = 0
    BY <1>2 DEF ErrorKey, Flag
  <2>3. ErrorKey(h)[2] <= ErrorKey(v)[2]
    <3>1. 2 \in 1..5 /\ \A j \in 1..(2 - 1) : ErrorKey(h)[j] = ErrorKey(v)[j]
      BY <2>2
    <3> QED
      BY <1>4, <2>1, <3>1, NextPart
  <2>4. ErrorKey(h)[2] = Flag(h \in Stepped("error") /\ Callees(h) \cap Stepped("error") = {})
    BY DEF ErrorKey
  <2>5. Flag(h \in Stepped("error") /\ Callees(h) \cap Stepped("error") = {}) <= 0
    BY <2>2, <2>3, <2>4
  <2>6. Callees(h) \cap Stepped("error") = {}
    BY <2>5 DEF Flag
  <2> QED
    BY <1>2, <2>6 DEF h
<1> QED
  BY <1>2, <1>3, <1>4 DEF h

LEMMA ErrorOrigin ==
  ASSUME Chosen, kind = "error", NEW r \in Rankings
  PROVE  Head(r) = origin
<1>1. Static /\ Nodes = Services /\ Nodes # {} /\ origin \in Nodes /\ edges \subseteq Pairs
  BY ChosenStatic DEF Chosen, Static
<1>2. PICK V \in Reach(edges, origin), z \in [Services -> StepZ], q \in QuietZ :
        effects = [s \in Services |->
                     Only("error", IF s \in V \cup {origin} THEN z[s] ELSE q, 0)]
  <2>1. effects \in ErrorFault(edges, origin)
    BY Zenon DEF EffectsOf, Chosen
  <2> QED
    BY <2>1 DEF ErrorFault
<1>3. /\ \A s \in Nodes : Z(s, "error") >= ZMin <=> s \in V \cup {origin}
      /\ \A s \in Nodes, f \in FamilySet : f # "error" => Z(s, f) = 0
  BY <1>1, <1>2, RankAssumption DEF Z, Only, FamilySet, QuietZ, StepZ
<1>4. V \subseteq Services \ {origin}
  BY DEF Reach
<1>5. Stepped("error") = V \cup {origin}
  BY <1>1, <1>3, <1>4 DEF Stepped
<1>6. Callees(origin) \cap Stepped("error") = {}
  <2>1. \A v \in V : <<origin, v>> \notin edges
    BY <1>1, Deepest DEF Chosen
  <2>2. <<origin, origin>> \notin edges
    BY <1>1 DEF Pairs
  <2> QED
    BY <1>1, <1>5, <2>1, <2>2, CalleesAre
<1>7. PICK f \in FamilySet, u \in Nodes :
        r \in RankBy(f) /\ Z(u, f) >= Z(origin, "error")
  BY <1>1, <1>3, DominantIs DEF FamilySet
<1>8. f = "error"
  BY <1>1, <1>3, <1>7, ZTyped, RankAssumption DEF FamilySet
<1> DEFINE order == SortedBy({ErrorKey(s) : s \in Nodes})
<1>9. r \in Descended(order)
  BY <1>7, <1>8, Zenon DEF RankBy
<1>10. Ranks(order, Nodes, [t \in Nodes |-> ErrorKey(t)]) /\ Whole(order)
  BY <1>1, ErrorRanks, RanksWhole
<1> HIDE DEF order
<1>11. order[1] \in Stepped("error") /\ Callees(order[1]) \cap Stepped("error") = {}
  BY <1>1, <1>5, <1>6, <1>10, ErrorHead
<1>12. order[1] = origin
  <2>1. ASSUME order[1] \in V
        PROVE  FALSE
    <3>1. PICK e \in edges : e[1] = order[1] /\ e[2] \in V \cup {origin}
      BY <2>1 DEF Reach, Failing
    <3>2. e[2] \in Callees(order[1])
      BY <3>1 DEF Callees
    <3> QED
      BY <1>5, <1>11, <3>1, <3>2
  <2> QED
    BY <1>5, <1>11, <2>1
<1>13. Lossy(origin) = {}
  <2>1. ASSUME NEW c \in Lossy(origin)
        PROVE  FALSE
    <3>1. c \in Nodes /\ Transit(c) >= ZMin
      BY DEF Lossy, Callees, Nodes
    <3>2. Transit(c) = 0
      BY <1>1, <1>3, <3>1, TransitIsZ DEF FamilySet
    <3> QED
      BY <3>1, <3>2, RankAssumption
  <2> QED
    BY <2>1
<1> QED
  BY <1>1, <1>9, <1>10, <1>12, <1>13, DescendedWhole

LEMMA LossOrigin ==
  ASSUME Chosen, kind = "loss", NEW r \in Rankings
  PROVE  Head(r) = origin
<1>1. Static /\ Nodes = Services /\ Nodes # {} /\ origin \in Nodes /\ edges \subseteq Pairs
  BY ChosenStatic DEF Chosen, Static
<1>2. PICK V \in Reach(edges, origin) \ {{}}, z \in [Services -> {ZMin + 1, ZMin + 2}], q \in QuietZ,
           fam \in {"latency", "resource"} :
        effects = [s \in Services |-> IF s = origin THEN Only(fam, ZMin, q)
                                      ELSE Only("error", IF s \in V THEN z[s] ELSE q, 0)]
  <2>1. effects \in LossFault(edges, origin)
    BY Zenon DEF EffectsOf, Chosen
  <2> QED
    BY <2>1 DEF LossFault
<1>3. V \subseteq Services \ {origin} /\ V # {}
  BY DEF Reach
<1>4. /\ \A s \in V : Z(s, "error") >= ZMin + 1
      /\ \A s \in Nodes \ V : Z(s, "error") <= ZMin - 1
      /\ \A s \in Nodes \ {origin}, f \in FamilySet : f # "error" => Z(s, f) = 0
      /\ \A f \in FamilySet : Z(origin, f) <= ZMin
      /\ Z(origin, fam) = ZMin
  BY <1>1, <1>2, <1>3, RankAssumption DEF Z, Only, FamilySet, QuietZ
<1>5. Stepped("error") = V
  <2>1. \A s \in Nodes : Z(s, "error") \in Int
    BY <1>1, ZTyped DEF FamilySet
  <2> QED
    BY <1>1, <1>3, <1>4, <2>1, RankAssumption DEF Stepped
<1>6. PICK f \in FamilySet, t \in Nodes : r \in RankBy(f) /\ Z(t, f) >= ZMin + 1
  <2>1. PICK v \in V : Z(v, "error") >= ZMin + 1
    BY <1>3, <1>4
  <2>2. v \in Nodes /\ Z(v, "error") \in Int /\ Z(v, "error") >= ZMin
    BY <1>1, <1>3, <2>1, ZTyped, RankAssumption DEF FamilySet
  <2>3. PICK f \in FamilySet, t \in Nodes : r \in RankBy(f) /\ Z(t, f) >= Z(v, "error")
    BY <1>1, <2>2, DominantIs DEF FamilySet
  <2> QED
    BY <1>1, <2>1, <2>2, <2>3, ZTyped, RankAssumption
<1>7. f = "error"
  BY <1>1, <1>4, <1>6, ZTyped, RankAssumption DEF FamilySet
<1> DEFINE order == SortedBy({ErrorKey(s) : s \in Nodes})
<1>8. r \in Descended(order)
  BY <1>6, <1>7, Zenon DEF RankBy
<1>9. Ranks(order, Nodes, [s \in Nodes |-> ErrorKey(s)]) /\ Whole(order)
  BY <1>1, ErrorRanks, RanksWhole
<1> HIDE DEF order
<1>10. order[1] \in V /\ Callees(order[1]) \cap V = {}
  <2>1. PICK v \in V : \A w \in V : <<v, w>> \notin edges
    BY <1>3, Deepest DEF Chosen
  <2>2. Callees(v) \cap V = {}
    BY <1>1, <1>3, <2>1, CalleesAre
  <2> QED
    BY <1>1, <1>5, <1>9, <2>2, ErrorHead
<1>11. Lossy(order[1]) = {origin}
  <2>1. PICK e \in edges : e[1] = order[1] /\ e[2] \in V \cup {origin}
    BY <1>10 DEF Reach, Failing
  <2>2. e[2] \in Callees(order[1])
    BY <2>1 DEF Callees
  <2>3. origin \in Callees(order[1])
    BY <1>10, <2>1, <2>2
  <2>4. Transit(origin) >= ZMin
    <3>1. /\ Transit(origin) >= Z(origin, "latency") /\ Transit(origin) >= Z(origin, "resource")
          /\ Z(origin, "latency") = ZMin \/ Z(origin, "resource") = ZMin
      BY <1>1, <1>4, TransitIsZ
    <3> QED
      BY <3>1
  <2>5. origin \in Lossy(order[1])
    BY <1>3, <1>5, <2>3, <2>4 DEF Lossy
  <2>6. ASSUME NEW c \in Lossy(order[1]), c # origin
        PROVE  FALSE
    <3>1. c \in Nodes /\ Transit(c) >= ZMin
      BY DEF Lossy, Callees, Nodes
    <3>2. Transit(c) = 0
      BY <1>1, <1>4, <2>6, <3>1, TransitIsZ DEF FamilySet
    <3> QED
      BY <3>1, <3>2, RankAssumption
  <2> QED
    BY <2>5, <2>6
<1> QED
  BY <1>1, <1>5, <1>8, <1>9, <1>10, <1>11, DescendedWhole

(* The centre of the star covers all of the latency that has stepped.        *)
LEMMA CentreCoversAll ==
  ASSUME Static, NEW o \in Nodes, NEW W \in SUBSET Neighbours(edges, o),
         Stepped("latency") = W \cup {o}
  PROVE  NearBest(o)
<1>1. edges \subseteq Pairs /\ Nodes \subseteq Services
  BY NodesFinite DEF Static
<1>2. W \subseteq Callees(o) \cup Callers(o)
  BY <1>1, CalleesAre DEF Neighbours
<1>3. Stepped("latency") \cap ({o} \cup Callees(o) \cup Callers(o)) = Stepped("latency")
  BY <1>2
<1>4. Cover(o) = Mass(Stepped("latency"))
  BY <1>3 DEF Cover
<1> DEFINE covers == {Cover(t) : t \in Nodes}
           m == Mass(Stepped("latency"))
<1>5. m \in Nat /\ \A c \in covers : c \in Nat /\ c <= m
  BY <1>4, CoverTyped
<1>6. Max(covers) \in covers
  <2>1. covers \in SUBSET Nat /\ covers # {}
    BY <1>5
  <2> HIDE DEF covers, m
  <2> QED
    BY <1>5, <2>1, GreatestMember
<1>7. Max(covers) \in Nat /\ Max(covers) <= m
  BY <1>5, <1>6
<1>8. 20 * Cover(o) >= 20 * Max(covers) - m
  <2>1. Cover(o) = m
    BY <1>4
  <2> HIDE DEF covers, m
  <2> QED
    BY <1>5, <1>7, <2>1
<1> QED
  BY <1>8 DEF NearBest

LEMMA LatencyOrigin ==
  ASSUME Chosen, kind = "latency", NEW r \in Rankings, origin \notin Demoted,
         \A s \in Nodes \ (Demoted \cup {origin}) : ~NearBest(s) \/ s \notin Stepped("latency")
  PROVE  Head(r) = origin
<1>1. Static /\ Nodes = Services /\ Nodes # {} /\ origin \in Nodes /\ edges \subseteq Pairs
  BY ChosenStatic DEF Chosen, Static
<1>2. PICK W \in SUBSET Neighbours(edges, origin), z \in [Services -> StepZ], q \in QuietZ :
        effects = [s \in Services |->
                     Only("latency", IF s \in W \cup {origin} THEN z[s] ELSE q, 0)]
  <2>1. effects \in LatencyFault(edges, origin)
    BY Zenon DEF EffectsOf, Chosen
  <2> QED
    BY <2>1 DEF LatencyFault
<1>3. /\ \A s \in Nodes : Z(s, "latency") >= ZMin <=> s \in W \cup {origin}
      /\ \A s \in Nodes, f \in FamilySet : f # "latency" => Z(s, f) = 0
  BY <1>1, <1>2, RankAssumption DEF Z, Only, FamilySet, QuietZ, StepZ
<1>4. W \subseteq Services
  BY DEF Neighbours
<1>5. Stepped("latency") = W \cup {origin}
  BY <1>1, <1>3, <1>4 DEF Stepped
<1>6. PICK f \in FamilySet, t \in Nodes :
        r \in RankBy(f) /\ Z(t, f) >= Z(origin, "latency")
  BY <1>1, <1>3, DominantIs DEF FamilySet
<1>7. f = "latency"
  BY <1>1, <1>3, <1>6, ZTyped, RankAssumption DEF FamilySet
<1>8. r = SortedBy({LatencyKey(s) : s \in Nodes})
  BY <1>6, <1>7, Zenon DEF RankBy
<1>9. Ranks(r, Nodes, [s \in Nodes |-> LatencyKey(s)]) /\ Whole(r)
  BY <1>1, <1>8, LatencyRanks, RanksWhole
<1> DEFINE h == r[1]
<1>10. h \in Nodes /\ (h = origin \/ Precedes(LatencyKey(h), LatencyKey(origin)))
  BY <1>1, <1>9, NodesFinite, BestFirst
<1>11. h \in Stepped("latency")
  BY <1>1, <1>5, <1>9, FirstByLatency
<1> HIDE DEF h
<1>12. ASSUME Precedes(LatencyKey(h), LatencyKey(origin))
       PROVE  h = origin
  <2>1. /\ LatencyKey(h) \in Seq(Int) /\ Len(LatencyKey(h)) = 6
        /\ LatencyKey(origin) \in Seq(Int) /\ Len(LatencyKey(origin)) = 6
    BY <1>1, <1>10, LatencyKeyTyped
  <2>2. LatencyKey(h)[1] = 0 /\ LatencyKey(origin)[1] = 0
    BY <1>5, <1>11 DEF LatencyKey, Flag
  <2>3. LatencyKey(origin)[2] = 0
    BY <1>1, <1>5, CentreCoversAll DEF LatencyKey, Flag
  <2>4. LatencyKey(origin)[3] = 0
    BY DEF LatencyKey, Flag
  <2>5. LatencyKey(h)[2] = Flag(NearBest(h)) /\ LatencyKey(h)[3] = Flag(h \notin Demoted)
    BY DEF LatencyKey
  <2>6. LatencyKey(h)[2] <= LatencyKey(origin)[2]
    <3>1. 2 \in 1..6 /\ \A j \in 1..(2 - 1) : LatencyKey(h)[j] = LatencyKey(origin)[j]
      BY <2>2
    <3> QED
      BY <1>12, <2>1, <3>1, NextPart
  <2>7. Flag(NearBest(h)) <= 0
    BY <2>3, <2>5, <2>6
  <2>8. NearBest(h) /\ LatencyKey(h)[2] = 0
    BY <2>5, <2>7 DEF Flag
  <2>9. LatencyKey(h)[3] <= LatencyKey(origin)[3]
    <3>1. \A j \in 1..(3 - 1) : j = 1 \/ j = 2
      OBVIOUS
    <3>2. 3 \in 1..6 /\ \A j \in 1..(3 - 1) : LatencyKey(h)[j] = LatencyKey(origin)[j]
      BY <2>2, <2>3, <2>8, <3>1
    <3> QED
      BY <1>12, <2>1, <3>2, NextPart
  <2>10. Flag(h \notin Demoted) <= 0
    BY <2>4, <2>5, <2>9
  <2>11. h \notin Demoted
    BY <2>10 DEF Flag
  <2> QED
    BY <1>10, <1>11, <2>8, <2>11
<1>13. h = origin
  BY <1>10, <1>12
<1> QED
  BY <1>1, <1>9, <1>13, WholeHead DEF h

(* What the incident decides does not change with the rest of the state.     *)
LEMMA IncidentStays ==
  ASSUME UNCHANGED <<edges, effects, incident>>
  PROVE  /\ Nodes' = Nodes /\ Anomalous' = Anomalous
         /\ Rankings' = Rankings
         /\ Static' <=> Static
<1>1. Nodes' = Nodes
  BY DEF Nodes
<1>2. Anomalous' = Anomalous
  BY <1>1 DEF Anomalous, MaxZ, Z
<1>3. Static' <=> Static
  BY DEF Static
<1>4. Rankings' = Rankings
  BY SMTT(30) DEF Rankings, TopZ, MaxZ, Z, Nodes, SortedBy, QuietKey, RankBy, Dominants,
         FirstFamily, ResourceKey, LatencyKey, ErrorKey, Descended, Stepped, Cover, NearBest,
         Mass, Demoted, Callees, Callers, Transit, Kept, Flag, Precedes, inOrder
<1> QED
  BY <1>1, <1>2, <1>3, <1>4

(* A ranking is what OriginComesFirst says it is. *)
LEMMA RankingsOfChosen ==
  ASSUME Chosen, ranked = <<>> \/ ranked \in Rankings
  PROVE  OriginComesFirst
<1>1. CASE ranked = <<>>
  BY <1>1 DEF OriginComesFirst, RanksEveryService, OriginFirst, StarCentreFirst
<1>2. CASE ranked \in Rankings
  <2>1. Whole(ranked)
    BY <1>2, ChosenStatic, RankingsWhole
  <2>2. RanksEveryService
    BY <2>1 DEF RanksEveryService, Whole
  <2>3. OriginFirst
    BY <1>2, ResourceOrigin, ErrorOrigin, LossOrigin DEF OriginFirst
  <2>4. StarCentreFirst
    BY <1>2, LatencyOrigin DEF StarCentreFirst
  <2> QED
    BY <2>2, <2>3, <2>4 DEF OriginComesFirst
<1> QED
  BY <1>1, <1>2

(* The origin is ranked first whatever the family of its fault, in every     *)
(* acyclic graph, and no service is lost or repeated (topology.py:76-159).   *)
THEOREM RankingIsOriginFirst == Spec => []OriginComesFirst
<1> DEFINE Inv == Chosen /\ (ranked = <<>> \/ ranked \in Rankings)
<1>1. Init => Inv
  BY DEF Init, Chosen
<1>2. Inv /\ [Resolve]_rankVars => Inv'
  <2> SUFFICES ASSUME Inv, [Resolve]_rankVars PROVE Inv'
    OBVIOUS
  <2>1. UNCHANGED <<edges, effects, incident>> /\ (ranked' = ranked \/ ranked' \in Rankings)
    BY DEF Resolve, rankVars, incident
  <2>2. Rankings' = Rankings
    BY <2>1, IncidentStays
  <2>3. Chosen'
    BY <2>1 DEF Chosen, incident
  <2> QED
    BY <2>1, <2>2, <2>3
<1>3. Inv => OriginComesFirst
  BY RankingsOfChosen
<1> QED
  BY <1>1, <1>2, <1>3, PTL DEF Spec
-----------------------------------------------------------------------------
(* The incident is the one that Init chose, unless there is no topology.     *)
IncidentOK ==
  /\ Static
  /\ edges # {} => Chosen

RankedOK ==
  /\ edges = {} \/ pc = "resolve" => ranked = <<>>
  /\ edges # {} /\ pc # "resolve" => ranked \in Rankings

(* A verdict is in favour of whatever has stepped, and the best of the       *)
(* ranking that has is among the hypotheses.                                 *)
PoolOK ==
  /\ pc \in {"resolve", "plan", "fanout", "drain", "done", "failed", "proposed"}
  /\ hyps \in Seq(Candidates)
  /\ worker \in [Index -> {"pending", "running", "ended", "raised", "cancelled"}]
  /\ verdict \in [Index -> Verdicts]
  /\ collected \in 0..Len(hyps)
  /\ pc \in {"resolve", "plan"} => hyps = <<>>
  /\ \A i \in Index : hyps[i] \in Anomalous => verdict[i] \in {"none", "supported"}
  /\ Anomalous # {} /\ pc \in {"fanout", "drain", "done", "proposed"} =>
       Head(ranked) \in ToSet(hyps)

(* Nobody is left running: what was collected has ended, and who leaves the  *)
(* pool by an exception has waited.                                          *)
WorkersOK ==
  /\ pc = "fanout" => \A i \in 1..collected : worker[i] = "ended"
  /\ pc \in {"done", "failed", "proposed"} =>
       \A i \in Index : worker[i] \in {"ended", "raised", "cancelled"}

(* The pick stands while its brief is built. *)
DecidedOK == pc \in {"done", "proposed"} => pick = Picked

BriefOK ==
  pc = "proposed" =>
    \E accusers \in SUBSET MayAccuse :
      LET cited == _top_evidence(pick, accusers)
      IN  \E signature \in SignaturesIn(cited), typeKey \in TypeKeys :
            brief = [actions |-> IF pick = Unknown THEN <<>>
                                 ELSE suggest_actions(pick, typeKey, signature, Confident),
                     cited   |-> cited]

IInv == IncidentOK /\ RankedOK /\ PoolOK /\ WorkersOK /\ DecidedOK /\ BriefOK
-----------------------------------------------------------------------------
LEMMA InitOK == RcaInit => IInv
<1> SUFFICES ASSUME RcaInit PROVE IInv
  OBVIOUS
<1>1. IncidentOK
  <2>1. CASE Init
    <3>1. edges \in Graphs /\ kind \in Kinds /\ origin \in Services
          /\ effects \in EffectsOf(kind, edges, origin)
      BY <2>1 DEF Init
    <3>2. effects \in [Services -> [FamilySet -> 0..(ZMin + 4)]]
      BY <3>1, EffectsTyped
    <3>3. edges \subseteq Pairs
      BY <3>1 DEF Graphs
    <3> QED
      BY <3>1, <3>2, <3>3 DEF IncidentOK, Static, Chosen
  <2>2. CASE ~Init
    <3>1. /\ edges = {} /\ kind \in Kinds /\ origin \in Services
          /\ effects = [s \in Services |-> Only("latency", 0, 0)]
      BY <2>2 DEF RcaInit
    <3>2. 0 \in 0..(ZMin + 4)
      BY RankAssumption
    <3> QED
      BY <3>1, <3>2 DEF IncidentOK, Static, Only
  <2> QED
    BY <2>1, <2>2
<1>2. ranked = <<>> /\ pc = "resolve"
  BY DEF RcaInit, Init
<1>3. PoolOK
  BY DEF RcaInit, PoolOK, Index
<1>4. WorkersOK /\ DecidedOK /\ BriefOK
  BY <1>2 DEF WorkersOK, DecidedOK, BriefOK
<1> QED
  BY <1>1, <1>2, <1>3, <1>4 DEF IInv, RankedOK

(* What the rankings say in a state of a run. *)
LEMMA RankedFacts ==
  ASSUME IInv
  PROVE  /\ ranked \in Seq(Services)
         /\ ranked # <<>> => Whole(ranked)
         /\ Anomalous # {} /\ pc # "resolve" => ranked # <<>> /\ Head(ranked) \in Anomalous
<1>1. Static
  BY DEF IInv, IncidentOK
<1>2. CASE edges = {} \/ pc = "resolve"
  <2>1. ranked = <<>>
    BY <1>2 DEF IInv, RankedOK
  <2>2. edges = {} => Anomalous = {}
    BY DEF Anomalous, Nodes
  <2> QED
    BY <1>2, <2>1, <2>2
<1>3. CASE edges # {} /\ pc # "resolve"
  <2>1. ranked \in Rankings /\ Nodes # {}
    BY <1>1, <1>3, SomeNode DEF IInv, RankedOK
  <2>2. Whole(ranked) /\ (Anomalous # {} => Head(ranked) \in Anomalous)
    BY <1>1, <2>1, RankingsWhole
  <2>3. ranked \in Seq(Nodes) /\ ToSet(ranked) = Nodes
    BY <2>2 DEF Whole
  <2>4. ranked \in Seq(Services)
    BY <1>1, <2>3, NodesFinite, SeqMonotonic
  <2>5. ranked # <<>>
    BY <2>1, <2>3 DEF ToSet
  <2> QED
    BY <2>2, <2>4, <2>5
<1> QED
  BY <1>2, <1>3

(* The plan takes in the best of the ranking when it has stepped. *)
LEMMA InjectedTakes ==
  ASSUME ranked \in Seq(Services), NEW planned
  PROVE  /\ Injected(planned) \in Seq(Services)
         /\ ranked # <<>> /\ Head(ranked) \in Anomalous \ planned =>
              Head(ranked) \in ToSet(Injected(planned))
<1> DEFINE m == Min({3, Len(ranked)})
           top == SubSeq(ranked, 1, m)
<1>1. m \in {3, Len(ranked)} /\ m <= Len(ranked) /\ Len(ranked) \in Nat
  BY LeastIsMin
<1> HIDE DEF m
<1>2. /\ top \in Seq(Services) /\ Len(top) = m
      /\ \A i \in 1..m : top[i] = ranked[i]
  BY <1>1
<1>3. Injected(planned) = Kept(top, Anomalous \ planned)
  BY DEF Injected, m
<1>4. ASSUME ranked # <<>>
      PROVE  Head(ranked) \in ToSet(top)
  <2>1. 1 \in 1..m /\ Head(ranked) = ranked[1]
    BY <1>1, <1>4
  <2>2. top[1] = Head(ranked) /\ 1 \in DOMAIN top
    BY <1>2, <2>1
  <2> QED
    BY <2>2 DEF ToSet
<1> HIDE DEF top
<1>5. /\ Kept(top, Anomalous \ planned) \in Seq(Services)
      /\ ToSet(Kept(top, Anomalous \ planned)) = ToSet(top) \cap (Anomalous \ planned)
  BY <1>2, KeptKeeps
<1> QED
  BY <1>3, <1>4, <1>5

LEMMA SetOfConcat ==
  ASSUME NEW T, NEW a \in Seq(T), NEW b \in Seq(T)
  PROVE  ToSet(a \o b) = ToSet(a) \cup ToSet(b)
<1> DEFINE c == a \o b
<1>1. /\ c \in Seq(T) /\ Len(c) = Len(a) + Len(b)
      /\ \A i \in 1..Len(a) : c[i] = a[i]
      /\ \A i \in 1..Len(b) : c[Len(a) + i] = b[i]
  OBVIOUS
<1> HIDE DEF c
<1>2. /\ DOMAIN a = 1..Len(a) /\ DOMAIN b = 1..Len(b) /\ DOMAIN c = 1..Len(c)
      /\ Len(a) \in Nat /\ Len(b) \in Nat
  BY <1>1
<1>3. ASSUME NEW x \in ToSet(a)
      PROVE  x \in ToSet(c)
  <2>1. PICK i \in 1..Len(a) : x = a[i]
    BY <1>2 DEF ToSet
  <2> QED
    BY <1>1, <1>2, <2>1 DEF ToSet
<1>4. ASSUME NEW x \in ToSet(b)
      PROVE  x \in ToSet(c)
  <2>1. PICK i \in 1..Len(b) : x = b[i]
    BY <1>2 DEF ToSet
  <2>2. x = c[Len(a) + i] /\ Len(a) + i \in 1..Len(c)
    BY <1>1, <1>2, <2>1
  <2> QED
    BY <1>2, <2>2 DEF ToSet
<1>5. ASSUME NEW x \in ToSet(c)
      PROVE  x \in ToSet(a) \cup ToSet(b)
  <2>1. PICK i \in 1..Len(c) : x = c[i]
    BY <1>2 DEF ToSet
  <2>2. CASE i <= Len(a)
    BY <1>1, <1>2, <2>1, <2>2 DEF ToSet
  <2>3. CASE i > Len(a)
    <3>1. i - Len(a) \in 1..Len(b) /\ c[Len(a) + (i - Len(a))] = b[i - Len(a)]
      BY SMTT(30), <1>1, <1>2, <2>1, <2>3
    <3>2. Len(a) + (i - Len(a)) = i
      BY <1>2, <2>1
    <3> QED
      BY <1>2, <2>1, <3>1, <3>2 DEF ToSet
  <2> QED
    BY <1>2, <2>1, <2>2, <2>3
<1> QED
  BY <1>3, <1>4, <1>5 DEF c

(* The first in a ranking of what S has. *)
LEMMA FirstInFirst ==
  ASSUME ranked \in Seq(Services), NEW S
  PROVE  \/ FirstIn(S) = Unknown /\ \A i \in 1..Len(ranked) : ranked[i] \notin S
         \/ \E m \in 1..Len(ranked) : /\ FirstIn(S) = ranked[m] /\ ranked[m] \in S
                                      /\ \A i \in 1..(m - 1) : ranked[i] \notin S
<1> DEFINE places == {i \in 1..Len(ranked) : ranked[i] \in S}
<1>1. FirstIn(S) = IF places = {} THEN Unknown ELSE ranked[Min(places)]
  BY DEF FirstIn
<1>2. CASE places = {}
  BY <1>1, <1>2
<1>3. CASE places # {}
  <2>1. places \in SUBSET Nat
    OBVIOUS
  <2>2. Min(places) \in places /\ \A i \in places : Min(places) <= i
    <3> HIDE DEF places
    <3> QED
      BY <1>3, <2>1, LeastIsMin
  <2>3. Min(places) \in 1..Len(ranked) /\ ranked[Min(places)] \in S
    BY <2>2
  <2>4. \A i \in 1..(Min(places) - 1) : ranked[i] \notin S
    BY <2>2
  <2> QED
    BY <1>1, <1>3, <2>3, <2>4
<1> QED
  BY <1>2, <1>3

LEMMA PickTyped ==
  ASSUME ranked \in Seq(Services)
  PROVE  Picked \in Candidates
BY FirstInFirst DEF Picked, Candidates
-----------------------------------------------------------------------------
LEMMA ResolveGraphOK ==
  ASSUME IInv, ResolveGraph
  PROVE  IInv'
<1>1. UNCHANGED <<edges, effects, incident, pool, answer, brief>> /\ pc = "resolve" /\ pc' = "plan"
  BY DEF ResolveGraph
<1>2. IncidentOK' /\ Rankings' = Rankings /\ Anomalous' = Anomalous
  BY <1>1, IncidentStays DEF IInv, IncidentOK, Chosen, incident
<1>3. RankedOK'
  BY <1>1, <1>2 DEF ResolveGraph, RankedOK, IInv
<1>4. PoolOK'
  BY <1>1, <1>2 DEF IInv, PoolOK, pool, Index
<1>5. WorkersOK' /\ DecidedOK' /\ BriefOK'
  BY <1>1 DEF WorkersOK, DecidedOK, BriefOK
<1> QED
  BY <1>2, <1>3, <1>4, <1>5 DEF IInv

(* The part that no action after the ranking touches. *)
LEMMA RankingStays ==
  ASSUME IInv, UNCHANGED rankVars, pc # "resolve" <=> pc' # "resolve"
  PROVE  IncidentOK' /\ RankedOK' /\ Anomalous' = Anomalous /\ ranked' = ranked
<1>1. UNCHANGED <<edges, effects, incident>> /\ ranked' = ranked
  BY DEF rankVars, incident
<1>2. IncidentOK' /\ Rankings' = Rankings /\ Anomalous' = Anomalous
  BY <1>1, IncidentStays DEF IInv, IncidentOK, Chosen, incident
<1> QED
  BY <1>1, <1>2 DEF RankedOK, IInv

LEMMA PlanOK ==
  ASSUME IInv, Plan
  PROVE  IInv'
<1>1. UNCHANGED <<rankVars, answer, brief>> /\ pc = "plan"
  BY DEF Plan
<1>2. hyps = <<>>
  BY <1>1 DEF IInv, PoolOK
<1>3. CASE pc' = "failed" /\ UNCHANGED pool
  <2>1. IncidentOK' /\ RankedOK' /\ Anomalous' = Anomalous
    BY <1>1, <1>3, RankingStays
  <2>2. PoolOK'
    BY <1>3, <2>1 DEF IInv, PoolOK, pool, Index
  <2>3. WorkersOK' /\ DecidedOK' /\ BriefOK'
    BY <1>2, <1>3 DEF WorkersOK, DecidedOK, BriefOK, pool, Index
  <2> QED
    BY <2>1, <2>2, <2>3 DEF IInv
<1>4. ASSUME NEW n \in 0..MaxPlan, NEW planned \in [1..n -> Candidates],
             pc' = "fanout",
             hyps' = planned \o Injected(ToSet(planned)),
             worker' = [i \in 1..Len(hyps') |-> "pending"],
             verdict' = [i \in 1..Len(hyps') |-> "none"],
             UNCHANGED collected
      PROVE  IInv'
  <2>1. IncidentOK' /\ RankedOK' /\ Anomalous' = Anomalous /\ ranked' = ranked
    BY <1>1, <1>4, RankingStays
  <2>2. planned \in Seq(Candidates) /\ DOMAIN planned = 1..n
    BY RcaAssumption, SeqDef
  <2>3. Injected(ToSet(planned)) \in Seq(Candidates)
    <3>1. Injected(ToSet(planned)) \in Seq(Services)
      BY RankedFacts, InjectedTakes
    <3> QED
      BY <3>1, SeqMonotonic DEF Candidates
  <2>4. hyps' \in Seq(Candidates)
    BY <1>4, <2>2, <2>3
  <2>5. ToSet(hyps') = ToSet(planned) \cup ToSet(Injected(ToSet(planned)))
    BY <1>4, <2>2, <2>3, SetOfConcat
  <2>6. Anomalous # {} => Head(ranked) \in ToSet(hyps')
    BY <1>1, <2>5, RankedFacts, InjectedTakes
  <2>7. collected' = 0
    BY <1>2, <1>4 DEF IInv, PoolOK
  <2>8. PoolOK'
    <3>1. Len(hyps') \in Nat /\ Index' = 1..Len(hyps')
      BY <2>4 DEF Index
    <3>2. /\ worker' \in [Index' -> {"pending", "running", "ended", "raised", "cancelled"}]
          /\ verdict' \in [Index' -> Verdicts] /\ \A i \in Index' : verdict'[i] = "none"
      BY <1>4, <3>1 DEF Verdicts
    <3>3. collected' \in 0..Len(hyps')
      BY <2>7, <3>1
    <3> QED
      BY <1>4, <2>1, <2>4, <2>6, <3>1, <3>2, <3>3 DEF PoolOK
  <2>9. WorkersOK' /\ DecidedOK' /\ BriefOK'
    BY <1>4, <2>7 DEF WorkersOK, DecidedOK, BriefOK
  <2> QED
    BY <2>1, <2>8, <2>9 DEF IInv
<1> QED
  BY <1>3, <1>4 DEF Plan

LEMMA StartOK ==
  ASSUME IInv, NEW i \in Index, Start(i)
  PROVE  IInv'
<1>1. /\ UNCHANGED <<rankVars, pc, hyps, verdict, collected, answer, brief>>
      /\ pc \in {"fanout", "drain"} /\ worker[i] = "pending"
      /\ worker' = [worker EXCEPT ![i] = "running"]
  BY DEF Start
<1>2. IncidentOK' /\ RankedOK' /\ Anomalous' = Anomalous /\ ranked' = ranked
  BY <1>1, RankingStays
<1>3. PoolOK'
  BY <1>1, <1>2 DEF IInv, PoolOK, Index
<1>4. WorkersOK'
  BY <1>1 DEF IInv, PoolOK, WorkersOK, Index
<1>5. DecidedOK' /\ BriefOK'
  BY <1>1 DEF DecidedOK, BriefOK
<1> QED
  BY <1>2, <1>3, <1>4, <1>5 DEF IInv

LEMMA FinishOK ==
  ASSUME IInv, NEW i \in Index, Finish(i)
  PROVE  IInv'
<1>1. /\ UNCHANGED <<rankVars, pc, hyps, collected, answer, brief>>
      /\ worker[i] = "running"
  BY DEF Finish
<1>2. PICK state \in {"ended", "raised"} : worker' = [worker EXCEPT ![i] = state]
  BY DEF Finish
<1>3. \/ UNCHANGED verdict
      \/ \E found \in Verdicts : verdict' = [verdict EXCEPT ![i] = Reconciled(i, found)]
  BY DEF Finish
<1>4. \A found \in Verdicts : /\ Reconciled(i, found) \in Verdicts
                              /\ hyps[i] \in Anomalous => Reconciled(i, found) \in {"none", "supported"}
  BY DEF Reconciled, Verdicts
<1>5. IncidentOK' /\ RankedOK' /\ Anomalous' = Anomalous /\ ranked' = ranked
  BY <1>1, RankingStays
<1>6. PoolOK'
  <2>1. /\ verdict' \in [Index -> Verdicts]
        /\ \A j \in Index : hyps[j] \in Anomalous => verdict'[j] \in {"none", "supported"}
    BY <1>3, <1>4 DEF IInv, PoolOK
  <2>2. worker' \in [Index -> {"pending", "running", "ended", "raised", "cancelled"}]
    BY <1>2 DEF IInv, PoolOK
  <2>3. Index' = Index
    BY <1>1 DEF Index
  <2> QED
    BY <1>1, <1>5, <2>1, <2>2, <2>3 DEF IInv, PoolOK
<1>7. pc \notin {"done", "failed", "proposed"}
  BY <1>1 DEF IInv, WorkersOK
<1>8. WorkersOK'
  BY <1>1, <1>2, <1>7 DEF IInv, PoolOK, WorkersOK, Index
<1>9. DecidedOK' /\ BriefOK'
  BY <1>1, <1>7 DEF DecidedOK, BriefOK
<1> QED
  BY <1>5, <1>6, <1>8, <1>9 DEF IInv

LEMMA CollectOK ==
  ASSUME IInv, Collect
  PROVE  IInv'
<1>1. /\ UNCHANGED <<rankVars, hyps, worker, verdict, answer, brief>>
      /\ pc = "fanout" /\ collected < Len(hyps)
      /\ \/ worker[collected + 1] = "ended" /\ collected' = collected + 1 /\ UNCHANGED pc
         \/ pc' = "drain" /\ UNCHANGED collected
  BY DEF Collect
<1>2. IncidentOK' /\ RankedOK' /\ Anomalous' = Anomalous /\ ranked' = ranked
  BY <1>1, RankingStays
<1>3. PoolOK'
  BY <1>1, <1>2 DEF IInv, PoolOK, Index
<1>4. WorkersOK'
  BY <1>1 DEF IInv, PoolOK, WorkersOK, Index
<1>5. DecidedOK' /\ BriefOK'
  BY <1>1 DEF DecidedOK, BriefOK
<1> QED
  BY <1>2, <1>3, <1>4, <1>5 DEF IInv

LEMMA CancelOK ==
  ASSUME IInv, Cancel
  PROVE  IInv'
<1> DEFINE last == Max(In("pending"))
<1>1. /\ UNCHANGED <<rankVars, pc, hyps, verdict, collected, answer, brief>>
      /\ pc = "drain" /\ worker' = [worker EXCEPT ![last] = "cancelled"]
  BY DEF Cancel
<1>2. IncidentOK' /\ RankedOK' /\ Anomalous' = Anomalous /\ ranked' = ranked
  BY <1>1, RankingStays
<1>3. PoolOK'
  <2>1. worker' \in [Index -> {"pending", "running", "ended", "raised", "cancelled"}]
    <3> HIDE DEF last
    <3> QED
      BY <1>1 DEF IInv, PoolOK
  <2>2. Index' = Index
    BY <1>1 DEF Index
  <2> QED
    BY <1>1, <1>2, <2>1, <2>2 DEF IInv, PoolOK
<1>4. WorkersOK' /\ DecidedOK' /\ BriefOK'
  BY <1>1 DEF WorkersOK, DecidedOK, BriefOK
<1> QED
  BY <1>2, <1>3, <1>4 DEF IInv

LEMMA DrainOK ==
  ASSUME IInv, Drain
  PROVE  IInv'
<1>1. /\ UNCHANGED <<rankVars, pool, answer, brief>>
      /\ pc = "drain" /\ pc' = "failed" /\ In("pending") \cup In("running") = {}
  BY DEF Drain
<1>2. IncidentOK' /\ RankedOK' /\ Anomalous' = Anomalous /\ ranked' = ranked
  BY <1>1, RankingStays
<1>3. PoolOK'
  BY <1>1, <1>2 DEF IInv, PoolOK, Index, pool
<1>4. WorkersOK'
  <2>1. \A i \in Index : worker[i] \in {"ended", "raised", "cancelled"}
    BY <1>1 DEF IInv, PoolOK, In
  <2> QED
    BY <1>1, <2>1 DEF WorkersOK, pool, Index
<1>5. DecidedOK' /\ BriefOK'
  BY <1>1 DEF DecidedOK, BriefOK
<1> QED
  BY <1>2, <1>3, <1>4, <1>5 DEF IInv

LEMMA PickStays ==
  ASSUME UNCHANGED <<ranked, hyps, verdict>>, Anomalous' = Anomalous
  PROVE  Index' = Index /\ Refuted' = Refuted /\ Picked' = Picked
<1>1. Index' = Index
  BY DEF Index
<1>2. Refuted' = Refuted
  BY <1>1 DEF Refuted, RefutedBy
<1>3. Picked' = Picked
  BY <1>2 DEF Picked, FirstIn
<1> QED
  BY <1>1, <1>2, <1>3

LEMMA DecideOK ==
  ASSUME IInv, Decide
  PROVE  IInv'
<1>1. /\ UNCHANGED <<rankVars, pool, brief>>
      /\ pc = "fanout" /\ collected = Len(hyps)
      /\ (pc' = "done" /\ pick' = Picked) \/ pc' = "failed"
  BY DEF Decide
<1>2. IncidentOK' /\ RankedOK' /\ Anomalous' = Anomalous /\ ranked' = ranked
  BY <1>1, RankingStays
<1>3. PoolOK'
  BY <1>1, <1>2 DEF IInv, PoolOK, Index, pool
<1>4. WorkersOK'
  BY <1>1 DEF IInv, PoolOK, WorkersOK, pool, Index
<1>5. DecidedOK'
  <2>1. Picked' = Picked
    BY <1>1, <1>2, PickStays DEF pool
  <2> QED
    BY <1>1, <2>1 DEF DecidedOK
<1>6. BriefOK'
  BY <1>1 DEF BriefOK
<1> QED
  BY <1>2, <1>3, <1>4, <1>5, <1>6 DEF IInv

LEMMA DecidedStays ==
  ASSUME IInv, UNCHANGED <<rankVars, pool, answer>>, pc \in {"done", "proposed"}
         \/ pc' \notin {"done", "proposed"}, pc' \in {pc, "proposed"}
  PROVE  DecidedOK'
<1>1. Anomalous' = Anomalous
  BY IncidentStays DEF rankVars, incident
<1>2. Picked' = Picked
  BY <1>1, PickStays DEF rankVars, pool
<1> QED
  BY <1>2 DEF DecidedOK, IInv, answer

(* A brief built before a step that leaves the rest alone is one after it.   *)
LEMMA BriefHolds ==
  ASSUME UNCHANGED <<rankVars, pool, answer>>,
         NEW accusers \in SUBSET MayAccuse,
         NEW signature \in SignaturesIn(_top_evidence(pick, accusers)),
         NEW typeKey \in TypeKeys,
         brief' = [actions |-> IF pick = Unknown THEN <<>>
                               ELSE suggest_actions(pick, typeKey, signature, Confident),
                   cited   |-> _top_evidence(pick, accusers)]
  PROVE  BriefOK'
<1>1. Anomalous' = Anomalous /\ Index' = Index
  BY IncidentStays DEF rankVars, incident, pool, Index
<1>2. accusers \in SUBSET MayAccuse' /\ typeKey \in TypeKeys'
  BY <1>1 DEF MayAccuse, TypeKeys, pool, answer
<1>3. _top_evidence(pick, accusers)' = _top_evidence(pick, accusers)
  BY <1>1 DEF _top_evidence, pool, answer
<1>4. signature \in SignaturesIn(_top_evidence(pick, accusers))'
  <2>1. SignaturesIn(_top_evidence(pick, accusers))' = SignaturesIn(_top_evidence(pick, accusers))
    BY <1>1, <1>3 DEF SignaturesIn, Z, rankVars, pool
  <2> QED
    BY <2>1
<1>5. pick' = pick /\ (Confident' <=> Confident)
  BY <1>1 DEF Confident, answer, pool
<1>6. suggest_actions(pick, typeKey, signature, Confident)'
        = suggest_actions(pick, typeKey, signature, Confident)
  BY <1>5 DEF suggest_actions
<1> QED
  BY <1>2, <1>3, <1>4, <1>5, <1>6 DEF BriefOK

LEMMA build_briefOK ==
  ASSUME IInv, build_brief
  PROVE  IInv'
<1>1. UNCHANGED <<rankVars, pool, answer>> /\ pc = "done" /\ pc' = "proposed"
  BY DEF build_brief
<1>2. IncidentOK' /\ RankedOK' /\ Anomalous' = Anomalous /\ ranked' = ranked
  BY <1>1, RankingStays
<1>3. PoolOK'
  BY <1>1, <1>2 DEF IInv, PoolOK, Index, pool
<1>4. WorkersOK'
  BY <1>1 DEF IInv, WorkersOK, pool, Index
<1>5. DecidedOK'
  BY <1>1, DecidedStays
<1>6. BriefOK'
  <2>1. PICK accusers \in SUBSET MayAccuse :
          \E signature \in SignaturesIn(_top_evidence(pick, accusers)), typeKey \in TypeKeys :
             brief' = [actions |-> IF pick = Unknown THEN <<>>
                                   ELSE suggest_actions(pick, typeKey, signature, Confident),
                       cited   |-> _top_evidence(pick, accusers)]
    BY DEF build_brief
  <2>2. PICK signature \in SignaturesIn(_top_evidence(pick, accusers)), typeKey \in TypeKeys :
             brief' = [actions |-> IF pick = Unknown THEN <<>>
                                   ELSE suggest_actions(pick, typeKey, signature, Confident),
                       cited   |-> _top_evidence(pick, accusers)]
    BY <2>1
  <2> QED
    BY <1>1, <2>2, BriefHolds
<1> QED
  BY <1>2, <1>3, <1>4, <1>5, <1>6 DEF IInv

LEMMA StutterOK ==
  ASSUME IInv, UNCHANGED vars
  PROVE  IInv'
<1>1. UNCHANGED <<rankVars, pool, answer, pc, brief>>
  BY DEF vars
<1>2. IncidentOK' /\ RankedOK' /\ Anomalous' = Anomalous /\ ranked' = ranked
  BY <1>1, RankingStays
<1>3. PoolOK'
  BY <1>1, <1>2 DEF IInv, PoolOK, Index, pool
<1>4. WorkersOK'
  BY <1>1 DEF IInv, WorkersOK, pool, Index
<1>5. DecidedOK'
  BY <1>1, DecidedStays
<1>6. CASE pc = "proposed"
  <2>1. PICK accusers \in SUBSET MayAccuse :
          \E signature \in SignaturesIn(_top_evidence(pick, accusers)), typeKey \in TypeKeys :
             brief = [actions |-> IF pick = Unknown THEN <<>>
                                  ELSE suggest_actions(pick, typeKey, signature, Confident),
                      cited   |-> _top_evidence(pick, accusers)]
    BY <1>6 DEF IInv, BriefOK
  <2>2. PICK signature \in SignaturesIn(_top_evidence(pick, accusers)), typeKey \in TypeKeys :
             brief = [actions |-> IF pick = Unknown THEN <<>>
                                  ELSE suggest_actions(pick, typeKey, signature, Confident),
                      cited   |-> _top_evidence(pick, accusers)]
    BY <2>1
  <2>3. BriefOK'
    BY <1>1, <2>2, BriefHolds
  <2> QED
    BY <1>2, <1>3, <1>4, <1>5, <2>3 DEF IInv
<1>7. CASE pc # "proposed"
  <2>1. BriefOK'
    BY <1>1, <1>7 DEF BriefOK
  <2> QED
    BY <1>2, <1>3, <1>4, <1>5, <2>1 DEF IInv
<1> QED
  BY <1>6, <1>7

LEMMA StepOK == IInv /\ [RcaNext]_vars => IInv'
<1> SUFFICES ASSUME IInv, [RcaNext]_vars PROVE IInv'
  OBVIOUS
<1>1. ASSUME NEW i \in Index, Start(i) PROVE IInv'
  BY <1>1, StartOK
<1>2. ASSUME NEW i \in Index, Finish(i) PROVE IInv'
  BY <1>2, FinishOK
<1>3. CASE ResolveGraph
  BY <1>3, ResolveGraphOK
<1>4. CASE Plan
  BY <1>4, PlanOK
<1>5. CASE Collect
  BY <1>5, CollectOK
<1>6. CASE Cancel
  BY <1>6, CancelOK
<1>7. CASE Drain
  BY <1>7, DrainOK
<1>8. CASE Decide
  BY <1>8, DecideOK
<1>9. CASE build_brief
  BY <1>9, build_briefOK
<1>10. CASE UNCHANGED vars
  BY <1>10, StutterOK
<1> QED
  BY <1>1, <1>2, <1>3, <1>4, <1>5, <1>6, <1>7, <1>8, <1>9, <1>10
     DEF RcaNext, WorkerStep, ManagerStep
-----------------------------------------------------------------------------
LEMMA WorkersAreGone == IInv => NoWorkerOutlivesRun
BY DEF IInv, WorkersOK, NoWorkerOutlivesRun, In

(* The pick is the first of the ranking that was not refuted. *)
LEMMA PickIsFirst ==
  ASSUME IInv, pc \in {"done", "proposed"}
  PROVE  /\ Anomalous # {} => pick = Head(ranked)
         /\ ranked # <<>> => \E m \in 1..Len(ranked) :
              /\ pick = ranked[m]
              /\ \A i \in 1..(m - 1) : ranked[i] \in Refuted
         /\ pick \in Refuted => ToSet(ranked) \subseteq Refuted
<1> DEFINE remaining == ToSet(ranked) \ Refuted
           chosen == IF remaining = {} THEN ToSet(ranked) ELSE remaining
<1>1. pick = FirstIn(chosen)
  BY DEF IInv, DecidedOK, Picked
<1>2. ranked \in Seq(Services) /\ (ranked # <<>> => IsInjective(ranked))
  BY RankedFacts DEF Whole
<1>3. /\ DOMAIN ranked = 1..Len(ranked) /\ Len(ranked) \in Nat
      /\ \A i \in 1..Len(ranked) : ranked[i] \in Services /\ ranked[i] # Unknown
  <2>1. Unknown \notin Services
    BY RankAssumption DEF Services, Unknown
  <2> QED
    BY <1>2, <2>1
<1>4. \/ pick = Unknown /\ \A i \in 1..Len(ranked) : ranked[i] \notin chosen
      \/ \E m \in 1..Len(ranked) : /\ pick = ranked[m] /\ ranked[m] \in chosen
                                   /\ \A i \in 1..(m - 1) : ranked[i] \notin chosen
  <2> HIDE DEF chosen
  <2> QED
    BY <1>1, <1>2, FirstInFirst
<1>5. ASSUME Anomalous # {}
      PROVE  pick = Head(ranked)
  <2>1. ranked # <<>> /\ Head(ranked) \in Anomalous
    BY <1>5, RankedFacts
  <2>2. 1 \in 1..Len(ranked) /\ Head(ranked) = ranked[1] /\ ranked[1] \in ToSet(ranked)
    BY <1>2, <1>3, <2>1 DEF ToSet
  <2>3. ranked[1] \notin Refuted
    BY <2>1, <2>2 DEF Refuted, RefutedBy
  <2>4. ranked[1] \in chosen
    BY <2>2, <2>3
  <2>5. PICK m \in 1..Len(ranked) : pick = ranked[m] /\ \A i \in 1..(m - 1) : ranked[i] \notin chosen
    BY <1>4, <2>2, <2>4
  <2>6. m = 1
    <3> HIDE DEF chosen
    <3> QED
      BY <1>3, <2>2, <2>4, <2>5
  <2> QED
    BY <2>2, <2>5, <2>6
<1>6. \A i \in 1..Len(ranked) : ranked[i] \in ToSet(ranked)
  BY <1>3 DEF ToSet
<1>7. ASSUME ranked # <<>>
      PROVE  \E m \in 1..Len(ranked) : /\ pick = ranked[m]
                                       /\ \A i \in 1..(m - 1) : ranked[i] \in Refuted
  <2>1. \E i \in 1..Len(ranked) : ranked[i] \in chosen
    <3>1. 1 \in 1..Len(ranked)
      BY <1>2, <1>7
    <3>2. CASE remaining = {}
      BY <1>6, <3>1, <3>2
    <3>3. CASE remaining # {}
      BY <1>3, <3>3 DEF ToSet
    <3> QED
      BY <3>2, <3>3
  <2>2. PICK m \in 1..Len(ranked) : pick = ranked[m] /\ \A i \in 1..(m - 1) : ranked[i] \notin chosen
    <3> HIDE DEF chosen
    <3> QED
      BY <1>4, <2>1
  <2>3. \A i \in 1..(m - 1) : i \in 1..Len(ranked) /\ ranked[i] \in ToSet(ranked) \ chosen
    BY <1>3, <1>6, <2>2
  <2>4. \A i \in 1..(m - 1) : ranked[i] \in Refuted
    BY <2>3
  <2> QED
    BY <2>2, <2>4
<1>8. ASSUME pick \in Refuted
      PROVE  ToSet(ranked) \subseteq Refuted
  <2>1. pick \in chosen \/ pick = Unknown
    <3> HIDE DEF chosen
    <3> QED
      BY <1>4
  <2>2. CASE pick \in chosen
    BY <1>8, <2>2
  <2>3. CASE pick = Unknown
    BY <1>3, <1>7, <2>3 DEF ToSet
  <2> QED
    BY <2>1, <2>2, <2>3
<1> QED
  BY <1>5, <1>7, <1>8

LEMMA PickIsDecided == IInv => PickIsMovedByVerdict
<1> SUFFICES ASSUME IInv, pc = "done" PROVE PickIsMovedByVerdict
  BY DEF PickIsMovedByVerdict, WorkersCannotMovePick, DisplacedOnlyByVerdict
<1>1. ASSUME ranked # <<>>, NEW i \in 1..Len(ranked), NEW j \in (i + 1)..Len(ranked),
             ranked[j] = pick
      PROVE  \E w \in Index : hyps[w] = ranked[i] /\ verdict[w] \in {"refuted", "malformed"}
  <2>1. DOMAIN ranked = 1..Len(ranked) /\ Len(ranked) \in Nat /\ IsInjective(ranked)
    BY <1>1, RankedFacts DEF Whole
  <2>2. PICK m \in 1..Len(ranked) : pick = ranked[m] /\ \A k \in 1..(m - 1) : ranked[k] \in Refuted
    BY <1>1, PickIsFirst
  <2>3. j \in 1..Len(ranked) /\ i < j
    BY <1>1, <2>1
  <2>4. m = j
    BY <1>1, <2>1, <2>2, <2>3 DEF IsInjective
  <2>5. ranked[i] \in Refuted
    BY <2>1, <2>2, <2>3, <2>4
  <2> QED
    BY <2>5 DEF Refuted, RefutedBy
<1> QED
  BY <1>1, PickIsFirst DEF PickIsMovedByVerdict, WorkersCannotMovePick, DisplacedOnlyByVerdict

LEMMA PickWasTested == IInv => PickIsInvestigated
<1> SUFFICES ASSUME IInv, pc = "done", pick \in Anomalous
             PROVE  /\ pick \in ToSet(hyps)
                    /\ \A i \in Index : hyps[i] = pick => verdict[i] \in {"none", "supported"}
  BY DEF PickIsInvestigated
<1>1. pick = Head(ranked)
  BY PickIsDecided DEF PickIsMovedByVerdict, WorkersCannotMovePick
<1> QED
  BY <1>1 DEF IInv, PoolOK

(* The catalog's rows for what a brief may ask: none, or two that begin      *)
(* with one that changes the system.                                         *)
Remedies == {<<"restart", "scale">>, <<"restart", "page_oncall">>,
             <<"remove_impairment", "restart">>, <<"restart", "remove_impairment">>,
             <<"revert_change", "restart">>}

LEMMA KeysInTable ==
  DOMAIN Table = {"cpu", "mem", "memory", "disk", "delay", "loss", "socket", "error", "flag_injected"}
  /\ DOMAIN SignatureFallback = FamilySet
BY DEF Table, SignatureFallback, FamilySet

LEMMA RowsAre ==
  ASSUME NEW typeKey \in {"none", "disk", "socket"}, NEW signature \in FamilySet \cup {"none"}
  PROVE  /\ _key(typeKey, signature) \in Remedies \cup {<<>>}
         /\ typeKey = "none" /\ signature \in FamilySet =>
              _key(typeKey, signature) = Table[SignatureFallback[signature]]
<1>1. /\ typeKey \in DOMAIN Table => _key(typeKey, signature) = Table[typeKey]
      /\ typeKey \notin DOMAIN Table /\ signature \in DOMAIN SignatureFallback =>
           _key(typeKey, signature) = Table[SignatureFallback[signature]]
      /\ typeKey \notin DOMAIN Table /\ signature \notin DOMAIN SignatureFallback =>
           _key(typeKey, signature) = <<>>
  BY Zenon DEF _key
<1>2. /\ "disk" \in DOMAIN Table /\ "socket" \in DOMAIN Table /\ "none" \notin DOMAIN Table
      /\ "none" \notin DOMAIN SignatureFallback
      /\ \A fam \in FamilySet : fam \in DOMAIN SignatureFallback
  BY KeysInTable DEF FamilySet
<1>3. Table["disk"] \in Remedies /\ Table["socket"] \in Remedies
  BY DEF Table, Remedies
<1>4. \A fam \in FamilySet : Table[SignatureFallback[fam]] \in Remedies
  BY DEF Table, SignatureFallback, Remedies, FamilySet
<1> QED
  BY <1>1, <1>2, <1>3, <1>4

LEMMA RemedyElected ==
  ASSUME NEW rows \in Remedies, NEW t, NEW actions,
         actions = [i \in DOMAIN rows |-> [kind |-> rows[i], target |-> t]]
  PROVE  /\ elect_primary(actions) = [kind |-> Head(rows), target |-> t]
         /\ Head(rows) \in MutateKinds
         /\ elect_primary(actions) \in ToSet(actions)
         /\ \A a \in ToSet(actions) : a.target = t
<1>1. DOMAIN rows = 1..2 /\ Head(rows) = rows[1] /\ rows[1] \in MutateKinds
  BY DEF Remedies, MutateKinds
<1> DEFINE mutating == {i \in DOMAIN actions : Effect(actions[i].kind) = "mutate"}
<1>2. /\ DOMAIN actions = 1..2
      /\ \A i \in 1..2 : actions[i] = [kind |-> rows[i], target |-> t]
  BY <1>1
<1>3. 1 \in mutating /\ mutating \in SUBSET Nat /\ \A i \in mutating : i >= 1
  BY <1>1, <1>2 DEF Effect
<1>4. Min(mutating) = 1
  <2>1. Min(mutating) \in mutating /\ \A i \in mutating : Min(mutating) <= i
    <3> HIDE DEF mutating
    <3> QED
      BY <1>3, LeastIsMin
  <2>2. Min(mutating) \in Nat /\ Min(mutating) >= 1 /\ Min(mutating) <= 1
    <3> HIDE DEF mutating
    <3> QED
      BY <1>3, <2>1
  <2> HIDE DEF mutating
  <2> QED
    BY <2>2
<1>5. elect_primary(actions) = actions[1]
  <2>1. elect_primary(actions) = IF mutating = {} THEN NoAction ELSE actions[Min(mutating)]
    BY DEF elect_primary
  <2> HIDE DEF mutating
  <2> QED
    BY <1>3, <1>4, <2>1
<1> QED
  BY <1>1, <1>2, <1>5 DEF ToSet

(* The signature a brief takes from a verdict on what has stepped is of a    *)
(* family that did step there.                                               *)
LEMMA SignatureStepped ==
  ASSUME Static, NEW i, i # 0, hyps[i] \in Anomalous, NEW signature \in SignaturesIn(i)
  PROVE  signature \in FamilySet /\ Z(hyps[i], signature) >= ZMin
<1> DEFINE steps == {f \in 1..3 : Z(hyps[i], Families[f]) >= ZMin}
<1>1. SignaturesIn(i) = {Families[Min(steps)]}
  BY Zenon DEF SignaturesIn
<1>2. hyps[i] \in Services /\ MaxZ(hyps[i]) >= ZMin
  BY NodesFinite DEF Anomalous
<1>3. steps \in SUBSET Nat /\ steps # {}
  BY <1>2, MaxZTop DEF FamilySet, Families
<1>4. Min(steps) \in steps
  <2> HIDE DEF steps
  <2> QED
    BY <1>3, LeastIsMin
<1> QED
  BY <1>1, <1>4 DEF Families, FamilySet

LEMMA EvidenceIsThere ==
  ASSUME NEW s, NEW accusers, \E i \in Index : hyps[i] = s /\ verdict[i] = "supported"
  PROVE  _top_evidence(s, accusers) # 0
<1> DEFINE about == {i \in Index : verdict[i] # "none" /\ (hyps[i] = s \/ i \in accusers)}
<1>1. about \in SUBSET Nat /\ about # {} /\ 0 \notin about
  BY DEF Index
<1>2. Min(about) \in about
  <2> HIDE DEF about
  <2> QED
    BY <1>1, LeastIsMin
<1>3. _top_evidence(s, accusers) = Min(about)
  <2>1. _top_evidence(s, accusers) = IF about = {} THEN 0 ELSE Min(about)
    BY DEF _top_evidence
  <2> HIDE DEF about
  <2> QED
    BY <1>1, <2>1
<1> QED
  BY <1>1, <1>2, <1>3

LEMMA NothingElected ==
  ASSUME NEW actions, \A i \in DOMAIN actions : Effect(actions[i].kind) # "mutate"
  PROVE  elect_primary(actions) = NoAction
BY DEF elect_primary

LEMMA ButtonHasBacking == IInv => ButtonIsBacked
<1> DEFINE primary == elect_primary(brief.actions)
           On(s) == PostedTo(s, primary, brief.actions)
           mutating == {a \in On("web") : Effect(a.kind) = "mutate"}
<1> SUFFICES ASSUME IInv, pc = "proposed", mutating # {}
             PROVE  /\ \A a \in mutating : a.target = pick
                    /\ \E i \in Index : hyps[i] = pick /\ verdict[i] = "supported"
                    /\ pick \in Refuted => ToSet(ranked) \subseteq Refuted
                    /\ Anomalous # {} /\ kind = "loss" =>
                         /\ primary.target = origin
                         /\ hyps[brief.cited] = pick =>
                              \E fam \in FamilySet :
                                /\ Z(pick, fam) >= ZMin
                                /\ primary.kind = Head(Table[SignatureFallback[fam]])
                    /\ On("slack") = {primary} /\ primary \in On("web")
  BY DEF ButtonIsBacked
<1>1. PICK accusers \in SUBSET MayAccuse :
        \E signature \in SignaturesIn(_top_evidence(pick, accusers)), typeKey \in TypeKeys :
           brief = [actions |-> IF pick = Unknown THEN <<>>
                                ELSE suggest_actions(pick, typeKey, signature, Confident),
                    cited   |-> _top_evidence(pick, accusers)]
  BY DEF IInv, BriefOK
<1> DEFINE cited == _top_evidence(pick, accusers)
<1>2. PICK signature \in SignaturesIn(cited), typeKey \in TypeKeys :
           brief = [actions |-> IF pick = Unknown THEN <<>>
                                ELSE suggest_actions(pick, typeKey, signature, Confident),
                    cited   |-> cited]
  BY <1>1
<1>3. On("web") = ({primary} \ {NoAction}) \cup (ToSet(brief.actions) \ {primary})
  BY DEF PostedTo, Proposed
<1>4. ASSUME \A i \in DOMAIN brief.actions : Effect(brief.actions[i].kind) # "mutate"
      PROVE  FALSE
  <2>1. primary = NoAction
    BY <1>4, NothingElected
  <2>2. \A a \in ToSet(brief.actions) : Effect(a.kind) # "mutate"
    BY <1>4 DEF ToSet
  <2> HIDE DEF primary
  <2> QED
    BY <1>3, <2>1, <2>2
<1>5. pick # Unknown
  <2>1. ASSUME pick = Unknown
        PROVE  FALSE
    <3>1. brief.actions = <<>>
      BY <1>2, <2>1
    <3>2. DOMAIN brief.actions = {}
      BY <3>1
    <3> QED
      BY <1>4, <3>2
  <2> QED
    BY <2>1
<1> DEFINE found == IF Confident THEN _key(typeKey, signature) ELSE <<>>
           rows == IF found = <<>> THEN NotifyOnly ELSE found
<1>6. brief.actions = [i \in DOMAIN rows |-> [kind |-> rows[i], target |-> pick]]
  BY <1>2, <1>5 DEF suggest_actions
<1>7. rows # NotifyOnly
  <2>1. ASSUME rows = NotifyOnly
        PROVE  FALSE
    <3>1. /\ DOMAIN brief.actions = 1..2
          /\ \A i \in 1..2 : brief.actions[i].kind \notin MutateKinds
      BY <1>6, <2>1 DEF NotifyOnly, MutateKinds
    <3> QED
      BY <1>4, <3>1 DEF Effect
  <2> QED
    BY <2>1
<1>8. Confident /\ _key(typeKey, signature) # <<>> /\ rows = _key(typeKey, signature)
  BY <1>7
<1>9. typeKey \in {"none", "disk", "socket"} /\ signature \in FamilySet \cup {"none"}
  <2>1. typeKey \in {"none", "disk", "socket"}
    BY DEF TypeKeys
  <2>2. signature \in {"none"} \/ signature \in FamilySet
    <3>1. CASE cited = 0
      BY <3>1, Zenon DEF SignaturesIn
    <3>2. CASE cited # 0 /\ hyps[cited] \in Anomalous
      BY <3>2, SignatureStepped, RankedFacts DEF IInv, IncidentOK
    <3>3. CASE cited # 0 /\ hyps[cited] \notin Anomalous
      <4>1. SignaturesIn(cited) = FamilySet \cup {"none"}
        BY <3>3, Zenon DEF SignaturesIn
      <4> QED
        BY <4>1
    <3> QED
      BY <3>1, <3>2, <3>3
  <2> QED
    BY <2>1, <2>2
<1>10. rows \in Remedies
  BY <1>8, <1>9, RowsAre
<1> HIDE DEF rows
<1>11. /\ primary = [kind |-> Head(rows), target |-> pick]
       /\ Head(rows) \in MutateKinds
       /\ primary \in ToSet(brief.actions)
       /\ \A a \in ToSet(brief.actions) : a.target = pick
  BY <1>6, <1>10, RemedyElected
<1>12. primary # NoAction
  <2>1. primary.kind \in MutateKinds
    BY <1>11
  <2>2. NoAction.kind \notin MutateKinds
    BY DEF NoAction, MutateKinds
  <2> QED
    BY <2>1, <2>2
<1> HIDE DEF primary
<1>13. \A a \in mutating : a.target = pick
  BY <1>3, <1>11
<1>14. \E i \in Index : hyps[i] = pick /\ verdict[i] = "supported"
  BY <1>8 DEF Confident
<1>15. pick \in Refuted => ToSet(ranked) \subseteq Refuted
  BY PickIsFirst
<1>16. On("slack") = {primary} /\ primary \in On("web")
  BY <1>3, <1>12 DEF PostedTo
<1>17. ASSUME Anomalous # {}, kind = "loss"
       PROVE  /\ primary.target = origin
              /\ hyps[brief.cited] = pick =>
                   \E fam \in FamilySet : /\ Z(pick, fam) >= ZMin
                                          /\ primary.kind = Head(Table[SignatureFallback[fam]])
  <2>1. edges # {}
    BY <1>17 DEF Anomalous, Nodes
  <2>2. Chosen /\ ranked \in Rankings
    BY <2>1 DEF IInv, IncidentOK, RankedOK
  <2>3. Head(ranked) = origin /\ pick = Head(ranked) /\ pick \in Anomalous
    BY <1>17, <2>2, LossOrigin, PickIsFirst, RankedFacts
  <2>4. ASSUME hyps[cited] = pick
        PROVE  \E fam \in FamilySet : /\ Z(pick, fam) >= ZMin
                                      /\ primary.kind = Head(Table[SignatureFallback[fam]])
    <3>1. cited # 0
      BY <1>14, EvidenceIsThere
    <3>2. signature \in FamilySet /\ Z(pick, signature) >= ZMin
      BY <2>3, <2>4, <3>1, SignatureStepped DEF IInv, IncidentOK
    <3>3. typeKey = "none"
      BY <2>3 DEF TypeKeys
    <3>4. rows = Table[SignatureFallback[signature]]
      BY <1>8, <1>9, <3>2, <3>3, RowsAre
    <3> QED
      BY <1>11, <3>2, <3>4
  <2> QED
    BY <1>2, <1>11, <2>3, <2>4
<1> QED
  BY <1>13, <1>14, <1>15, <1>16, <1>17

LEMMA RemedyHasBacking == IInv => RemedyIsBacked
BY PickWasTested, ButtonHasBacking DEF RemedyIsBacked

-----------------------------------------------------------------------------
(* The investigation leaves no worker behind, whether it returns or raises    *)
(* (rca.py:160-164).                                                          *)
THEOREM PoolIsLeftEmpty == RcaSpec => []NoWorkerOutlivesRun
<1> QED
  BY InitOK, StepOK, WorkersAreGone, PTL DEF RcaSpec

(* Workers move the pick only by verdicts on the very services displaced, and  *)
(* not at all once something has stepped (rca.py:166-178).                    *)
THEOREM PickRestsOnVerdicts == RcaSpec => []PickIsMovedByVerdict
<1> QED
  BY InitOK, StepOK, PickIsDecided, PTL DEF RcaSpec

(* A pick that stepped was tested, and a button that changes the system is     *)
(* offered on no less than a worker's word for its target (brief.py:54-69,    *)
(* catalog.py:66-70, run.py:28-43).                                           *)
THEOREM RemedyRestsOnWork == RcaSpec => []RemedyIsBacked
<1> QED
  BY InitOK, StepOK, RemedyHasBacking, PTL DEF RcaSpec
=============================================================================
