---------------------------- MODULE EventBusProofs ----------------------------
(***************************************************************************)
(* What a run's bus promises its viewers, for any number of viewers, any   *)
(* capacity of the ring and any number of lost connections, failed writes  *)
(* and deaths: frames are handed over in order and once, nothing shown is  *)
(* missing from the journal, and only what left the ring is skipped.       *)
(*                                                                         *)
(* The invariant is one of the bus (BusOK) and, for each viewer, of its    *)
(* connection (StreamOK) and its page (PageOK). What carries a reconnected *)
(* viewer from one source of frames to the other is Pending: everything    *)
(* between the last frame it saw and the newest is on its way or evicted.  *)
(***************************************************************************)
EXTENDS EventBus, SequenceTheorems, WellFoundedInduction, TLAPS

InOrder(s) == \A i, j \in 1..Len(s) : i < j => s[i] < s[j]
Has(s, m)  == \E i \in 1..Len(s) : s[i] = m

Views == [lastSeq : Nat, phases : Seq(Nat), error : BOOLEAN, done : BOOLEAN]

(* The view that saw everything has counted every frame. *)
WholeOK ==
  /\ whole \in Seq(Views) /\ Len(whole) = Len(log)
  /\ \A n \in 1..Len(log) : /\ whole[n] = reduce(WholeView(n - 1), Frame(n, log[n]))
                            /\ whole[n].lastSeq = n

(* The ring is the end of the log; the file is all of it but failed writes. *)
BusOK ==
  /\ log \in Seq(Events) /\ journaled \in BOOLEAN /\ writeErrors \in Nat
  /\ ring \in Seq(Nat) /\ Len(ring) <= Len(log)
  /\ \A i \in 1..Len(ring) : ring[i] = Len(log) - Len(ring) + i
  /\ disk \in Seq(Nat) /\ InOrder(disk)
  /\ \A i \in 1..Len(disk) : disk[i] \in 1..Len(log)
  /\ journaled /\ writeErrors = 0 => \A n \in 1..Len(log) : Has(disk, n)
  /\ emitter \in {"running", "closing"} => ~closed

(* What is on its way to a viewer: newer than what it saw, in order, and    *)
(* nothing after the end of the stream.                                     *)
OnItsWay(q, seen, newest) ==
  /\ q \in Seq(Nat)
  /\ \A i \in 1..Len(q) :
       /\ q[i] <= newest
       /\ q[i] = End \/ q[i] > seen
       /\ q[i] = End => i = Len(q)
       /\ \A j \in 1..Len(q) : i < j /\ q[j] # End => q[i] < q[j]

StreamOK(v) ==
  /\ conn[v] \in {"down", "live", "stored", "over"}
  /\ OnItsWay(queue[v], lastSeq[v], Len(log))
  /\ conn[v] \in {"down", "over"} => queue[v] = <<>>
  /\ conn[v] = "live" /\ emitter \in {"running", "closing"} => ~Has(queue[v], End)
  /\ conn[v] = "stored" => emitter \in {"exited", "dead"}

Pending(v) ==
  writeErrors = 0 /\ conn[v] \in {"live", "stored"} =>
    \A m \in (lastSeq[v] + 1)..Len(log) : Has(queue[v], m) \/ ~Has(ring, m)

Skipped(v) ==
  writeErrors = 0 => \A m \in 1..lastSeq[v] : Has(got[v], m) \/ ~Has(ring, m)

(* What a page has seen, and made of it. *)
PageOK(v) ==
  /\ lastSeq[v] \in 0..Len(log)
  /\ got[v] \in Seq(Nat) /\ InOrder(got[v]) /\ Len(got[v]) <= lastSeq[v]
  /\ \A i \in 1..Len(got[v]) : got[v][i] \in 1..lastSeq[v]
  /\ view[v] \in Views /\ view[v].lastSeq = lastSeq[v]
  /\ view[v].done = (conn[v] = "over")
  /\ Len(got[v]) = lastSeq[v] => view[v] = WholeView(lastSeq[v])

FunctionsOK ==
  /\ DOMAIN conn = Viewers /\ DOMAIN queue = Viewers /\ DOMAIN lastSeq = Viewers
  /\ DOMAIN got = Viewers /\ DOMAIN view = Viewers

ViewerOK(v) == StreamOK(v) /\ Pending(v) /\ Skipped(v) /\ PageOK(v)

IInv == WholeOK /\ BusOK /\ FunctionsOK /\ \A v \in Viewers : ViewerOK(v)
-----------------------------------------------------------------------------
(* Induction over the naturals, as the least member of a set of them. *)
LEMMA LeastMember ==
  ASSUME NEW S \in SUBSET Nat, S # {}
  PROVE  \E i \in S : \A j \in S : i <= j
<1>1. PICK i \in S : \A j \in S : ~(<<j, i>> \in OpToRel(<, Nat))
  BY NatLessThanWellFounded, WFMin
<1>2. i \in S
  BY <1>1
<1>3. ASSUME NEW j \in S
      PROVE  ~(j < i)
  <2>1. <<j, i>> \notin OpToRel(<, Nat)
    BY <1>1
  <2>2. j \in Nat /\ i \in Nat
    BY <1>2
  <2> QED
    BY <2>1, <2>2, Zenon DEF OpToRel
<1> QED
  BY <1>2, <1>3

(* The boundary in a sequence in order. *)
LEMMA Boundary ==
  ASSUME NEW s \in Seq(Nat), InOrder(s), NEW n \in Nat
  PROVE  \E k \in 0..Len(s) : /\ \A i \in 1..k : s[i] <= n
                              /\ \A i \in (k + 1)..Len(s) : s[i] > n
<1> DEFINE newer == {i \in 1..Len(s) : s[i] > n}
<1>1. CASE newer = {}
  <2> WITNESS Len(s) \in 0..Len(s)
  <2> QED
    BY <1>1
<1>2. CASE newer # {}
  <2>1. PICK i \in newer : \A j \in newer : i <= j
    <3>1. newer \in SUBSET Nat
      OBVIOUS
    <3> HIDE DEF newer
    <3> QED
      BY <1>2, <3>1, LeastMember
  <2> WITNESS i - 1 \in 0..Len(s)
  <2>2. \A j \in 1..(i - 1) : s[j] <= n
    BY <2>1
  <2>3. \A j \in (i - 1 + 1)..Len(s) : s[j] > n
    BY <2>1 DEF InOrder
  <2> QED
    BY <2>2, <2>3
<1> QED
  BY <1>1, <1>2

LEMMA Appended ==
  ASSUME NEW s \in Seq(Nat), NEW n \in Nat
  PROVE  /\ Append(s, n) \in Seq(Nat) /\ Len(Append(s, n)) = Len(s) + 1
         /\ \A i \in 1..Len(s) : Append(s, n)[i] = s[i]
         /\ Append(s, n)[Len(s) + 1] = n
         /\ \A i \in 1..(Len(s) + 1) : i \in 1..Len(s) \/ i = Len(s) + 1
         /\ \A m : Has(Append(s, n), m) <=> Has(s, m) \/ m = n
         /\ InOrder(s) /\ (\A i \in 1..Len(s) : s[i] < n) => InOrder(Append(s, n))
<1> DEFINE t == Append(s, n)
<1>1. /\ t \in Seq(Nat) /\ Len(t) = Len(s) + 1
      /\ \A i \in 1..Len(s) : t[i] = s[i]
      /\ t[Len(s) + 1] = n
  OBVIOUS
<1>2. \A i \in 1..(Len(s) + 1) : i \in 1..Len(s) \/ i = Len(s) + 1
  OBVIOUS
<1> HIDE DEF t
<1>3. ASSUME NEW m
      PROVE  Has(t, m) <=> Has(s, m) \/ m = n
  <2>1. Has(t, m) => Has(s, m) \/ m = n
    BY <1>1, <1>2 DEF Has
  <2>2. Has(s, m) => Has(t, m)
    <3>1. \A i \in 1..Len(s) : i \in 1..Len(t)
      BY <1>1
    <3> QED
      BY <1>1, <3>1 DEF Has
  <2>3. m = n => Has(t, m)
    <3>1. Len(s) + 1 \in 1..Len(t)
      BY <1>1
    <3> QED
      BY <1>1, <3>1 DEF Has
  <2> QED
    BY <2>1, <2>2, <2>3
<1>4. InOrder(s) /\ (\A i \in 1..Len(s) : s[i] < n) => InOrder(t)
  <2> SUFFICES ASSUME InOrder(s), \A i \in 1..Len(s) : s[i] < n,
                      NEW i \in 1..Len(t), NEW j \in 1..Len(t), i < j
               PROVE  t[i] < t[j]
    BY DEF InOrder
  <2>1. i \in 1..Len(s)
    BY <1>1
  <2>2. CASE j \in 1..Len(s)
    BY <1>1, <2>1, <2>2 DEF InOrder
  <2>3. CASE j = Len(s) + 1
    BY <1>1, <2>1, <2>3
  <2> QED
    BY <1>1, <1>2, <2>2, <2>3
<1> QED
  BY <1>1, <1>2, <1>3, <1>4 DEF t

(* After is the filter it stands for: what is newer than n, in order. *)
LEMMA AfterOK ==
  ASSUME NEW s \in Seq(Nat), InOrder(s), NEW n \in Nat
  PROVE  \E k \in 0..Len(s) :
           /\ \A i \in 1..k : s[i] <= n
           /\ \A i \in (k + 1)..Len(s) : s[i] > n
           /\ After(s, n) = SubSeq(s, k + 1, Len(s))
<1>1. PICK k \in 0..Len(s) : /\ \A i \in 1..k : s[i] <= n
                             /\ \A i \in (k + 1)..Len(s) : s[i] > n
  BY Boundary
<1> DEFINE older == {i \in 1..Len(s) : s[i] <= n}
<1>2. Max({0} \cup older) = k
  <2>1. k \in {0} \cup older
    BY <1>1
  <2>2. \A i \in {0} \cup older : i <= k
    BY <1>1, ElementOfSeq
  <2> HIDE DEF older
  <2>3. \A m \in {0} \cup older : (\A i \in {0} \cup older : m >= i) => m = k
    BY <2>1, <2>2 DEF older
  <2> QED
    BY <2>1, <2>2, <2>3 DEF Max
<1> QED
  BY <1>1, <1>2 DEF After
-----------------------------------------------------------------------------
LEMMA InitialView == initialRunView \in Views /\ initialRunView.lastSeq = 0 /\ ~initialRunView.done
<1>1. <<>> \in Seq(Nat)
  OBVIOUS
<1> QED
  BY <1>1 DEF initialRunView, Views

LEMMA InitOK == Init => IInv
<1> SUFFICES ASSUME Init
             PROVE  IInv
  OBVIOUS
<1>1. WholeOK
  BY DEF Init, WholeOK
<1>2. BusOK
  BY EventBusBounds DEF Init, BusOK, InOrder, Has
<1>3. FunctionsOK
  BY DEF Init, FunctionsOK
<1>4. ASSUME NEW v \in Viewers
      PROVE  ViewerOK(v)
  <2>1. /\ log = <<>> /\ ring = <<>> /\ conn[v] = "down" /\ queue[v] = <<>>
        /\ lastSeq[v] = 0 /\ got[v] = <<>> /\ view[v] = initialRunView
    BY DEF Init
  <2>2. StreamOK(v) /\ Pending(v) /\ Skipped(v)
    BY <2>1 DEF StreamOK, OnItsWay, Pending, Skipped, Has
  <2>3. PageOK(v)
    <3>1. view[v].done = (conn[v] = "over")
      <4>1. view[v].done = FALSE
        BY <2>1 DEF initialRunView
      <4>2. (conn[v] = "over") = FALSE
        BY <2>1
      <4> QED
        BY <4>1, <4>2
    <3>2. view[v] \in Views /\ view[v].lastSeq = 0 /\ view[v] = WholeView(0)
      BY <2>1, InitialView DEF WholeView
    <3>3. <<>> \in Seq(Nat) /\ Len(<<>>) = 0
      OBVIOUS
    <3> QED
      BY <2>1, <3>1, <3>2, <3>3 DEF PageOK, InOrder
  <2> QED
    BY <2>2, <2>3 DEF ViewerOK
<1> QED
  BY <1>1, <1>2, <1>3, <1>4 DEF IInv

(* What a frame newer than all it has seen makes of a page's view. *)
LEMMA ReduceOK ==
  ASSUME NEW state \in Views, NEW n \in Nat, n > state.lastSeq, NEW event \in Events
  PROVE  /\ reduce(state, Frame(n, event)) \in Views
         /\ reduce(state, Frame(n, event)).lastSeq = n
         /\ reduce(state, Frame(n, event)).done = (state.done \/ event = "done")
  BY DEF reduce, Frame, Views, Events

LEMMA WholeViewOK ==
  ASSUME IInv, NEW n \in 0..Len(log)
  PROVE  WholeView(n) \in Views /\ WholeView(n).lastSeq = n
<1>1. CASE n = 0
  BY <1>1, InitialView DEF WholeView
<1>2. CASE n # 0
  <2>1. n \in 1..Len(whole) /\ whole \in Seq(Views) /\ Len(whole) = Len(log)
    BY <1>2 DEF IInv, WholeOK, BusOK
  <2> QED
    BY <1>2, <2>1 DEF IInv, WholeOK, WholeView
<1> QED
  BY <1>1, <1>2

(* The ring takes the new frame, and what leaves it is the oldest. *)
LEMMA NumberedOK ==
  ASSUME IInv, NEW event \in Events, Numbered(event)
  PROVE  /\ WholeOK'
         /\ log' \in Seq(Events) /\ Len(log') = Len(log) + 1
         /\ \A n \in 1..Len(log) : log'[n] = log[n]
         /\ \A n \in 0..Len(log) : WholeView(n)' = WholeView(n)
         /\ ring' \in Seq(Nat) /\ Len(ring') <= Len(log')
         /\ \A i \in 1..Len(ring') : ring'[i] = Len(log') - Len(ring') + i
         /\ \A m \in 1..Len(log) : Has(ring', m) => Has(ring, m)
<1>1. /\ log \in Seq(Events) /\ ring \in Seq(Nat) /\ Len(ring) <= Len(log)
      /\ \A i \in 1..Len(ring) : ring[i] = Len(log) - Len(ring) + i
      /\ whole \in Seq(Views) /\ Len(whole) = Len(log)
  BY DEF IInv, BusOK, WholeOK
<1>2. /\ log' \in Seq(Events) /\ Len(log') = Len(log) + 1
      /\ \A n \in 1..Len(log) : log'[n] = log[n]
      /\ log'[Len(log) + 1] = event
  BY <1>1 DEF Numbered
<1>3. WholeOK' /\ \A n \in 0..Len(log) : WholeView(n)' = WholeView(n)
  <2> DEFINE seen == reduce(WholeView(Len(log)), Frame(next, event))
  <2>1. seen \in Views /\ seen.lastSeq = Len(log) + 1
    <3>1. WholeView(Len(log)) \in Views /\ WholeView(Len(log)).lastSeq = Len(log)
      BY <1>1, WholeViewOK
    <3>2. next \in Nat /\ next > WholeView(Len(log)).lastSeq
      BY <1>1, <3>1 DEF next
    <3> QED
      BY <3>1, <3>2, ReduceOK DEF next
  <2>2. whole' = Append(whole, seen)
    BY DEF Numbered
  <2>3. /\ whole' \in Seq(Views) /\ Len(whole') = Len(whole) + 1
        /\ \A n \in 1..Len(log) : whole'[n] = whole[n]
        /\ whole'[Len(log) + 1] = seen
    <3> HIDE DEF seen
    <3> QED
      BY <1>1, <2>1, <2>2
  <2>4. \A n \in 0..Len(log) : WholeView(n)' = WholeView(n)
    BY <2>3 DEF WholeView
  <2>5. \A n \in 1..Len(log) : /\ whole[n] = reduce(WholeView(n - 1), Frame(n, log[n]))
                              /\ whole[n].lastSeq = n
    BY DEF IInv, WholeOK
  <2>6. ASSUME NEW n \in 1..Len(log')
        PROVE  /\ whole'[n] = reduce(WholeView(n - 1)', Frame(n, log'[n]))
               /\ whole'[n].lastSeq = n
    <3>1. CASE n \in 1..Len(log)
      <4>1. n - 1 \in 0..Len(log)
        BY <1>1, <3>1
      <4> QED
        BY <3>1, <4>1, <1>2, <2>3, <2>4, <2>5
    <3>2. CASE n = Len(log) + 1
      <4>1. n - 1 = Len(log) /\ n - 1 \in 0..Len(log)
        BY <1>1, <3>2
      <4> QED
        BY <3>2, <4>1, <1>2, <2>1, <2>3, <2>4 DEF next
    <3> QED
      BY <1>1, <1>2, <3>1, <3>2
  <2> QED
    BY <1>1, <1>2, <2>3, <2>4, <2>6 DEF WholeOK
<1>4. ring' = Pushed(Len(log) + 1)
  BY DEF Numbered, next
<1>5. CASE Len(ring) < Ring
  <2>1. ring' = Append(ring, Len(log) + 1)
    BY <1>4, <1>5 DEF Pushed
  <2>2. /\ ring' \in Seq(Nat) /\ Len(ring') = Len(ring) + 1
        /\ \A i \in 1..Len(ring) : ring'[i] = ring[i]
        /\ ring'[Len(ring) + 1] = Len(log) + 1
        /\ \A i \in 1..(Len(ring) + 1) : i \in 1..Len(ring) \/ i = Len(ring) + 1
        /\ \A m : Has(ring', m) <=> Has(ring, m) \/ m = Len(log) + 1
    BY <1>1, <2>1, Appended
  <2>3. \A i \in 1..Len(ring') : ring'[i] = Len(log') - Len(ring') + i
    <3> SUFFICES ASSUME NEW i \in 1..Len(ring')
                 PROVE  ring'[i] = Len(log) + 1 - (Len(ring) + 1) + i
      BY <1>2, <2>2
    <3>1. CASE i \in 1..Len(ring)
      <4>1. ring'[i] = Len(log) - Len(ring) + i
        BY <1>1, <2>2, <3>1
      <4> QED
        BY <1>1, <3>1, <4>1
    <3>2. CASE i = Len(ring) + 1
      BY <1>1, <2>2, <3>2
    <3> QED
      BY <2>2, <3>1, <3>2
  <2>4. \A m \in 1..Len(log) : Has(ring', m) => Has(ring, m)
    BY <1>1, <2>2
  <2> QED
    BY <1>1, <1>2, <1>3, <2>2, <2>3, <2>4
<1>6. CASE ~(Len(ring) < Ring)
  <2>1. ring' = Append(Tail(ring), Len(log) + 1) /\ ring # <<>>
    BY <1>1, <1>4, <1>6, EventBusBounds DEF Pushed
  <2>2. PICK kept \in Seq(Nat) : /\ kept = Tail(ring) /\ Len(kept) = Len(ring) - 1
                                 /\ \A i \in 1..Len(kept) : kept[i] = ring[i + 1]
    <3>1. Tail(ring) \in Seq(Nat) /\ Len(Tail(ring)) = Len(ring) - 1
      BY <1>1, <2>1
    <3>2. \A i \in 1..Len(Tail(ring)) : Tail(ring)[i] = ring[i + 1]
      BY <1>1, <2>1
    <3> QED
      BY <3>1, <3>2, Zenon
  <2>3. ring' = Append(kept, Len(log) + 1)
    BY <2>1, <2>2
  <2>4. /\ ring' \in Seq(Nat) /\ Len(ring') = Len(ring)
        /\ \A i \in 1..(Len(ring) - 1) : ring'[i] = ring[i + 1]
        /\ ring'[Len(ring)] = Len(log) + 1
    BY <1>1, <2>1, <2>2, <2>3
  <2>5. ASSUME NEW i \in 1..Len(ring')
        PROVE  /\ ring'[i] = Len(log') - Len(ring') + i
               /\ ring'[i] # Len(log) + 1 => i + 1 \in 1..Len(ring) /\ ring'[i] = ring[i + 1]
    <3>1. CASE i \in 1..(Len(ring) - 1)
      <4>1. i + 1 \in 1..Len(ring)
        BY <1>1, <3>1
      <4>2. ring'[i] = ring[i + 1]
        BY <2>4, <3>1
      <4>3. ring[i + 1] = Len(log) - Len(ring) + (i + 1)
        BY <1>1, <4>1
      <4>4. Len(log') = Len(log) + 1 /\ Len(ring') = Len(ring) /\ Len(ring) \in Nat /\ Len(log) \in Nat
        BY <1>1, <1>2, <2>4
      <4> QED
        BY <4>1, <4>2, <4>3, <4>4
    <3>2. CASE i = Len(ring)
      BY <1>1, <1>2, <2>4, <3>2
    <3> QED
      BY <1>1, <2>4, <3>1, <3>2
  <2>6. \A m \in 1..Len(log) : Has(ring', m) => Has(ring, m)
    <3> SUFFICES ASSUME NEW m \in 1..Len(log), NEW i \in 1..Len(ring'), ring'[i] = m
                 PROVE  \E j \in 1..Len(ring) : ring[j] = m
      BY DEF Has
    <3>1. ring'[i] # Len(log) + 1
      BY <1>1
    <3> QED
      BY <2>5, <3>1
  <2> QED
    BY <1>1, <1>2, <1>3, <2>4, <2>5, <2>6
<1> QED
  BY <1>5, <1>6

(* A page that is handed nothing stays right, and so does what it skipped. *)
LEMMA PageStays ==
  ASSUME IInv, NEW v \in Viewers,
         lastSeq'[v] = lastSeq[v], got'[v] = got[v], view'[v] = view[v],
         (conn'[v] = "over") = (conn[v] = "over"),
         Len(log') \in Nat, Len(log') >= Len(log),
         \A n \in 0..Len(log) : WholeView(n)' = WholeView(n)
  PROVE  PageOK(v)'
<1>1. PageOK(v) /\ Len(log) \in Nat
  BY DEF IInv, ViewerOK, BusOK
<1>2. lastSeq[v] \in 0..Len(log') /\ WholeView(lastSeq[v])' = WholeView(lastSeq[v])
  BY <1>1 DEF PageOK
<1> QED
  BY <1>1, <1>2 DEF PageOK, InOrder

LEMMA SkippedStays ==
  ASSUME IInv, NEW v \in Viewers, lastSeq'[v] = lastSeq[v], got'[v] = got[v],
         writeErrors' = 0 => writeErrors = 0,
         \A m \in 1..Len(log) : Has(ring', m) => Has(ring, m)
  PROVE  Skipped(v)'
<1>1. Skipped(v) /\ PageOK(v) /\ Len(log) \in Nat
  BY DEF IInv, ViewerOK, BusOK
<1>2. \A m \in 1..lastSeq[v] : m \in 1..Len(log)
  BY <1>1 DEF PageOK
<1> QED
  BY <1>1, <1>2 DEF Skipped, Has

LEMMA BusStays ==
  ASSUME IInv, UNCHANGED bus, UNCHANGED writeErrors
  PROVE  WholeOK' /\ BusOK' /\ \A n \in Nat : WholeView(n)' = WholeView(n)
  BY DEF IInv, WholeOK, BusOK, bus, told, WholeView, InOrder, Has

(* A step of another viewer's. *)
LEMMA ViewerStays ==
  ASSUME IInv, NEW v \in Viewers, UNCHANGED bus, UNCHANGED writeErrors,
         conn'[v] = conn[v], queue'[v] = queue[v],
         lastSeq'[v] = lastSeq[v], got'[v] = got[v], view'[v] = view[v]
  PROVE  ViewerOK(v)'
<1>1. ViewerOK(v) /\ Len(log) \in Nat
  BY DEF IInv, BusOK
<1>2. StreamOK(v)' /\ Pending(v)' /\ Skipped(v)'
  BY <1>1 DEF ViewerOK, StreamOK, OnItsWay, Pending, Skipped, Has, bus, told
<1>3. PageOK(v)'
  BY <1>1, BusStays, PageStays DEF bus, told
<1> QED
  BY <1>2, <1>3 DEF ViewerOK

(* A viewer whose connection ends, in whatever way, with nothing shown. *)
LEMMA GoesDown ==
  ASSUME IInv, NEW v \in Viewers, conn'[v] = "down", conn[v] # "over", queue'[v] = <<>>,
         lastSeq'[v] = lastSeq[v], got'[v] = got[v], view'[v] = view[v],
         writeErrors' = writeErrors, log' = log, whole' = whole,
         \A m \in 1..Len(log) : Has(ring', m) => Has(ring, m)
  PROVE  ViewerOK(v)'
<1>1. Len(log) \in Nat
  BY DEF IInv, BusOK
<1>2. StreamOK(v)' /\ Pending(v)'
  BY DEF StreamOK, OnItsWay, Pending, Has
<1>3. PageOK(v)'
  <2>1. (conn'[v] = "over") = (conn[v] = "over")
    OBVIOUS
  <2>2. \A n \in 0..Len(log) : WholeView(n)' = WholeView(n)
    BY DEF WholeView
  <2> QED
    BY <1>1, <2>1, <2>2, PageStays
<1> QED
  BY <1>2, <1>3, SkippedStays DEF ViewerOK
-----------------------------------------------------------------------------
LEMMA EmitOK ==
  ASSUME IInv, NEW event \in Events, emitter = "running", Emit(event),
         emitter' \in {"running", "closing"}, UNCHANGED closed
  PROVE  IInv'
<1>1. /\ WholeOK'
      /\ log' \in Seq(Events) /\ Len(log') = Len(log) + 1 /\ Len(log) \in Nat
      /\ \A n \in 0..Len(log) : WholeView(n)' = WholeView(n)
      /\ ring' \in Seq(Nat) /\ Len(ring') <= Len(log')
      /\ \A i \in 1..Len(ring') : ring'[i] = Len(log') - Len(ring') + i
      /\ \A m \in 1..Len(log) : Has(ring', m) => Has(ring, m)
  BY NumberedOK DEF Emit, IInv, BusOK
<1>2. /\ disk' = IF journaled THEN Append(disk, next) ELSE disk
      /\ queue' = [v \in Viewers |-> IF conn[v] = "live" THEN Append(queue[v], next) ELSE queue[v]]
      /\ journaled' = journaled /\ conn' = conn /\ lastSeq' = lastSeq /\ got' = got
      /\ view' = view /\ writeErrors' = writeErrors
      /\ next = Len(log) + 1
  BY DEF Emit, Broadcast, Subscribed, page, faults, next
<1>3. BusOK'
  <2>1. /\ disk \in Seq(Nat) /\ InOrder(disk) /\ \A i \in 1..Len(disk) : disk[i] \in 1..Len(log)
        /\ journaled \in BOOLEAN /\ writeErrors \in Nat
        /\ journaled /\ writeErrors = 0 => \A n \in 1..Len(log) : Has(disk, n)
        /\ ~closed
    BY DEF IInv, BusOK
  <2>2. CASE journaled
    <3>1. disk' = Append(disk, Len(log) + 1)
      BY <1>2, <2>2
    <3>2. /\ disk' \in Seq(Nat) /\ Len(disk') = Len(disk) + 1
          /\ \A i \in 1..Len(disk) : disk'[i] = disk[i]
          /\ disk'[Len(disk) + 1] = Len(log) + 1
          /\ \A i \in 1..(Len(disk) + 1) : i \in 1..Len(disk) \/ i = Len(disk) + 1
          /\ \A m : Has(disk', m) <=> Has(disk, m) \/ m = Len(log) + 1
      BY <1>1, <2>1, <3>1, Appended
    <3>3. InOrder(disk')
      <4>1. \A i \in 1..Len(disk) : disk[i] < Len(log) + 1
        BY <1>1, <2>1
      <4> QED
        BY <1>1, <2>1, <3>1, <4>1, Appended
    <3>4. \A i \in 1..Len(disk') : disk'[i] \in 1..Len(log')
      <4> SUFFICES ASSUME NEW i \in 1..Len(disk')
                   PROVE  disk'[i] \in 1..(Len(log) + 1)
        BY <1>1
      <4>1. CASE i \in 1..Len(disk)
        <5>1. disk'[i] = disk[i] /\ disk[i] \in 1..Len(log)
          BY <2>1, <3>2, <4>1
        <5> QED
          BY <1>1, <5>1
      <4>2. CASE i = Len(disk) + 1
        BY <1>1, <3>2, <4>2
      <4> QED
        BY <3>2, <4>1, <4>2
    <3>5. writeErrors = 0 => \A n \in 1..Len(log') : Has(disk', n)
      BY <1>1, <2>1, <2>2, <3>2
    <3>6. /\ journaled' \in BOOLEAN /\ writeErrors' \in Nat /\ ~closed'
          /\ writeErrors' = writeErrors
      BY <1>2, <2>1
    <3> QED
      BY <1>1, <3>2, <3>3, <3>4, <3>5, <3>6 DEF BusOK, InOrder, Has
  <2>3. CASE ~journaled
    BY <1>1, <1>2, <2>1, <2>3 DEF BusOK, InOrder
  <2> QED
    BY <2>1, <2>2, <2>3
<1>4. ASSUME NEW v \in Viewers
      PROVE  ViewerOK(v)'
  <2>1. StreamOK(v) /\ Pending(v) /\ PageOK(v) /\ conn[v] # "stored"
    BY DEF IInv, ViewerOK, StreamOK, OnItsWay
  <2>2. CASE conn[v] = "live"
    <3>1. /\ queue[v] \in Seq(Nat) /\ lastSeq[v] \in 0..Len(log)
          /\ \A i \in 1..Len(queue[v]) : /\ queue[v][i] # End /\ queue[v][i] > lastSeq[v]
                                        /\ queue[v][i] <= Len(log)
          /\ \A i, j \in 1..Len(queue[v]) : i < j => queue[v][i] < queue[v][j]
      BY <2>1, <2>2 DEF StreamOK, OnItsWay, PageOK, Has
    <3>2. queue'[v] = Append(queue[v], Len(log) + 1)
      BY <1>2, <2>2
    <3>3. /\ queue'[v] \in Seq(Nat) /\ Len(queue'[v]) = Len(queue[v]) + 1
          /\ \A i \in 1..Len(queue[v]) : queue'[v][i] = queue[v][i]
          /\ queue'[v][Len(queue[v]) + 1] = Len(log) + 1
          /\ \A i \in 1..(Len(queue[v]) + 1) : i \in 1..Len(queue[v]) \/ i = Len(queue[v]) + 1
          /\ \A m : Has(queue'[v], m) <=> Has(queue[v], m) \/ m = Len(log) + 1
      BY <1>1, <3>1, <3>2, Appended
    <3>4. /\ \A i \in 1..Len(queue'[v]) : /\ queue'[v][i] # End /\ queue'[v][i] > lastSeq[v]
                                        /\ queue'[v][i] <= Len(log')
          /\ InOrder(queue'[v])
      <4>1. InOrder(queue[v]) /\ \A i \in 1..Len(queue[v]) : queue[v][i] < Len(log) + 1
        BY <1>1, <3>1 DEF InOrder
      <4>2. InOrder(queue'[v])
        <5>1. queue[v] \in Seq(Nat) /\ Len(log) + 1 \in Nat
          BY <1>1, <3>1
        <5> QED
          BY <3>2, <4>1, <5>1, Appended
      <4>3. \A i \in 1..Len(queue'[v]) : /\ queue'[v][i] # End /\ queue'[v][i] > lastSeq[v]
                                        /\ queue'[v][i] <= Len(log')
        <5> SUFFICES ASSUME NEW i \in 1..Len(queue'[v])
                     PROVE  /\ queue'[v][i] # End /\ queue'[v][i] > lastSeq[v]
                            /\ queue'[v][i] <= Len(log')
          OBVIOUS
        <5>1. CASE i \in 1..Len(queue[v])
          <6>1. queue'[v][i] = queue[v][i] /\ queue[v][i] \in Nat
            BY <3>1, <3>3, <5>1, ElementOfSeq
          <6> QED
            BY <1>1, <3>1, <5>1, <6>1
        <5>2. CASE i = Len(queue[v]) + 1
          BY <1>1, <3>1, <3>3, <5>2 DEF End
        <5> QED
          BY <3>3, <5>1, <5>2
      <4> QED
        BY <4>2, <4>3
    <3>5. StreamOK(v)'
      <4>1. /\ queue'[v] \in Seq(Nat) /\ conn'[v] = "live" /\ lastSeq'[v] = lastSeq[v]
            /\ ~Has(queue'[v], End)
        BY <1>2, <2>2, <3>3, <3>4 DEF Has
      <4> QED
        BY <3>4, <4>1 DEF StreamOK, OnItsWay, InOrder, Has
    <3>6. Pending(v)'
      <4>1. ASSUME NEW m \in (lastSeq[v] + 1)..Len(log'), writeErrors = 0
            PROVE  Has(queue'[v], m) \/ ~Has(ring', m)
        <5>1. \/ m = Len(log) + 1
              \/ m \in (lastSeq[v] + 1)..Len(log) /\ m \in 1..Len(log)
          <6>1. lastSeq[v] \in 0..Len(log)
            BY <3>1
          <6> QED
            BY <1>1, <4>1, <6>1
        <5> QED
          BY <1>1, <2>1, <2>2, <3>3, <4>1, <5>1 DEF Pending
      <4> QED
        BY <1>2, <4>1 DEF Pending, Has
    <3> QED
      BY <1>1, <1>2, <3>5, <3>6, PageStays, SkippedStays DEF ViewerOK
  <2>3. CASE conn[v] # "live"
    <3>1. queue'[v] = queue[v]
      BY <1>2, <2>3
    <3>2. StreamOK(v)'
      BY <1>1, <1>2, <2>1, <2>3, <3>1 DEF StreamOK, OnItsWay
    <3>3. Pending(v)'
      BY <1>2, <2>1, <2>3 DEF Pending
    <3> QED
      BY <1>1, <1>2, <3>2, <3>3, PageStays, SkippedStays DEF ViewerOK
  <2> QED
    BY <2>2, <2>3
<1>5. FunctionsOK'
  BY <1>2 DEF IInv, FunctionsOK
<1> QED
  BY <1>1, <1>3, <1>4, <1>5 DEF IInv

(* The write fails: nothing reaches the file or a viewer.                   *)
LEMMA EmitFailsOK ==
  ASSUME IInv, NEW event \in Events, emitter = "running", EmitFails(event), UNCHANGED closed
  PROVE  IInv'
<1>1. /\ WholeOK'
      /\ log' \in Seq(Events) /\ Len(log') = Len(log) + 1 /\ Len(log) \in Nat
      /\ \A n \in 0..Len(log) : WholeView(n)' = WholeView(n)
      /\ ring' \in Seq(Nat) /\ Len(ring') <= Len(log')
      /\ \A i \in 1..Len(ring') : ring'[i] = Len(log') - Len(ring') + i
      /\ \A m \in 1..Len(log) : Has(ring', m) => Has(ring, m)
  BY NumberedOK DEF EmitFails, IInv, BusOK
<1>2. /\ disk' = disk /\ journaled' = journaled /\ conn' = conn /\ queue' = queue
      /\ lastSeq' = lastSeq /\ got' = got /\ view' = view /\ writeErrors' = writeErrors + 1
      /\ writeErrors \in Nat
  BY DEF EmitFails, viewer, page, IInv, BusOK
<1>3. BusOK'
  BY <1>1, <1>2 DEF IInv, BusOK, InOrder
<1>4. ASSUME NEW v \in Viewers
      PROVE  ViewerOK(v)'
  <2>1. StreamOK(v) /\ conn[v] # "stored"
    BY DEF IInv, ViewerOK, StreamOK, OnItsWay
  <2>2. StreamOK(v)' /\ Pending(v)'
    BY <1>1, <1>2, <2>1 DEF StreamOK, OnItsWay, Pending, Has
  <2>3. PageOK(v)'
    BY <1>1, <1>2, PageStays
  <2>4. Skipped(v)'
    BY <1>2 DEF Skipped
  <2> QED
    BY <2>2, <2>3, <2>4 DEF ViewerOK
<1>5. FunctionsOK'
  BY <1>2 DEF IInv, FunctionsOK
<1> QED
  BY <1>1, <1>3, <1>4, <1>5 DEF IInv
-----------------------------------------------------------------------------
(* A stream of frames in order, and the same with its end. *)
LEMMA Streams ==
  ASSUME NEW q \in Seq(Nat), InOrder(q), NEW seen \in Nat, NEW newest \in Nat,
         \A i \in 1..Len(q) : q[i] > seen /\ q[i] <= newest
  PROVE  /\ OnItsWay(q, seen, newest) /\ OnItsWay(Append(q, End), seen, newest)
         /\ ~Has(q, End) /\ \A m : Has(q, m) => Has(Append(q, End), m)
<1>1. \A i \in 1..Len(q) : q[i] # End
  BY DEF End
<1>2. OnItsWay(q, seen, newest) /\ ~Has(q, End)
  BY <1>1 DEF OnItsWay, InOrder, Has
<1>3. PICK t \in Seq(Nat) : /\ t = Append(q, End) /\ Len(t) = Len(q) + 1 /\ t[Len(q) + 1] = End
                            /\ \A i \in 1..Len(q) : t[i] = q[i]
                            /\ \A i \in 1..(Len(q) + 1) : i \in 1..Len(q) \/ i = Len(q) + 1
                            /\ \A m : Has(t, m) <=> Has(q, m) \/ m = End
  <2>1. End \in Nat
    BY DEF End
  <2>2. /\ Append(q, End) \in Seq(Nat) /\ Len(Append(q, End)) = Len(q) + 1
        /\ Append(q, End)[Len(q) + 1] = End
        /\ \A i \in 1..Len(q) : Append(q, End)[i] = q[i]
        /\ \A i \in 1..(Len(q) + 1) : i \in 1..Len(q) \/ i = Len(q) + 1
    BY <2>1, Appended
  <2>3. \A m : Has(Append(q, End), m) <=> Has(q, m) \/ m = End
    BY <2>1, Appended
  <2> QED
    BY <2>2, <2>3, Zenon
<1>4. OnItsWay(t, seen, newest)
  <2> SUFFICES ASSUME NEW i \in 1..Len(t)
               PROVE  /\ t[i] <= newest /\ (t[i] = End \/ t[i] > seen) /\ (t[i] = End => i = Len(t))
                      /\ \A j \in 1..Len(t) : i < j /\ t[j] # End => t[i] < t[j]
    BY DEF OnItsWay
  <2>1. CASE i \in 1..Len(q)
    BY <1>1, <1>3, <2>1 DEF InOrder
  <2>2. CASE i = Len(q) + 1
    BY <1>3, <2>2 DEF End
  <2> QED
    BY <1>3, <2>1, <2>2
<1> QED
  BY <1>2, <1>3, <1>4

LEMMA CloseSubsOK == IInv /\ CloseSubs => IInv'
<1> SUFFICES ASSUME IInv, CloseSubs
             PROVE  IInv'
  OBVIOUS
<1>1. /\ emitter = "closing" /\ emitter' = "closed" /\ log' = log /\ whole' = whole
      /\ ring' = ring /\ disk' = disk /\ journaled' = journaled /\ conn' = conn
      /\ lastSeq' = lastSeq /\ got' = got /\ view' = view /\ writeErrors' = writeErrors
      /\ queue' = [v \in Viewers |-> IF conn[v] = "live" THEN Append(queue[v], End) ELSE queue[v]]
      /\ Len(log) \in Nat
  BY DEF CloseSubs, told, page, faults, Broadcast, Subscribed, IInv, BusOK
<1>2. WholeOK' /\ BusOK' /\ FunctionsOK' /\ \A n \in 0..Len(log) : WholeView(n)' = WholeView(n)
  BY <1>1 DEF IInv, WholeOK, BusOK, FunctionsOK, WholeView, InOrder, Has
<1>3. ASSUME NEW v \in Viewers
      PROVE  ViewerOK(v)'
  <2>1. StreamOK(v) /\ Pending(v) /\ PageOK(v) /\ conn[v] # "stored"
    BY <1>1 DEF IInv, ViewerOK, StreamOK
  <2>2. PageOK(v)' /\ Skipped(v)'
    BY <1>1, <1>2, PageStays, SkippedStays
  <2>3. CASE conn[v] = "live"
    <3>1. queue'[v] = Append(queue[v], End)
      BY <1>1, <2>3
    <3>2. /\ queue[v] \in Seq(Nat) /\ InOrder(queue[v]) /\ lastSeq[v] \in Nat
          /\ \A i \in 1..Len(queue[v]) : queue[v][i] > lastSeq[v] /\ queue[v][i] <= Len(log)
      BY <1>1, <2>1, <2>3 DEF StreamOK, OnItsWay, Has, InOrder, PageOK
    <3>3. /\ OnItsWay(queue'[v], lastSeq[v], Len(log))
          /\ \A m : Has(queue[v], m) => Has(queue'[v], m)
      BY <1>1, <3>1, <3>2, Streams
    <3>4. StreamOK(v)'
      BY <1>1, <2>3, <3>3 DEF StreamOK
    <3>5. Pending(v)'
      BY <1>1, <2>1, <2>3, <3>3 DEF Pending, Has
    <3> QED
      BY <2>2, <3>4, <3>5 DEF ViewerOK
  <2>4. CASE conn[v] # "live"
    BY <1>1, <2>1, <2>2, <2>4 DEF ViewerOK, StreamOK, Pending
  <2> QED
    BY <2>3, <2>4
<1> QED
  BY <1>2, <1>3 DEF IInv

LEMMA ExitOK == IInv /\ Exit => IInv'
<1> SUFFICES ASSUME IInv, Exit
             PROVE  IInv'
  OBVIOUS
<1>1. /\ emitter = "closed" /\ emitter' = "exited"
      /\ UNCHANGED <<log, whole, ring, disk, closed, journaled, conn, queue, lastSeq, got, view, writeErrors>>
  BY DEF Exit, told, page, faults, viewer
<1>2. WholeOK' /\ BusOK' /\ FunctionsOK' /\ \A n \in Nat : WholeView(n)' = WholeView(n)
  BY <1>1 DEF IInv, WholeOK, BusOK, FunctionsOK, WholeView, InOrder, Has
<1>3. ASSUME NEW v \in Viewers
      PROVE  ViewerOK(v)'
  <2>1. StreamOK(v) /\ Pending(v) /\ Len(log) \in Nat
    BY DEF IInv, ViewerOK, BusOK
  <2>2. PageOK(v)' /\ Skipped(v)'
    BY <1>1, <1>2, <2>1, PageStays, SkippedStays
  <2>3. StreamOK(v)' /\ Pending(v)'
    BY <1>1, <2>1 DEF StreamOK, Pending, Has
  <2> QED
    BY <2>2, <2>3 DEF ViewerOK
<1> QED
  BY <1>2, <1>3 DEF IInv

LEMMA DieOK == IInv /\ Die => IInv'
<1> SUFFICES ASSUME IInv, Die
             PROVE  IInv'
  OBVIOUS
<1>1. /\ emitter' = "dead" /\ ring' = <<>>
      /\ conn' = [v \in Viewers |-> IF conn[v] = "over" THEN "over" ELSE "down"]
      /\ queue' = [v \in Viewers |-> <<>>]
      /\ UNCHANGED <<log, whole, disk, closed, journaled, lastSeq, got, view, writeErrors>>
  BY DEF Die, told, page
<1>2. WholeOK' /\ FunctionsOK' /\ \A n \in Nat : WholeView(n)' = WholeView(n)
  BY <1>1 DEF IInv, WholeOK, FunctionsOK, WholeView
<1>3. BusOK'
  BY <1>1 DEF IInv, BusOK, InOrder, Has
<1>4. ASSUME NEW v \in Viewers
      PROVE  ViewerOK(v)'
  <2>1. /\ queue'[v] = <<>> /\ conn'[v] = IF conn[v] = "over" THEN "over" ELSE "down"
        /\ Len(log) \in Nat
    BY <1>1 DEF IInv, BusOK
  <2>2. (conn'[v] = "over") = (conn[v] = "over")
    BY <2>1
  <2>3. \A m : ~Has(ring', m)
    BY <1>1 DEF Has
  <2>4. PageOK(v)' /\ Skipped(v)'
    BY <1>1, <1>2, <2>1, <2>2, <2>3, PageStays, SkippedStays
  <2>5. StreamOK(v)' /\ Pending(v)'
    BY <2>1 DEF StreamOK, OnItsWay, Pending
  <2> QED
    BY <2>4, <2>5 DEF ViewerOK
<1> QED
  BY <1>2, <1>3, <1>4 DEF IInv
-----------------------------------------------------------------------------
(* The viewer connects: what it gets is what is newer than it has seen, from *)
(* the ring or from the file, and nothing in between is lost.                *)
LEMMA AfterIsPending ==
  ASSUME NEW s \in Seq(Nat), InOrder(s), NEW seen \in Nat, NEW newest \in Nat,
         \A i \in 1..Len(s) : s[i] <= newest
  PROVE  /\ After(s, seen) \in Seq(Nat) /\ InOrder(After(s, seen))
         /\ \A i \in 1..Len(After(s, seen)) : After(s, seen)[i] > seen /\ After(s, seen)[i] <= newest
         /\ \A m \in Nat : m > seen /\ Has(s, m) => Has(After(s, seen), m)
<1>1. PICK k \in 0..Len(s) : /\ \A i \in 1..k : s[i] <= seen
                             /\ \A i \in (k + 1)..Len(s) : s[i] > seen
                             /\ After(s, seen) = SubSeq(s, k + 1, Len(s))
  BY AfterOK
<1>2. PICK t \in Seq(Nat) : /\ t = After(s, seen) /\ Len(t) = Len(s) - k
                            /\ \A i \in 1..Len(t) : t[i] = s[k + i]
  <2>1. /\ SubSeq(s, k + 1, Len(s)) \in Seq(Nat) /\ Len(SubSeq(s, k + 1, Len(s))) = Len(s) - k
        /\ \A i \in 1..(Len(s) - k) : SubSeq(s, k + 1, Len(s))[i] = s[k + i]
    BY SubSeqProperties
  <2> QED
    BY <1>1, <2>1, Zenon
<1>3. \A i \in 1..Len(t) : k + i \in (k + 1)..Len(s) /\ k + i \in 1..Len(s)
  BY <1>2
<1>4. InOrder(t)
  <2> SUFFICES ASSUME NEW i \in 1..Len(t), NEW j \in 1..Len(t), i < j
               PROVE  t[i] < t[j]
    BY DEF InOrder
  <2>1. k + i \in 1..Len(s) /\ k + j \in 1..Len(s) /\ k + i < k + j
    BY <1>3
  <2> QED
    BY <1>2, <2>1 DEF InOrder
<1>5. \A i \in 1..Len(t) : t[i] > seen /\ t[i] <= newest
  BY <1>1, <1>2, <1>3
<1>6. ASSUME NEW m \in Nat, m > seen, Has(s, m)
      PROVE  Has(t, m)
  <2>1. PICK i \in 1..Len(s) : s[i] = m
    BY <1>6 DEF Has
  <2>2. i > k
    BY <1>1, <1>6, <2>1
  <2>3. i - k \in 1..Len(t) /\ k + (i - k) = i
    BY <1>2, <2>2
  <2> QED
    BY <1>2, <2>1, <2>3 DEF Has
<1> QED
  BY <1>2, <1>4, <1>5, <1>6

LEMMA ConnectOK ==
  ASSUME IInv, NEW v \in Viewers, Connect(v)
  PROVE  IInv'
<1> DEFINE live   == emitter \notin {"exited", "dead"}
           stored == IF journaled THEN disk ELSE ring
           source == IF live THEN ring ELSE stored
<1>1. /\ conn[v] = "down" /\ (live \/ journaled \/ emitter = "exited")
      /\ conn' = [conn EXCEPT ![v] = IF live THEN "live" ELSE "stored"]
      /\ queue' = [queue EXCEPT ![v] =
                     IF ~live THEN Append(After(stored, lastSeq[v]), End)
                     ELSE IF closed THEN Append(After(ring, lastSeq[v]), End)
                     ELSE After(ring, lastSeq[v])]
      /\ UNCHANGED bus /\ UNCHANGED writeErrors
      /\ lastSeq' = lastSeq /\ got' = got /\ view' = view
  BY DEF Connect, page, faults
<1>2. FunctionsOK /\ BusOK /\ StreamOK(v) /\ PageOK(v) /\ Len(log) \in Nat
  BY DEF IInv, ViewerOK, BusOK
<1>3. WholeOK' /\ BusOK' /\ FunctionsOK' /\ \A n \in Nat : WholeView(n)' = WholeView(n)
  BY <1>1, <1>2, BusStays DEF FunctionsOK
<1>4. ASSUME NEW w \in Viewers, w # v
      PROVE  ViewerOK(w)'
  BY <1>1, <1>2, <1>4, ViewerStays DEF FunctionsOK
<1>5. ViewerOK(v)'
  <2>1. source \in Seq(Nat) /\ InOrder(source) /\ \A i \in 1..Len(source) : source[i] <= Len(log)
    <3>1. ring \in Seq(Nat) /\ InOrder(ring) /\ \A i \in 1..Len(ring) : ring[i] <= Len(log)
      BY <1>2 DEF BusOK, InOrder
    <3>2. disk \in Seq(Nat) /\ InOrder(disk) /\ \A i \in 1..Len(disk) : disk[i] <= Len(log)
      BY <1>2 DEF BusOK
    <3> QED
      BY <3>1, <3>2
  <2>2. lastSeq[v] \in Nat
    BY <1>2 DEF PageOK
  <2> DEFINE sent == After(source, lastSeq[v])
  <2>3. /\ sent \in Seq(Nat) /\ InOrder(sent)
        /\ \A i \in 1..Len(sent) : sent[i] > lastSeq[v] /\ sent[i] <= Len(log)
        /\ \A m \in Nat : m > lastSeq[v] /\ Has(source, m) => Has(sent, m)
    <3> HIDE DEF source
    <3> QED
      BY <1>2, <2>1, <2>2, AfterIsPending
  <2>4. queue'[v] = IF live /\ ~closed THEN sent ELSE Append(sent, End)
    BY <1>1, <1>2 DEF FunctionsOK
  <2> HIDE DEF sent
  <2>5. /\ OnItsWay(queue'[v], lastSeq[v], Len(log))
        /\ \A m : Has(sent, m) => Has(queue'[v], m)
        /\ live /\ ~closed => ~Has(queue'[v], End)
    BY <1>2, <2>2, <2>3, <2>4, Streams
  <2>6. conn'[v] = IF live THEN "live" ELSE "stored"
    BY <1>1, <1>2 DEF FunctionsOK
  <2>7. StreamOK(v)'
    <3>1. emitter \in {"running", "closing"} => ~closed
      BY <1>2 DEF BusOK
    <3> QED
      BY <1>1, <2>5, <2>6, <3>1 DEF StreamOK, bus, told, Has
  <2>8. Pending(v)'
    <3>1. ASSUME writeErrors = 0, NEW m \in (lastSeq[v] + 1)..Len(log), Has(ring, m)
          PROVE  Has(queue'[v], m)
      <4>1. m \in 1..Len(log) /\ m > lastSeq[v]
        BY <1>2, <2>2
      <4>2. Has(source, m)
        BY <1>2, <3>1, <4>1 DEF BusOK
      <4> QED
        BY <2>3, <2>5, <4>1, <4>2
    <3> QED
      BY <1>1, <3>1 DEF Pending, Has, bus, told
  <2>9. PageOK(v)' /\ Skipped(v)'
    <3>1. (conn'[v] = "over") = (conn[v] = "over")
      BY <1>1, <2>6
    <3>2. log' = log /\ ring' = ring
      BY <1>1 DEF bus, told
    <3> QED
      BY <1>1, <1>2, <1>3, <3>1, <3>2, PageStays, SkippedStays
  <2> QED
    BY <2>7, <2>8, <2>9 DEF ViewerOK
<1> QED
  BY <1>3, <1>4, <1>5 DEF IInv

(* A frame is handed over: the next one that was not lost on the way. *)
LEMMA DeliverOK ==
  ASSUME IInv, NEW v \in Viewers, Deliver(v)
  PROVE  IInv'
<1>0. PICK n, event : n = Head(queue[v]) /\ event = log[n]
  OBVIOUS
<1> DEFINE stays == event = "phase"
<1>1. /\ conn[v] \in {"live", "stored"} /\ queue[v] # <<>> /\ n # End
      /\ lastSeq' = [lastSeq EXCEPT ![v] = IF n > @ THEN n ELSE @]
      /\ got' = [got EXCEPT ![v] = Append(@, n)]
      /\ view' = [view EXCEPT ![v] = reduce(@, Frame(n, event))]
      /\ conn' = [conn EXCEPT ![v] = IF event = "done" THEN "over"
                                     ELSE IF stays THEN @ ELSE "down"]
      /\ queue' = [queue EXCEPT ![v] = IF stays THEN Tail(@) ELSE <<>>]
      /\ UNCHANGED bus /\ UNCHANGED writeErrors
  BY <1>0 DEF Deliver, faults
<1>2. /\ FunctionsOK /\ BusOK /\ Len(log) \in Nat /\ log \in Seq(Events)
      /\ StreamOK(v) /\ PageOK(v) /\ Pending(v) /\ Skipped(v)
  BY DEF IInv, ViewerOK, BusOK
<1>3. WholeOK' /\ BusOK' /\ FunctionsOK' /\ \A m \in Nat : WholeView(m)' = WholeView(m)
  BY <1>1, <1>2, BusStays DEF FunctionsOK
<1>4. ASSUME NEW w \in Viewers, w # v
      PROVE  ViewerOK(w)'
  BY <1>1, <1>2, <1>4, ViewerStays DEF FunctionsOK
<1>5. ViewerOK(v)'
  <2>1. /\ queue[v] \in Seq(Nat) /\ OnItsWay(queue[v], lastSeq[v], Len(log))
        /\ lastSeq[v] \in 0..Len(log) /\ got[v] \in Seq(Nat) /\ view[v] \in Views
    BY <1>2 DEF StreamOK, PageOK, OnItsWay
  <2>2. n = queue[v][1] /\ 1 \in 1..Len(queue[v])
    BY <1>0, <1>1, <2>1
  <2>3. n \in 1..Len(log) /\ n > lastSeq[v]
    <3>1. n \in Nat /\ n <= Len(log) /\ n > lastSeq[v]
      BY <1>1, <2>1, <2>2, ElementOfSeq DEF OnItsWay
    <3> QED
      BY <1>2, <2>1, <3>1
  <2>4. event \in Events
    BY <1>0, <1>2, <2>3, ElementOfSeq
  <2>5. /\ lastSeq'[v] = n /\ got'[v] = Append(got[v], n)
        /\ view'[v] = reduce(view[v], Frame(n, event))
        /\ conn'[v] = IF event = "done" THEN "over" ELSE IF stays THEN conn[v] ELSE "down"
        /\ queue'[v] = IF stays THEN Tail(queue[v]) ELSE <<>>
        /\ log' = log /\ whole' = whole /\ ring' = ring /\ emitter' = emitter
        /\ writeErrors' = writeErrors
    BY <1>1, <1>2, <2>1, <2>3 DEF FunctionsOK, bus, told
  <2>6. /\ got'[v] \in Seq(Nat) /\ InOrder(got'[v]) /\ Len(got'[v]) = Len(got[v]) + 1
        /\ \A i \in 1..Len(got'[v]) : got'[v][i] \in 1..n
        /\ \A m : Has(got'[v], m) <=> Has(got[v], m) \/ m = n
    <3>1. n \in Nat /\ InOrder(got[v]) /\ \A i \in 1..Len(got[v]) : got[v][i] \in 1..lastSeq[v]
      BY <1>2, <2>3 DEF PageOK
    <3>2. \A i \in 1..Len(got[v]) : got[v][i] < n /\ got[v][i] \in 1..n
      BY <2>1, <2>3, <3>1
    <3>3. InOrder(got'[v])
      <4>1. got'[v] = Append(got[v], n) /\ got[v] \in Seq(Nat)
        BY <2>1, <2>5
      <4>2. InOrder(got[v]) /\ (\A i \in 1..Len(got[v]) : got[v][i] < n) /\ n \in Nat
        BY <3>1, <3>2
      <4>3. InOrder(Append(got[v], n))
        BY <4>1, <4>2, Appended
      <4> QED
        BY <4>1, <4>3
    <3>4. /\ got'[v] \in Seq(Nat) /\ Len(got'[v]) = Len(got[v]) + 1
          /\ \A i \in 1..Len(got[v]) : got'[v][i] = got[v][i]
          /\ got'[v][Len(got[v]) + 1] = n
          /\ \A i \in 1..(Len(got[v]) + 1) : i \in 1..Len(got[v]) \/ i = Len(got[v]) + 1
          /\ \A m : Has(got'[v], m) <=> Has(got[v], m) \/ m = n
      BY <2>1, <2>5, <3>1, Appended
    <3>5. \A i \in 1..Len(got'[v]) : got'[v][i] \in 1..n
      <4>1. \A i \in 1..Len(got[v]) : got'[v][i] \in 1..n
        BY <3>2, <3>4
      <4>2. n \in 1..n
        BY <3>1, <2>3
      <4> QED
        BY <3>4, <4>1, <4>2
    <3> QED
      BY <3>3, <3>4, <3>5
  <2>7. PageOK(v)'
    <3>1. view[v].lastSeq = lastSeq[v] /\ view[v].done = (conn[v] = "over") /\ Len(got[v]) <= lastSeq[v]
      BY <1>2 DEF PageOK
    <3>2. view'[v] \in Views /\ view'[v].lastSeq = n /\ view'[v].done = (view[v].done \/ event = "done")
      <4>1. view[v] \in Views /\ n \in Nat /\ n > view[v].lastSeq /\ event \in Events
        BY <2>1, <2>3, <2>4, <3>1
      <4> QED
        BY <2>5, <4>1, ReduceOK
    <3>3. view'[v].done = (conn'[v] = "over")
      <4>1. view'[v].done = (event = "done")
        BY <1>1, <3>1, <3>2
      <4>2. (conn'[v] = "over") = (event = "done")
        BY <1>1, <2>5
      <4> QED
        BY <4>1, <4>2
    <3>4. ASSUME Len(got'[v]) = n
          PROVE  view'[v] = WholeView(n)'
      <4>1. Len(got[v]) = n - 1 /\ lastSeq[v] = n - 1
        BY <2>1, <2>3, <2>6, <3>1, <3>4
      <4>2. view[v] = WholeView(n - 1)
        BY <1>2, <4>1 DEF PageOK
      <4>3. whole[n] = reduce(WholeView(n - 1), Frame(n, event))
        BY <1>0, <2>3 DEF IInv, WholeOK
      <4>4. WholeView(n)' = whole[n]
        BY <2>3, <2>5 DEF WholeView
      <4> QED
        BY <2>5, <4>2, <4>3, <4>4
    <3>5. n \in 0..Len(log) /\ Len(got'[v]) <= n
      BY <2>1, <2>3, <2>6, <3>1
    <3> QED
      BY <2>5, <2>6, <3>2, <3>3, <3>4, <3>5 DEF PageOK, InOrder
  <2>8. ASSUME NEW m \in Nat, m > n, Has(queue[v], m), stays
        PROVE  Has(queue'[v], m)
    <3>1. PICK i \in 1..Len(queue[v]) : queue[v][i] = m
      BY <2>8 DEF Has
    <3>2. i # 1
      BY <2>2, <2>3, <2>8, <3>1
    <3>3. /\ i - 1 \in 1..Len(Tail(queue[v])) /\ Tail(queue[v])[i - 1] = queue[v][(i - 1) + 1]
          /\ (i - 1) + 1 = i
      BY <1>1, <2>1, <3>1, <3>2, HeadTailProperties
    <3> QED
      BY <2>5, <2>8, <3>1, <3>3 DEF Has
  <2>9. writeErrors = 0 => \A m \in (lastSeq[v] + 1)..(n - 1) : ~Has(ring, m)
    <3> SUFFICES ASSUME writeErrors = 0, NEW m \in (lastSeq[v] + 1)..(n - 1)
                 PROVE  ~Has(ring, m)
      OBVIOUS
    <3>1. m \in (lastSeq[v] + 1)..Len(log) /\ m # End /\ m < n
      BY <1>2, <2>1, <2>3 DEF End
    <3>2. ~Has(queue[v], m)
      <4> SUFFICES ASSUME NEW i \in 1..Len(queue[v]), queue[v][i] = m
                   PROVE  FALSE
        BY DEF Has
      <4>1. i # 1
        BY <2>2, <3>1
      <4>2. 1 < i
        BY <4>1
      <4>3. queue[v][1] < queue[v][i]
        BY <2>1, <2>2, <3>1, <4>2 DEF OnItsWay
      <4> QED
        BY <2>2, <2>3, <3>1, <4>3
    <3> QED
      BY <1>1, <1>2, <3>1, <3>2 DEF Pending
  <2>10. Skipped(v)'
    <3> SUFFICES ASSUME writeErrors = 0, NEW m \in 1..n
                 PROVE  Has(got'[v], m) \/ ~Has(ring, m)
      BY <2>5 DEF Skipped, Has
    <3>1. m \in 1..lastSeq[v] \/ m \in (lastSeq[v] + 1)..(n - 1) \/ m = n
      BY <2>1, <2>3
    <3> QED
      BY <1>2, <2>6, <2>9, <3>1 DEF Skipped
  <2>11. Pending(v)'
    <3> SUFFICES ASSUME writeErrors = 0, stays, NEW m \in (n + 1)..Len(log), Has(ring, m)
                 PROVE  Has(queue'[v], m)
      BY <2>5 DEF Pending, Has
    <3>1. m \in (lastSeq[v] + 1)..Len(log) /\ m \in Nat /\ m > n
      BY <1>2, <2>1, <2>3
    <3> QED
      BY <1>1, <1>2, <2>8, <3>1 DEF Pending
  <2>12. StreamOK(v)'
    <3>1. CASE stays
      <4>1. PICK t \in Seq(Nat) : /\ t = Tail(queue[v]) /\ Len(t) = Len(queue[v]) - 1
                                  /\ \A i \in 1..Len(t) : t[i] = queue[v][i + 1]
        <5>1. /\ Tail(queue[v]) \in Seq(Nat) /\ Len(Tail(queue[v])) = Len(queue[v]) - 1
              /\ \A i \in 1..Len(Tail(queue[v])) : Tail(queue[v])[i] = queue[v][i + 1]
          BY <1>1, <2>1, HeadTailProperties
        <5> QED
          BY <5>1, Zenon
      <4>2. conn'[v] = conn[v] /\ queue'[v] = t
        BY <2>5, <3>1, <4>1
      <4>3. \A i \in 1..Len(t) : i + 1 \in 1..Len(queue[v]) /\ 1 < i + 1
        BY <2>1, <4>1
      <4>4. OnItsWay(t, n, Len(log))
        <5> SUFFICES ASSUME NEW i \in 1..Len(t)
                     PROVE  /\ t[i] <= Len(log) /\ (t[i] = End \/ t[i] > n) /\ (t[i] = End => i = Len(t))
                            /\ \A j \in 1..Len(t) : i < j /\ t[j] # End => t[i] < t[j]
          BY DEF OnItsWay
        <5>1. /\ t[i] <= Len(log) /\ (t[i] = End => i = Len(t))
          BY <2>1, <4>1, <4>3 DEF OnItsWay
        <5>2. t[i] = End \/ t[i] > n
          BY <2>1, <2>2, <4>1, <4>3 DEF OnItsWay
        <5>3. ASSUME NEW j \in 1..Len(t), i < j, t[j] # End
              PROVE  t[i] < t[j]
          <6>1. i + 1 < j + 1 /\ t[i] = queue[v][i + 1] /\ t[j] = queue[v][j + 1]
            BY <4>1, <5>3
          <6> QED
            BY <2>1, <4>3, <5>3, <6>1 DEF OnItsWay
        <5> QED
          BY <5>1, <5>2, <5>3
      <4>5. \A m : Has(t, m) => Has(queue[v], m)
        BY <4>1, <4>3 DEF Has
      <4> QED
        BY <1>1, <1>2, <2>5, <4>2, <4>4, <4>5 DEF StreamOK, Has
    <3>2. CASE ~stays
      BY <2>5, <3>2 DEF StreamOK, OnItsWay, Has
    <3> QED
      BY <3>1, <3>2
  <2> QED
    BY <2>7, <2>10, <2>11, <2>12 DEF ViewerOK
<1> QED
  BY <1>3, <1>4, <1>5 DEF IInv

LEMMA LeavesOK ==
  ASSUME IInv, NEW v \in Viewers, StreamEnds(v) \/ Drop(v)
  PROVE  IInv'
<1>1. /\ conn[v] # "over" /\ UNCHANGED <<bus, writeErrors, lastSeq, got, view>>
      /\ conn' = [conn EXCEPT ![v] = "down"] /\ queue' = [queue EXCEPT ![v] = <<>>]
  BY DEF StreamEnds, Drop, page, faults
<1>2. FunctionsOK
  BY DEF IInv
<1>3. ASSUME NEW w \in Viewers, w # v
      PROVE  ViewerOK(w)'
  BY <1>1, <1>2, <1>3, ViewerStays DEF FunctionsOK
<1>4. ViewerOK(v)'
  <2>1. /\ conn'[v] = "down" /\ queue'[v] = <<>> /\ log' = log /\ whole' = whole /\ ring' = ring
        /\ lastSeq'[v] = lastSeq[v] /\ got'[v] = got[v] /\ view'[v] = view[v]
        /\ \A m \in 1..Len(log) : Has(ring', m) => Has(ring, m)
    BY <1>1, <1>2 DEF FunctionsOK, bus, told
  <2> QED
    BY <1>1, <2>1, GoesDown
<1> QED
  BY <1>1, <1>2, <1>3, <1>4, BusStays DEF IInv, FunctionsOK

LEMMA ReloadOK ==
  ASSUME IInv, NEW v \in Viewers, Reload(v)
  PROVE  IInv'
<1>1. /\ UNCHANGED bus /\ UNCHANGED writeErrors
      /\ conn' = [conn EXCEPT ![v] = "down"] /\ queue' = [queue EXCEPT ![v] = <<>>]
      /\ lastSeq' = [lastSeq EXCEPT ![v] = 0] /\ got' = [got EXCEPT ![v] = <<>>]
      /\ view' = [view EXCEPT ![v] = reduce(@, Frame(0, "reset"))]
  BY DEF Reload
<1>2. FunctionsOK
  BY DEF IInv
<1>3. ASSUME NEW w \in Viewers, w # v
      PROVE  ViewerOK(w)'
  BY <1>1, <1>2, <1>3, ViewerStays DEF FunctionsOK
<1>4. ViewerOK(v)'
  <2>1. /\ conn'[v] = "down" /\ queue'[v] = <<>> /\ lastSeq'[v] = 0 /\ got'[v] = <<>>
        /\ view'[v] = reduce(view[v], Frame(0, "reset"))
    BY <1>1, <1>2 DEF FunctionsOK
  <2>2. view'[v] = initialRunView
    BY <2>1 DEF reduce, Frame
  <2>3. Len(log') \in Nat
    BY <1>1 DEF IInv, BusOK, bus, told
  <2>4. StreamOK(v)' /\ Pending(v)' /\ Skipped(v)'
    BY <2>1 DEF StreamOK, OnItsWay, Pending, Skipped, Has
  <2>5. PageOK(v)'
    <3>1. view'[v].done = (conn'[v] = "over")
      <4>1. view'[v].done = FALSE
        BY <2>2 DEF initialRunView
      <4>2. (conn'[v] = "over") = FALSE
        BY <2>1
      <4> QED
        BY <4>1, <4>2
    <3>2. view'[v] \in Views /\ view'[v].lastSeq = 0 /\ view'[v] = WholeView(0)'
      BY <2>2, InitialView DEF WholeView
    <3>3. <<>> \in Seq(Nat) /\ Len(<<>>) = 0
      OBVIOUS
    <3> QED
      BY <2>1, <2>3, <3>1, <3>2, <3>3 DEF PageOK, InOrder
  <2> QED
    BY <2>4, <2>5 DEF ViewerOK
<1> QED
  BY <1>1, <1>2, <1>3, <1>4, BusStays DEF IInv, FunctionsOK

LEMMA StepOK == IInv /\ [Next]_vars => IInv'
<1> SUFFICES ASSUME IInv, [Next]_vars
             PROVE  IInv'
  OBVIOUS
<1>1. ASSUME NEW event \in {"phase", "error"}, Narrate(event)
      PROVE  IInv'
  <2>1. event \in Events
    BY DEF Events
  <2>2. CASE Emit(event)
    BY <1>1, <2>1, <2>2, EmitOK DEF Narrate
  <2>3. CASE EmitFails(event)
    BY <1>1, <2>1, <2>3, EmitFailsOK DEF Narrate
  <2> QED
    BY <1>1, <2>2, <2>3 DEF Narrate
<1>2. CASE CloseDone
  <2>1. "done" \in Events
    BY DEF Events
  <2>2. CASE Emit("done") /\ emitter' = "closing"
    BY <1>2, <2>1, <2>2, EmitOK DEF CloseDone
  <2>3. CASE EmitFails("done")
    BY <1>2, <2>1, <2>3, EmitFailsOK DEF CloseDone
  <2> QED
    BY <1>2, <2>2, <2>3 DEF CloseDone
<1>3. CASE CloseSubs \/ Exit \/ Die
  BY <1>3, CloseSubsOK, ExitOK, DieOK
<1>4. ASSUME NEW v \in Viewers, ViewerStep(v) \/ Drop(v) \/ Reload(v)
      PROVE  IInv'
  BY <1>4, ConnectOK, DeliverOK, LeavesOK, ReloadOK DEF ViewerStep
<1>5. CASE UNCHANGED vars
  <2>1. UNCHANGED bus /\ UNCHANGED viewer /\ UNCHANGED faults
    BY <1>5 DEF vars
  <2>2. UNCHANGED <<writeErrors, conn, queue, lastSeq, got, view>>
    BY <2>1 DEF viewer, page, faults
  <2>3. ASSUME NEW v \in Viewers
        PROVE  ViewerOK(v)'
    BY <2>1, <2>2, ViewerStays
  <2> QED
    BY <2>1, <2>2, <2>3, BusStays DEF IInv, FunctionsOK
<1> QED
  BY <1>1, <1>2, <1>3, <1>4, <1>5 DEF Next, EmitterStep
-----------------------------------------------------------------------------
LEMMA Members ==
  ASSUME NEW s \in Seq(Nat), NEW m
  PROVE  m \in ToSet(s) <=> Has(s, m)
  BY DEF ToSet, Has

(* StrictlyForward: whatever breaks, restarts or is read from another        *)
(* source, no frame is handed over twice or out of order.                    *)
THEOREM FramesGoForward == Spec => []StrictlyForward
<1>1. IInv => StrictlyForward
  BY DEF IInv, ViewerOK, PageOK, InOrder, StrictlyForward
<1> QED
  BY <1>1, InitOK, StepOK, PTL DEF Spec

(* NothingIsLost: what was shown is in the journal, what was skipped has     *)
(* left the ring, and a page that skipped nothing shows the run as one does  *)
(* that saw all of it.                                                       *)
THEOREM NothingShownIsLost == Spec => []NothingIsLost
<1>1. ASSUME IInv
      PROVE  SeenIsJournaled
  <2> SUFFICES ASSUME journaled, writeErrors = 0, NEW v \in Viewers, NEW m \in ToSet(got[v])
               PROVE  m \in ToSet(disk)
    BY DEF SeenIsJournaled
  <2>1. /\ PageOK(v) /\ BusOK /\ got[v] \in Seq(Nat) /\ disk \in Seq(Nat)
    BY <1>1 DEF IInv, ViewerOK, PageOK, BusOK
  <2>2. PICK i \in 1..Len(got[v]) : got[v][i] = m
    BY <2>1, Members DEF Has
  <2>3. m \in 1..Len(log)
    BY <2>1, <2>2 DEF PageOK, BusOK
  <2> QED
    BY <2>1, <2>3, Members DEF BusOK
<1>2. ASSUME IInv
      PROVE  SkipsOnlyEvicted
  <2> SUFFICES ASSUME writeErrors = 0, NEW v \in Viewers, NEW n \in 1..lastSeq[v]
               PROVE  n \in ToSet(got[v]) \/ n \notin ToSet(ring)
    BY DEF SkipsOnlyEvicted
  <2>1. Skipped(v) /\ got[v] \in Seq(Nat) /\ ring \in Seq(Nat)
    BY <1>2 DEF IInv, ViewerOK, PageOK, BusOK
  <2> QED
    BY <2>1, Members DEF Skipped
<1>3. IInv => ViewIsOfRun
  BY DEF IInv, ViewerOK, PageOK, ViewIsOfRun
<1>4. IInv => NothingIsLost
  BY <1>1, <1>2, <1>3 DEF NothingIsLost
<1> QED
  BY <1>4, InitOK, StepOK, PTL DEF Spec
=============================================================================
