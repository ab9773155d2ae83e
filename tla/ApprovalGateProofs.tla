-------------------------- MODULE ApprovalGateProofs --------------------------
(***************************************************************************)
(* Theorems about the approval gate, for any set of actions and handlers   *)
(* and any bounds: type correctness, what every surface guarantees, and    *)
(* what is guaranteed where decisions are handled one at a time.           *)
(***************************************************************************)
EXTENDS ApprovalGate, TLAPS

USE StrayAssumption, SerializedAssumption, BoundsAssumption DEF StrayAssumption, SerializedAssumption, BoundsAssumption

(* The fold stays within the statuses of models.py. *)
LEMMA FoldStepType ==
  ASSUME NEW s \in Statuses, NEW kind \in EventKinds, NEW ok \in BOOLEAN
  PROVE  FoldStep(s, kind, ok) \in Statuses
  BY DEF FoldStep, From, To, Statuses, EventKinds, Open

(* Appending a line keeps the journal a journal. *)
LEMMA WriteLineType ==
  ASSUME TypeOK, NEW a \in Actions, NEW kind \in EventKinds, NEW ok \in BOOLEAN,
         WriteLine(a, kind, ok)
  PROVE  /\ journal' \in Seq(Lines)
         /\ status' \in [Actions -> Statuses]
  <1>1. [kind |-> kind, id |-> a, ok |-> ok] \in Lines
    BY DEF Lines
  <1>2. journal' \in Seq(Lines)
    BY <1>1 DEF WriteLine, TypeOK
  <1>3. status' \in [Actions -> Statuses]
    BY FoldStepType DEF WriteLine, TypeOK
  <1> QED BY <1>2, <1>3

(* A handler's request names an action. *)
LEMMA RequestType ==
  ASSUME TypeOK, NEW h \in Handlers
  PROVE  /\ req[h].act \in Actions
         /\ req[h].same \in BOOLEAN
  BY DEF TypeOK, Requests

(* Recording a decision keeps the history variables typed. *)
LEMMA WriteDecisionType ==
  ASSUME TypeOK, NEW a \in Actions, NEW kind \in {"approved", "denied"},
         WriteDecision(a, kind)
  PROVE  /\ journal' \in Seq(Lines)
         /\ status' \in [Actions -> Statuses]
         /\ verdict' \in [Actions -> {"none", "approved", "denied"}]
         /\ decidedAt' \in [Actions -> 0..MaxTime]
         /\ UNCHANGED <<ran, altered>>
  <1>1. WriteLine(a, kind, TRUE) /\ kind \in EventKinds
    BY DEF WriteDecision, EventKinds
  <1>2. verdict' \in [Actions -> {"none", "approved", "denied"}]
    BY DEF WriteDecision, TypeOK
  <1>3. decidedAt' \in [Actions -> 0..MaxTime]
    BY DEF WriteDecision, TypeOK
  <1> QED BY <1>1, <1>2, <1>3, WriteLineType DEF WriteDecision

(* Every variable keeps its type, in every deployment of the gate. *)
THEOREM TypeCorrect == Spec => []TypeOK
  <1>1. Init => TypeOK
    <2> SUFFICES ASSUME Init PROVE TypeOK
      OBVIOUS
    <2>1. journal \in Seq(Lines)
      BY DEF Init
    <2>2. req \in [Handlers -> Requests]
      <3>1. PICK a \in Actions :
              req = [h \in Handlers |-> [act |-> a, verb |-> "approve", same |-> TRUE]]
        BY DEF Init
      <3>2. [act |-> a, verb |-> "approve", same |-> TRUE] \in Requests
        BY DEF Requests, Verbs
      <3> QED BY <3>1, <3>2
    <2>3. pc \in [Handlers -> Steps] /\ status \in [Actions -> Statuses]
      BY DEF Init, Steps, Statuses
    <2>4. /\ clock \in 0..MaxTime /\ clicks \in 0..MaxClicks /\ crashes \in 0..MaxCrashes
          /\ posts \in [Actions -> 0..MaxPosts] /\ now \in [Handlers -> 0..MaxTime]
      BY DEF Init
    <2>5. /\ expires \in [Actions -> Nat] /\ ran \in [Actions -> Nat]
          /\ altered \in SUBSET Actions
          /\ verdict \in [Actions -> {"none", "approved", "denied"}]
          /\ decidedAt \in [Actions -> 0..MaxTime]
      BY DEF Init
    <2> QED BY <2>1, <2>2, <2>3, <2>4, <2>5 DEF TypeOK
  <1>2. TypeOK /\ [Next]_vars => TypeOK'
    <2> SUFFICES ASSUME TypeOK, [Next]_vars PROVE TypeOK'
      OBVIOUS
    <2> USE DEF handler, history, proposal, record
    <2>1. ASSUME NEW a \in Actions, Propose(a) PROVE TypeOK'
      <3>1. /\ journal' \in Seq(Lines)
            /\ status' \in [Actions -> Statuses]
        BY <2>1, WriteLineType DEF Propose, EventKinds
      <3>2. expires' \in [Actions -> Nat]
        BY <2>1 DEF Propose, TypeOK
      <3> QED BY <2>1, <3>1, <3>2 DEF Propose, TypeOK
    <2>2. ASSUME NEW a \in Actions, Posted(a) PROVE TypeOK'
      <3>1. /\ journal' \in Seq(Lines)
            /\ status' \in [Actions -> Statuses]
        BY <2>2, WriteLineType DEF Posted, EventKinds
      <3>2. posts' \in [Actions -> 0..MaxPosts]
        BY <2>2 DEF Posted, TypeOK
      <3> QED BY <2>2, <3>1, <3>2 DEF Posted, TypeOK
    <2>3. ASSUME NEW h \in Handlers, NEW r \in Requests, Receive(h, r) PROVE TypeOK'
      BY <2>3 DEF Receive, TypeOK, Steps
    <2>4. ASSUME NEW h \in Handlers, HandlerStep(h) PROVE TypeOK'
      <3> DEFINE a == req[h].act
      <3>0. a \in Actions
        BY RequestType
      <3>1. CASE DecideDeny(h)
        <4>1. WriteDecision(a, "denied")
          BY <3>1 DEF DecideDeny
        <4> HIDE DEF a
        <4> QED BY <3>0, <3>1, <4>1, WriteDecisionType DEF DecideDeny, Goto, TypeOK, Steps
      <3>2. CASE DecideApprove(h)
        BY <3>2 DEF DecideApprove, Goto, TypeOK, Steps
      <3>3. CASE Approve(h)
        <4>1. WriteDecision(a, "approved")
          BY <3>3 DEF Approve
        <4> HIDE DEF a
        <4> QED BY <3>0, <3>3, <4>1, WriteDecisionType DEF Approve, Goto, TypeOK, Steps
      <3>4. CASE ReadClock(h)
        BY <3>4 DEF ReadClock, Goto, TypeOK, Steps
      <3>5. CASE Check(h)
        <4>1. Gate(h) \in Steps
          BY DEF Gate, Steps
        <4> QED BY <3>5, <4>1 DEF Check, Goto, TypeOK
      <3>6. CASE Expire(h)
        <4>1. WriteLine(a, "expired", TRUE)
          BY <3>6 DEF Expire
        <4> HIDE DEF a
        <4> QED BY <3>0, <3>6, <4>1, WriteLineType DEF Expire, Goto, TypeOK, Steps, EventKinds
      <3>7. CASE NearMiss(h)
        <4>1. WriteLine(a, "near_miss", TRUE)
          BY <3>7 DEF NearMiss
        <4> HIDE DEF a
        <4> QED BY <3>0, <3>7, <4>1, WriteLineType DEF NearMiss, Goto, TypeOK, Steps, EventKinds
      <3>8. CASE Start(h)
        <4>1. WriteLine(a, "execute_started", TRUE)
          BY <3>8 DEF Start
        <4> HIDE DEF a
        <4> QED BY <3>0, <3>8, <4>1, WriteLineType DEF Start, Goto, TypeOK, Steps, EventKinds
      <3>9. CASE Execute(h)
        <4> HIDE DEF a
        <4>1. ran' \in [Actions -> Nat]
          BY <3>0, <3>9 DEF Execute, TypeOK, a
        <4>2. altered' \in SUBSET Actions
          BY <3>0, <3>9 DEF Execute, TypeOK, a
        <4>3. pc' \in [Handlers -> Steps]
          BY <3>9 DEF Execute, Goto, TypeOK, Steps
        <4> QED BY <3>9, <4>1, <4>2, <4>3, SMTT(30) DEF Execute, Goto, TypeOK
      <3>10. CASE Record(h)
        <4>1. PICK ok \in BOOLEAN : WriteLine(a, "execute_result", ok)
          BY <3>10 DEF Record
        <4> HIDE DEF a
        <4> QED BY <3>0, <3>10, <4>1, WriteLineType DEF Record, Goto, TypeOK, Steps, EventKinds
      <3> QED BY <2>4, <3>1, <3>2, <3>3, <3>4, <3>5, <3>6, <3>7, <3>8, <3>9, <3>10
              DEF HandlerStep
    <2>5. ASSUME NEW dead \in SUBSET InFlight, Crash(dead) PROVE TypeOK'
      BY <2>5 DEF Crash, TypeOK, Steps
    <2>6. CASE Tick
      BY <2>6 DEF Tick, TypeOK
    <2>7. CASE UNCHANGED vars
      BY <2>7 DEF vars, TypeOK
    <2> QED BY <2>1, <2>2, <2>3, <2>4, <2>5, <2>6, <2>7 DEF Next
  <1> QED BY <1>1, <1>2, PTL DEF Spec
-----------------------------------------------------------------------------
(* What every deployment guarantees.                                        *)

Approved  == {"approved", "executing", "done", "failed"}
Committed == {"start", "execute", "record"}
Decided   == Committed \cup {"gate", "check", "expire", "nearmiss"}

(* The status follows the first decision on record. *)
StatusFollowsVerdict ==
  \A a \in Actions :
    /\ status[a] \in Approved => verdict[a] = "approved"
    /\ status[a] \in Open => verdict[a] = "none"
    /\ status[a] = "absent" /\ verdict[a] # "none" => a \in Stray
    /\ decidedAt[a] <= clock

(* What a handler relies on between two of its steps. *)
HandlerKnows ==
  \A h \in Handlers :
    LET a == req[h].act
    IN  /\ pc[h] # "idle" => a \in Stray \/ status[a] # "absent"
        /\ pc[h] \in Decided => verdict[a] # "none"
        /\ pc[h] = "check" => decidedAt[a] <= now[h]
        /\ pc[h] \in Committed => /\ verdict[a] = "approved"
                                  /\ decidedAt[a] <= expires[a]
                                  /\ req[h].same

RanAsApproved ==
  /\ \A a \in Actions :
       ran[a] > 0 => verdict[a] = "approved" /\ decidedAt[a] <= expires[a]
  /\ altered = {}

SafetyInv == TypeOK /\ StatusFollowsVerdict /\ HandlerKnows /\ RanAsApproved

(* No line of a handler makes an action absent, and one that is neither a    *)
(* proposal nor an approval approves nothing new.                            *)
LEMMA FoldStepEffect ==
  ASSUME NEW s \in Statuses, NEW kind \in EventKinds \ {"proposed"}, NEW ok \in BOOLEAN
  PROVE  /\ FoldStep(s, kind, ok) = "absent" <=> s = "absent"
         /\ FoldStep(s, kind, ok) \in Open => s \in Open
         /\ kind # "approved" /\ FoldStep(s, kind, ok) \in Approved => s \in Approved
         /\ kind = "approved" /\ FoldStep(s, kind, ok) \in Approved =>
              s \in Open \cup Approved
         /\ kind \in {"approved", "denied"} => FoldStep(s, kind, ok) \notin Open
  BY DEF FoldStep, From, To, Statuses, EventKinds, Open, Approved

(* A line that records no decision leaves the invariant's view of the        *)
(* statuses intact.                                                          *)
LEMMA PlainLine ==
  ASSUME SafetyInv, NEW b \in Actions,
         NEW kind \in EventKinds \ {"proposed", "approved", "denied"}, NEW ok \in BOOLEAN,
         WriteLine(b, kind, ok),
         UNCHANGED <<verdict, decidedAt, clock>>
  PROVE  /\ StatusFollowsVerdict'
         /\ \A a \in Actions : status'[a] = "absent" <=> status[a] = "absent"
  <1>1. status \in [Actions -> Statuses]
    BY DEF SafetyInv, TypeOK
  <1>2. status' = [status EXCEPT ![b] = FoldStep(status[b], kind, ok)]
    BY <1>1 DEF WriteLine
  <1>3. \A a \in Actions : status'[a] = IF a = b THEN FoldStep(status[b], kind, ok) ELSE status[a]
    BY <1>1, <1>2
  <1>4. /\ FoldStep(status[b], kind, ok) = "absent" <=> status[b] = "absent"
        /\ FoldStep(status[b], kind, ok) \in Open => status[b] \in Open
        /\ FoldStep(status[b], kind, ok) \in Approved => status[b] \in Approved
    BY <1>1, FoldStepEffect
  <1>5. \A a \in Actions : status'[a] = "absent" <=> status[a] = "absent"
    BY <1>3, <1>4
  <1>6. StatusFollowsVerdict'
    BY <1>3, <1>4, <1>5 DEF SafetyInv, StatusFollowsVerdict
  <1> QED BY <1>5, <1>6

(* A decision is effective only if it is the first one. *)
LEMMA DecisionLine ==
  ASSUME SafetyInv, NEW h \in Handlers, pc[h] # "idle",
         NEW kind \in {"approved", "denied"},
         WriteDecision(req[h].act, kind), UNCHANGED clock
  PROVE  /\ StatusFollowsVerdict'
         /\ \A a \in Actions : status'[a] = "absent" <=> status[a] = "absent"
         /\ \A a \in Actions : verdict[a] # "none" => /\ verdict'[a] = verdict[a]
                                                      /\ decidedAt'[a] = decidedAt[a]
         /\ verdict'[req[h].act] # "none"
  <1> DEFINE b == req[h].act
  <1>1. /\ b \in Actions /\ status \in [Actions -> Statuses]
        /\ verdict \in [Actions -> {"none", "approved", "denied"}]
        /\ decidedAt \in [Actions -> 0..MaxTime] /\ clock \in 0..MaxTime
    BY RequestType DEF SafetyInv, TypeOK
  <1>2. status' = [status EXCEPT ![b] = FoldStep(status[b], kind, TRUE)]
    BY <1>1 DEF WriteLine, WriteDecision
  <1>3. \A a \in Actions : status'[a] = IF a = b THEN FoldStep(status[b], kind, TRUE) ELSE status[a]
    BY <1>1, <1>2
  <1>4. /\ FoldStep(status[b], kind, TRUE) = "absent" <=> status[b] = "absent"
        /\ FoldStep(status[b], kind, TRUE) \notin Open
        /\ kind = "denied" /\ FoldStep(status[b], kind, TRUE) \in Approved =>
             status[b] \in Approved
        /\ kind = "approved" /\ FoldStep(status[b], kind, TRUE) \in Approved =>
             status[b] \in Open \cup Approved
    BY <1>1, FoldStepEffect DEF EventKinds
  <1>5. /\ verdict'[b] = IF verdict[b] = "none" THEN kind ELSE verdict[b]
        /\ decidedAt'[b] = IF verdict[b] = "none" THEN clock ELSE decidedAt[b]
        /\ \A a \in Actions \ {b} : verdict'[a] = verdict[a] /\ decidedAt'[a] = decidedAt[a]
    BY <1>1 DEF WriteDecision
  <1>6. b \in Stray \/ status[b] # "absent"
    BY DEF SafetyInv, HandlerKnows
  <1> HIDE DEF b
  <1>7. \A a \in Actions : status'[a] = "absent" <=> status[a] = "absent"
    BY <1>3, <1>4
  <1>8. \A a \in Actions : verdict[a] # "none" => /\ verdict'[a] = verdict[a]
                                                  /\ decidedAt'[a] = decidedAt[a]
    BY <1>5
  <1>9. verdict'[b] # "none"
    BY <1>5
  <1>10. StatusFollowsVerdict'
    <2> SUFFICES ASSUME NEW a \in Actions
                 PROVE  /\ status'[a] \in Approved => verdict'[a] = "approved"
                        /\ status'[a] \in Open => verdict'[a] = "none"
                        /\ status'[a] = "absent" /\ verdict'[a] # "none" => a \in Stray
                        /\ decidedAt'[a] <= clock'
      BY DEF StatusFollowsVerdict
    <2>1. CASE a # b
      BY <2>1, <1>1, <1>3, <1>5 DEF SafetyInv, StatusFollowsVerdict
    <2>2. CASE a = b
      <3>1. decidedAt'[b] <= clock'
        BY <1>1, <1>5 DEF SafetyInv, StatusFollowsVerdict
      <3>2. status'[b] \in Approved => verdict'[b] = "approved"
        BY <1>1, <1>3, <1>4, <1>5 DEF SafetyInv, StatusFollowsVerdict
      <3> QED BY <2>2, <1>1, <1>3, <1>4, <1>6, <1>7, <3>1, <3>2
    <2> QED BY <2>1, <2>2
  <1> QED BY <1>7, <1>8, <1>9, <1>10 DEF b

(* Each step of a handler preserves the invariant. *)
LEMMA HandlerStepSafe ==
  ASSUME SafetyInv, TypeOK', NEW h \in Handlers, HandlerStep(h)
  PROVE  StatusFollowsVerdict' /\ HandlerKnows' /\ RanAsApproved'
  <1> USE DEF handler, history, proposal, record
  <1> DEFINE b == req[h].act
  <1>0. /\ b \in Actions /\ pc \in [Handlers -> Steps] /\ now \in [Handlers -> 0..MaxTime]
        /\ ran \in [Actions -> Nat]
    BY RequestType DEF SafetyInv, TypeOK
  <1>1. ASSUME NEW kind \in {"approved", "denied"}, WriteDecision(b, kind), UNCHANGED now,
               NEW from \in {"decide", "approve"}, NEW to \in {"idle", "gate"}, Goto(h, from, to)
        PROVE  StatusFollowsVerdict' /\ HandlerKnows' /\ RanAsApproved'
    <2>1. pc[h] # "idle" /\ UNCHANGED <<clock, req, expires, ran, altered>>
      BY <1>1 DEF Goto, WriteDecision
    <2>2. /\ StatusFollowsVerdict'
          /\ \A a \in Actions : status'[a] = "absent" <=> status[a] = "absent"
          /\ \A a \in Actions : verdict[a] # "none" => /\ verdict'[a] = verdict[a]
                                                       /\ decidedAt'[a] = decidedAt[a]
          /\ verdict'[b] # "none"
      BY <1>1, <2>1, DecisionLine
    <2>3. pc' = [pc EXCEPT ![h] = to] /\ pc[h] \notin {"idle"} \cup Decided
      BY <1>1 DEF Goto, Decided, Committed
    <2> HIDE DEF b
    <2>4. RanAsApproved'
      BY <2>1, <2>2 DEF SafetyInv, RanAsApproved
    <2>5. HandlerKnows'
      <3> SUFFICES ASSUME NEW g \in Handlers
                   PROVE  LET a == req[g].act IN
                          /\ pc'[g] # "idle" => a \in Stray \/ status'[a] # "absent"
                          /\ pc'[g] \in Decided => verdict'[a] # "none"
                          /\ pc'[g] = "check" => decidedAt'[a] <= now'[g]
                          /\ pc'[g] \in Committed => /\ verdict'[a] = "approved"
                                                     /\ decidedAt'[a] <= expires'[a]
                                                     /\ req[g].same
        BY <2>1 DEF HandlerKnows
      <3>1. req[g].act \in Actions
        BY RequestType DEF SafetyInv
      <3>2. CASE g # h
        BY <1>0, <1>1, <2>1, <2>2, <2>3, <3>1, <3>2 DEF SafetyInv, HandlerKnows, Decided, Committed
      <3>3. CASE g = h
        BY <1>0, <1>1, <2>1, <2>2, <2>3, <3>1, <3>3 DEF SafetyInv, HandlerKnows, Decided, Committed, b
      <3> QED BY <3>2, <3>3
    <2> QED BY <2>2, <2>4, <2>5
  <1>2. CASE DecideDeny(h)
    BY <1>1, <1>2 DEF DecideDeny
  <1>3. CASE Approve(h)
    BY <1>1, <1>3 DEF Approve
  <1>4. ASSUME UNCHANGED <<record, history>>, DecideApprove(h) \/ ReadClock(h) \/ Check(h)
        PROVE  StatusFollowsVerdict' /\ HandlerKnows' /\ RanAsApproved'
    <2>1. UNCHANGED <<clock, req, expires, ran, altered, status, verdict, decidedAt>>
      BY <1>4 DEF DecideApprove, ReadClock, Check, Goto
    <2>2. StatusFollowsVerdict' /\ RanAsApproved'
      BY <2>1 DEF SafetyInv, StatusFollowsVerdict, RanAsApproved
    <2>3. CASE DecideApprove(h)
      <3>1. PICK to \in {"idle", "approve"} : pc' = [pc EXCEPT ![h] = to]
        BY <2>3 DEF DecideApprove, Goto
      <3>2. pc[h] = "decide" /\ UNCHANGED now
        BY <2>3 DEF DecideApprove, Goto
      <3>3. \A g \in Handlers : pc'[g] = IF g = h THEN to ELSE pc[g]
        BY <1>0, <3>1
      <3> HIDE DEF b
      <3>4. HandlerKnows'
        BY <2>1, <3>2, <3>3 DEF SafetyInv, HandlerKnows, Decided, Committed
      <3> QED BY <2>2, <3>4
    <2>4. CASE ReadClock(h)
      <3>1. pc' = [pc EXCEPT ![h] = "check"] /\ pc[h] = "gate" /\ now' = [now EXCEPT ![h] = clock]
        BY <2>4 DEF ReadClock, Goto
      <3>2. \A g \in Handlers : /\ pc'[g] = IF g = h THEN "check" ELSE pc[g]
                                /\ now'[g] = IF g = h THEN clock ELSE now[g]
        BY <1>0, <3>1
      <3>3. decidedAt[b] <= clock
        BY <1>0 DEF SafetyInv, StatusFollowsVerdict
      <3> HIDE DEF b
      <3>4. ASSUME NEW g \in Handlers, g # h
            PROVE  pc'[g] = pc[g] /\ now'[g] = now[g]
        BY <3>2, <3>4
      <3>5. HandlerKnows'
        BY <2>1, <3>1, <3>2, <3>3, <3>4 DEF SafetyInv, HandlerKnows, Decided, Committed, b
      <3> QED BY <2>2, <3>5
    <2>5. CASE Check(h)
      <3>1. /\ pc' = [pc EXCEPT ![h] = Gate(h)] /\ UNCHANGED now /\ pc[h] = "check"
        BY <2>5 DEF Check, Goto
      <3>2. /\ decidedAt[b] \in 0..MaxTime /\ expires[b] \in Nat /\ now[h] \in 0..MaxTime
            /\ req[h].same \in BOOLEAN
        BY <1>0, RequestType DEF SafetyInv, TypeOK
      <3>3. Gate(h) \in Committed =>
              status[b] = "approved" /\ now[h] <= expires[b] /\ req[h].same
        BY <3>2 DEF Gate, Committed
      <3>4. Gate(h) \in {"idle", "expire", "nearmiss", "start"}
        BY DEF Gate
      <3>5. Gate(h) \in Committed => verdict[b] = "approved" /\ decidedAt[b] <= expires[b]
        BY <1>0, <3>1, <3>2, <3>3 DEF SafetyInv, StatusFollowsVerdict, HandlerKnows, Approved
      <3> HIDE DEF b
      <3>6. HandlerKnows'
        <4> SUFFICES ASSUME NEW g \in Handlers
                     PROVE  LET a == req[g].act IN
                            /\ pc'[g] # "idle" => a \in Stray \/ status[a] # "absent"
                            /\ pc'[g] \in Decided => verdict[a] # "none"
                            /\ pc'[g] = "check" => decidedAt[a] <= now[g]
                            /\ pc'[g] \in Committed => /\ verdict[a] = "approved"
                                                       /\ decidedAt[a] <= expires[a]
                                                       /\ req[g].same
          BY <2>1, <3>1 DEF HandlerKnows
        <4>1. CASE g # h
          BY <1>0, <3>1, <4>1 DEF SafetyInv, HandlerKnows
        <4>2. CASE g = h
          BY <1>0, <3>1, <3>3, <3>4, <3>5, <4>2 DEF SafetyInv, HandlerKnows, Decided, Committed, b
        <4> QED BY <4>1, <4>2
      <3> QED BY <2>2, <3>6
    <2> QED BY <1>4, <2>2, <2>3, <2>4, <2>5
  <1>5. ASSUME NEW kind \in EventKinds \ {"proposed", "approved", "denied"}, NEW ok \in BOOLEAN,
               WriteLine(b, kind, ok), UNCHANGED <<now, history>>,
               NEW from \in Steps \ {"idle"}, NEW to \in {"idle", "execute"},
               to = "execute" => from = "start", Goto(h, from, to)
        PROVE  StatusFollowsVerdict' /\ HandlerKnows' /\ RanAsApproved'
    <2>1. pc[h] # "idle" /\ UNCHANGED <<clock, req, expires, ran, altered, verdict, decidedAt, now>>
      BY <1>5 DEF Goto
    <2>2. /\ StatusFollowsVerdict'
          /\ \A a \in Actions : status'[a] = "absent" <=> status[a] = "absent"
      BY <1>0, <1>5, <2>1, PlainLine
    <2>3. pc' = [pc EXCEPT ![h] = to] /\ pc[h] = from
      BY <1>5 DEF Goto
    <2> HIDE DEF b
    <2>4. RanAsApproved'
      BY <2>1 DEF SafetyInv, RanAsApproved
    <2>5. ASSUME NEW g \in Handlers
          PROVE  req[g].act \in Actions
      BY RequestType DEF SafetyInv
    <2>6. HandlerKnows'
      BY <1>0, <1>5, <2>1, <2>2, <2>3, <2>5 DEF SafetyInv, HandlerKnows, Decided, Committed
    <2> QED BY <2>2, <2>4, <2>6
  <1>6. CASE Expire(h)
    BY <1>5, <1>6 DEF Expire, Steps, EventKinds
  <1>7. CASE NearMiss(h)
    BY <1>5, <1>7 DEF NearMiss, Steps, EventKinds
  <1>8. CASE Start(h)
    BY <1>5, <1>8 DEF Start, Steps, EventKinds
  <1>9. CASE Record(h)
    BY <1>5, <1>9 DEF Record, Steps, EventKinds
  <1>10. CASE Execute(h)
    <2>1. /\ UNCHANGED <<clock, req, expires, now, status, verdict, decidedAt>>
          /\ pc' = [pc EXCEPT ![h] = "record"] /\ pc[h] = "execute"
          /\ ran' = [ran EXCEPT ![b] = ran[b] + 1]
      BY <1>0, <1>10 DEF Execute, Goto
    <2>2. verdict[b] = "approved" /\ decidedAt[b] <= expires[b] /\ req[h].same
      BY <2>1 DEF SafetyInv, HandlerKnows, Committed
    <2>3. altered' = {}
      BY <1>10, <2>2 DEF Execute, SafetyInv, RanAsApproved
    <2> HIDE DEF b
    <2>4. RanAsApproved'
      BY <1>0, <2>1, <2>2, <2>3 DEF SafetyInv, RanAsApproved
    <2>5. StatusFollowsVerdict'
      BY <2>1 DEF SafetyInv, StatusFollowsVerdict
    <2>6. HandlerKnows'
      BY <1>0, <2>1 DEF SafetyInv, HandlerKnows, Decided, Committed
    <2> QED BY <2>4, <2>5, <2>6
  <1> QED BY <1>2, <1>3, <1>4, <1>6, <1>7, <1>8, <1>9, <1>10
          DEF HandlerStep, DecideApprove, ReadClock, Check

(* So does every other step: proposals, `posted` lines, new requests,       *)
(* process deaths and the passing of time.                                  *)
LEMMA EnvironmentSafe ==
  ASSUME SafetyInv, TypeOK',
         \/ \E a \in Actions : Propose(a) \/ Posted(a)
         \/ \E h \in Handlers : \E r \in Requests : Receive(h, r)
         \/ \E dead \in SUBSET InFlight : Crash(dead)
         \/ Tick
  PROVE  StatusFollowsVerdict' /\ HandlerKnows' /\ RanAsApproved'
  <1> USE DEF handler, history, proposal, record
  <1>0. /\ pc \in [Handlers -> Steps] /\ status \in [Actions -> Statuses]
        /\ req \in [Handlers -> Requests] /\ expires \in [Actions -> Nat]
        /\ clock \in 0..MaxTime /\ clock' \in 0..MaxTime
        /\ decidedAt \in [Actions -> 0..MaxTime]
        /\ \A h \in Handlers : req[h].act \in Actions
    BY RequestType DEF SafetyInv, TypeOK
  <1>1. ASSUME NEW a \in Actions, Propose(a)
        PROVE  StatusFollowsVerdict' /\ HandlerKnows' /\ RanAsApproved'
    <2>1. /\ a \notin Stray /\ status[a] = "absent" /\ status' = [status EXCEPT ![a] = "proposed"]
          /\ UNCHANGED <<clock, pc, req, now, ran, altered, verdict, decidedAt>>
          /\ expires' = [expires EXCEPT ![a] = clock + TTL]
      BY <1>0, <1>1 DEF Propose, WriteLine, FoldStep, From, To, Statuses
    <2>2. verdict[a] = "none"
      BY <2>1 DEF SafetyInv, StatusFollowsVerdict
    <2>3. StatusFollowsVerdict'
      BY <1>0, <2>1, <2>2 DEF SafetyInv, StatusFollowsVerdict, Approved, Open
    <2>4. \A b \in Actions : verdict[b] = "approved" => expires'[b] = expires[b]
      BY <1>0, <2>1, <2>2
    <2>5. RanAsApproved'
      BY <2>1, <2>4 DEF SafetyInv, RanAsApproved
    <2>6. \A b \in Actions : status[b] # "absent" => status'[b] # "absent"
      BY <1>0, <2>1
    <2>7. HandlerKnows'
      BY <1>0, <2>1, <2>4, <2>6 DEF SafetyInv, HandlerKnows
    <2> QED BY <2>3, <2>5, <2>7
  <1>2. ASSUME NEW a \in Actions, Posted(a)
        PROVE  StatusFollowsVerdict' /\ HandlerKnows' /\ RanAsApproved'
    <2>1. /\ WriteLine(a, "posted", TRUE)
          /\ UNCHANGED <<clock, pc, req, now, ran, altered, verdict, decidedAt, expires>>
      BY <1>2 DEF Posted
    <2>2. /\ StatusFollowsVerdict'
          /\ \A b \in Actions : status'[b] = "absent" <=> status[b] = "absent"
      BY <2>1, PlainLine DEF EventKinds
    <2>3. RanAsApproved'
      BY <2>1 DEF SafetyInv, RanAsApproved
    <2>4. HandlerKnows'
      BY <1>0, <2>1, <2>2 DEF SafetyInv, HandlerKnows
    <2> QED BY <2>2, <2>3, <2>4
  <1>3. ASSUME NEW h \in Handlers, NEW r \in Requests, Receive(h, r)
        PROVE  StatusFollowsVerdict' /\ HandlerKnows' /\ RanAsApproved'
    <2>1. UNCHANGED <<clock, now, status, ran, altered, verdict, decidedAt, expires>>
      BY <1>3 DEF Receive
    <2>2. StatusFollowsVerdict' /\ RanAsApproved'
      BY <2>1 DEF SafetyInv, RanAsApproved, StatusFollowsVerdict
    <2>3. PICK to \in {"gate", "decide"} : /\ pc' = [pc EXCEPT ![h] = to]
                                           /\ to = "gate" => verdict[r.act] # "none"
      BY <1>3 DEF Receive
    <2>4. /\ req' = [req EXCEPT ![h] = r]
          /\ r.act \in Stray \/ status[r.act] # "absent"
      BY <1>3 DEF Receive
    <2>5. pc'[h] = to /\ req'[h] = r
      BY <1>0, <2>3, <2>4
    <2>6. ASSUME NEW g \in Handlers, g # h
          PROVE  pc'[g] = pc[g] /\ req'[g] = req[g]
      BY <1>0, <2>3, <2>4, <2>6
    <2>7. HandlerKnows'
      <3> SUFFICES ASSUME NEW g \in Handlers
                   PROVE  LET a == req'[g].act IN
                          /\ pc'[g] # "idle" => a \in Stray \/ status[a] # "absent"
                          /\ pc'[g] \in Decided => verdict[a] # "none"
                          /\ pc'[g] = "check" => decidedAt[a] <= now[g]
                          /\ pc'[g] \in Committed => /\ verdict[a] = "approved"
                                                     /\ decidedAt[a] <= expires[a]
                                                     /\ req'[g].same
        BY <2>1 DEF HandlerKnows
      <3>1. CASE g = h
        BY <2>3, <2>4, <2>5, <3>1 DEF Decided, Committed
      <3>2. CASE g # h
        BY <2>6, <3>2 DEF SafetyInv, HandlerKnows
      <3> QED BY <3>1, <3>2
    <2> QED BY <2>2, <2>7
  <1>4. ASSUME NEW dead \in SUBSET InFlight, Crash(dead)
        PROVE  StatusFollowsVerdict' /\ HandlerKnows' /\ RanAsApproved'
    <2>1. /\ UNCHANGED <<clock, now, req, status, ran, altered, verdict, decidedAt, expires>>
          /\ \A h \in Handlers : pc'[h] \in {"idle", pc[h]}
      BY <1>4 DEF Crash
    <2>2. StatusFollowsVerdict' /\ RanAsApproved'
      BY <2>1 DEF SafetyInv, RanAsApproved, StatusFollowsVerdict
    <2>3. HandlerKnows'
      BY <2>1 DEF SafetyInv, HandlerKnows, Decided, Committed
    <2> QED BY <2>2, <2>3
  <1>5. ASSUME Tick
        PROVE  StatusFollowsVerdict' /\ HandlerKnows' /\ RanAsApproved'
    <2>1. /\ UNCHANGED <<pc, now, req, status, ran, altered, verdict, decidedAt, expires>>
          /\ clock' = clock + 1
      BY <1>5 DEF Tick
    <2>2. HandlerKnows' /\ RanAsApproved'
      BY <2>1 DEF SafetyInv, RanAsApproved, HandlerKnows
    <2>3. ASSUME NEW a \in Actions
          PROVE  decidedAt[a] <= clock'
      BY <1>0, <2>1 DEF SafetyInv, StatusFollowsVerdict
    <2>4. StatusFollowsVerdict'
      BY <2>1, <2>3 DEF SafetyInv, StatusFollowsVerdict
    <2> QED BY <2>2, <2>4
  <1> QED BY <1>1, <1>2, <1>3, <1>4, <1>5

(* The inductive invariant holds in every deployment. *)
THEOREM SafetyInvariant == Spec => []SafetyInv
  <1>1. Init /\ TypeOK => SafetyInv
    BY DEF Init, SafetyInv, StatusFollowsVerdict, HandlerKnows, RanAsApproved,
           Approved, Open, Decided, Committed, TypeOK
  <1>2. SafetyInv /\ TypeOK' /\ [Next]_vars => SafetyInv'
    <2> SUFFICES ASSUME SafetyInv, TypeOK', [Next]_vars PROVE SafetyInv'
      OBVIOUS
    <2>1. CASE UNCHANGED vars
      BY <2>1 DEF vars, handler, history, proposal, record, SafetyInv,
                  StatusFollowsVerdict, HandlerKnows, RanAsApproved
    <2>2. CASE \E h \in Handlers : HandlerStep(h)
      BY <2>2, HandlerStepSafe DEF SafetyInv
    <2>3. CASE Next /\ ~ \E h \in Handlers : HandlerStep(h)
      BY <2>3, EnvironmentSafe DEF SafetyInv, Next
    <2> QED BY <2>1, <2>2, <2>3
  <1> QED BY <1>1, <1>2, TypeCorrect, PTL DEF Spec

(* Whatever the threads do, an operation runs only if its first decision on  *)
(* record was an approval, given before the expiry, for that content         *)
(* (gate.py:38-66, dispatch.py:34-44).                                       *)
THEOREM ExecutionWasApproved ==
  Spec => []ExecutedAsApproved
  <1>1. SafetyInv => ExecutedAsApproved
    BY DEF SafetyInv, RanAsApproved, ExecutedAsApproved
  <1> QED BY <1>1, SafetyInvariant, PTL
-----------------------------------------------------------------------------
(* Whatever else a step does, to the journal it adds one line or nothing.   *)
LEMMA StepIsALine ==
  ASSUME TypeOK, [Next]_vars
  PROVE  \/ UNCHANGED record
         \/ \E a \in Actions, kind \in EventKinds, ok \in BOOLEAN :
              WriteLine(a, kind, ok) /\ (kind = "proposed" => status[a] = "absent")
  <1> USE DEF EventKinds, WriteDecision
  <1>1. CASE \E a \in Actions : Propose(a) \/ Posted(a)
    BY <1>1 DEF Propose, Posted
  <1>2. ASSUME NEW h \in Handlers, HandlerStep(h)
        PROVE  \/ UNCHANGED record
               \/ \E a \in Actions, kind \in EventKinds \ {"proposed"}, ok \in BOOLEAN : WriteLine(a, kind, ok)
    <2>1. req[h].act \in Actions
      BY RequestType
    <2> QED BY <1>2, <2>1
            DEF HandlerStep, DecideDeny, DecideApprove, Approve, ReadClock, Check, Expire,
                NearMiss, Start, Execute, Record
  <1>3. CASE \/ \E h \in Handlers : \E r \in Requests : Receive(h, r)
             \/ \E dead \in SUBSET InFlight : Crash(dead)
             \/ Tick \/ UNCHANGED vars
    BY <1>3 DEF Receive, Crash, Tick, vars
  <1> QED BY <1>1, <1>2, <1>3 DEF Next

(* NeverReopened: whatever lines late or repeated handlers write, a settled  *)
(* action stays as it is, and one that was decided is never open again       *)
(* (journal.py:70-107).                                                      *)
THEOREM SettledIsSettled == Spec => NeverReopened
  <1> DEFINE Keeps == \A a \in Actions : /\ status[a] \in Terminal => status'[a] = status[a]
                                         /\ status[a] \notin Open \cup {"absent"} => status'[a] \notin Open
  <1>1. ASSUME TypeOK, [Next]_vars  PROVE Keeps
    <2>1. CASE UNCHANGED record
      BY <2>1 DEF record
    <2>2. ASSUME NEW b \in Actions, NEW kind \in EventKinds, NEW ok \in BOOLEAN,
                 WriteLine(b, kind, ok), kind = "proposed" => status[b] = "absent"
          PROVE  Keeps
      <3>1. /\ status[b] \in Statuses
            /\ \A a \in Actions : status'[a] = IF a = b THEN FoldStep(status[b], kind, ok) ELSE status[a]
        BY <1>1, <2>2 DEF TypeOK, WriteLine
      <3>2. /\ status[b] \in Terminal => FoldStep(status[b], kind, ok) = status[b]
            /\ status[b] \notin Open \cup {"absent"} => FoldStep(status[b], kind, ok) \notin Open
        BY <2>2, <3>1 DEF FoldStep, From, To, EventKinds, Open, Terminal, Statuses
      <3> QED BY <3>1, <3>2
    <2> QED BY <1>1, <2>1, <2>2, StepIsALine
  <1>2. TypeOK /\ [Next]_vars => [Keeps]_vars
    BY <1>1
  <1> QED BY <1>2, TypeCorrect, PTL DEF Spec, NeverReopened

(* g is what fold() makes of an action as it goes through the lines.        *)
Folds(g, lines, a) ==
  g = [n \in 0..Len(lines) |->
         IF n = 0 THEN "absent"
         ELSE IF lines[n].id = a
                THEN FoldStep(g[n - 1], lines[n].kind, lines[n].ok)
                ELSE g[n - 1]]

(* There is such a g, and it ends at the status that is carried along.      *)
Carried ==
  \A a \in Actions : /\ \E g : Folds(g, journal, a)
                     /\ \A g : Folds(g, journal, a) => g[Len(journal)] = status[a]

LEMMA CarriedStep ==
  ASSUME TypeOK, Carried, [Next]_vars
  PROVE  Carried'
  <1>1. CASE UNCHANGED record
    BY <1>1 DEF record, Carried, Folds
  <1>2. ASSUME NEW b \in Actions, NEW kind \in EventKinds, NEW ok \in BOOLEAN,
               WriteLine(b, kind, ok)
        PROVE  Carried'
    <2> DEFINE line == [kind |-> kind, id |-> b, ok |-> ok]
               m == Len(journal)
    <2>1. line \in Lines /\ journal \in Seq(Lines) /\ m \in Nat
      BY DEF Lines, TypeOK
    <2>2. /\ journal' = Append(journal, line) /\ Len(journal') = m + 1
          /\ journal'[m + 1] = line /\ \A n \in 1..m : journal'[n] = journal[n]
      BY <1>2, <2>1 DEF WriteLine
    <2>3. \A a \in Actions : status'[a] = IF a = b THEN FoldStep(status[a], kind, ok) ELSE status[a]
      BY <1>2 DEF WriteLine, TypeOK
    <2> SUFFICES ASSUME NEW a \in Actions
                 PROVE  /\ \E g : Folds(g, journal', a)
                        /\ \A g : Folds(g, journal', a) => g[Len(journal')] = status'[a]
      BY DEF Carried
    <2>4. \E g : Folds(g, journal', a)
      <3>1. PICK g : Folds(g, journal, a)
        BY DEF Carried
      <3>2. g[m] = status[a]
        BY <3>1 DEF Carried
      <3> DEFINE longer == [n \in 0..(m + 1) |-> IF n = m + 1 THEN status'[a] ELSE g[n]]
      <3>3. \A n \in 0..m : g[n] = IF n = 0 THEN "absent"
                                   ELSE IF journal[n].id = a
                                     THEN FoldStep(g[n - 1], journal[n].kind, journal[n].ok) ELSE g[n - 1]
        BY <3>1 DEF Folds
      <3>4. \A n \in 0..(m + 1) :
              longer[n] = IF n = 0 THEN "absent"
                          ELSE IF journal'[n].id = a
                            THEN FoldStep(longer[n - 1], journal'[n].kind, journal'[n].ok) ELSE longer[n - 1]
        <4> TAKE n \in 0..(m + 1)
        <4>1. CASE n = m + 1
          BY <2>1, <2>2, <2>3, <3>2, <4>1
        <4>2. CASE n \in 1..m
          BY <2>1, <2>2, <3>3, <4>2
        <4>3. CASE n = 0
          BY <2>1, <3>3, <4>3
        <4> QED BY <2>1, <4>1, <4>2, <4>3
      <3>5. Folds(longer, journal', a)
        <4> HIDE DEF line
        <4> QED BY <2>2, <3>4 DEF Folds
      <3> QED BY <3>5
    <2>5. ASSUME NEW g, Folds(g, journal', a)
          PROVE  g[Len(journal')] = status'[a]
      <3> DEFINE shorter == [n \in 0..m |-> g[n]]
      <3>1. \A n \in 0..(m + 1) : g[n] = IF n = 0 THEN "absent"
                                         ELSE IF journal'[n].id = a
                                           THEN FoldStep(g[n - 1], journal'[n].kind, journal'[n].ok) ELSE g[n - 1]
        BY <2>2, <2>5 DEF Folds
      <3>2. \A n \in 0..m : shorter[n] = IF n = 0 THEN "absent"
                                         ELSE IF journal[n].id = a
                                           THEN FoldStep(shorter[n - 1], journal[n].kind, journal[n].ok) ELSE shorter[n - 1]
        BY <2>1, <2>2, <3>1
      <3>3. Folds(shorter, journal, a)
        BY <3>2 DEF Folds
      <3>4. g[m] = status[a]
        BY <2>1, <3>3 DEF Carried
      <3> QED BY <2>1, <2>2, <2>3, <3>1, <3>4
    <2> QED BY <2>4, <2>5
  <1> QED BY <1>1, <1>2, StepIsALine

(* The status a step goes by is the one state_of computes, by folding the    *)
(* whole file again on every call (journal.py:62-107).                       *)
THEOREM StatusIsTheFold == Spec => [](\A a \in Actions : status[a] = Fold(a))
  <1>1. Init => Carried
    <2> SUFFICES ASSUME Init, NEW a \in Actions
                 PROVE  /\ \E g : Folds(g, journal, a)
                        /\ \A g : Folds(g, journal, a) => g[Len(journal)] = status[a]
      BY DEF Carried
    <2>1. Len(journal) = 0 /\ status[a] = "absent"
      BY DEF Init
    <2>2. Folds([n \in 0..0 |-> "absent"], journal, a)
      BY <2>1 DEF Folds
    <2>3. \A g : Folds(g, journal, a) => g[Len(journal)] = status[a]
      BY <2>1 DEF Folds
    <2> QED BY <2>2, <2>3
  <1>2. TypeOK /\ Carried /\ [Next]_vars => Carried'
    BY CarriedStep
  <1>3. Carried => \A a \in Actions : status[a] = Fold(a)
    <2> SUFFICES ASSUME Carried, NEW a \in Actions  PROVE status[a] = Fold(a)
      OBVIOUS
    <2> DEFINE f == CHOOSE g : Folds(g, journal, a)
    <2>1. Folds(f, journal, a)
      BY DEF Carried
    <2>2. Fold(a) = f[Len(journal)]
      BY DEF Fold, Folds
    <2> QED BY <2>1, <2>2 DEF Carried
  <1> QED BY <1>1, <1>2, <1>3, TypeCorrect, PTL DEF Spec
-----------------------------------------------------------------------------
(* What is guaranteed where decisions are handled one at a time.            *)

OneHandler == \A g, h \in Handlers : pc[g] # "idle" /\ pc[h] # "idle" => g = h

(* Between its check and its last line the handler owns the action.         *)
Owns ==
  \A h \in Handlers :
    LET a == req[h].act
    IN  /\ pc[h] = "start" => status[a] = "approved"
        /\ pc[h] = "execute" => status[a] = "executing" /\ ran[a] = 0
        /\ pc[h] = "record" => status[a] = "executing" /\ ran[a] = 1
        /\ pc[h] = "expire" => status[a] = "approved"

RanAtMostOnce ==
  \A a \in Actions : /\ ran[a] \in {0, 1}
                     /\ status[a] \notin Consumed => ran[a] = 0
                     /\ status[a] \in {"done", "failed"} => ran[a] = 1

SerialInv == OneHandler /\ Owns /\ RanAtMostOnce

(* A line of kind k, where it has no effect and where it has one. *)
LEMMA LineCases ==
  ASSUME TypeOK, NEW a \in Actions, NEW kind \in EventKinds, NEW ok \in BOOLEAN,
         WriteLine(a, kind, ok)
  PROVE  /\ status[a] \notin From(kind) => UNCHANGED status
         /\ status[a] \in From(kind) => status' = [status EXCEPT ![a] = To(kind, ok)]
  <1>1. status \in [Actions -> Statuses]
    BY DEF TypeOK
  <1> QED BY <1>1 DEF WriteLine, FoldStep

(* A serialized handler's step preserves SerialInv and is a step of the      *)
(* contract, or changes nothing the contract speaks of.                      *)
LEMMA SerialHandlerStep ==
  ASSUME TypeOK, SerialInv, NEW h \in Handlers, HandlerStep(h)
  PROVE  SerialInv' /\ (Contract!Next \/ UNCHANGED <<status, ran>>)
  <1> USE DEF handler, history, proposal, record
  <1> DEFINE b == req[h].act
  <1>0. /\ b \in Actions /\ pc \in [Handlers -> Steps] /\ status \in [Actions -> Statuses]
        /\ ran \in [Actions -> Nat]
    BY RequestType DEF TypeOK
  <1>1. /\ pc[h] # "idle" /\ UNCHANGED req
        /\ \A g \in Handlers \ {h} : pc[g] = "idle" /\ pc'[g] = "idle"
    <2>1. \A g \in Handlers \ {h} : pc[g] # "idle" => pc[h] = "idle"
      BY DEF SerialInv, OneHandler
    <2>2. PICK from \in Steps \ {"idle"}, to \in Steps : Goto(h, from, to)
      BY DEF HandlerStep, DecideDeny, DecideApprove, Approve, ReadClock, Check, Gate,
             Expire, NearMiss, Start, Execute, Record, Steps
    <2> QED BY <1>0, <2>1, <2>2 DEF Goto
  <1>2. OneHandler'
    BY <1>1 DEF OneHandler
  <1>3. ASSUME NEW kind \in {"denied", "approved", "expired", "near_miss"}, NEW to \in Steps,
               WriteLine(b, kind, TRUE), UNCHANGED ran, pc' = [pc EXCEPT ![h] = to],
               to \in {"idle", "gate"}, kind = "expired" => status[b] = "approved"
        PROVE  SerialInv' /\ (Contract!Next \/ UNCHANGED <<status, ran>>)
    <2>0. /\ status[b] \notin From(kind) => UNCHANGED status
          /\ status[b] \in From(kind) => status' = [status EXCEPT ![b] = To(kind, TRUE)]
      <3>1. kind \in EventKinds
        BY DEF EventKinds
      <3> HIDE DEF b
      <3> QED BY <1>0, <1>3, <3>1, LineCases
    <2>1. CASE status[b] \notin From(kind)
      <3>1. UNCHANGED <<status, ran>>
        BY <1>3, <2>0, <2>1
      <3>2. Owns'
        BY <1>0, <1>1, <1>3, <3>1 DEF Owns
      <3>3. RanAtMostOnce'
        BY <3>1 DEF SerialInv, RanAtMostOnce
      <3> QED BY <1>2, <3>1, <3>2, <3>3 DEF SerialInv
    <2>2. CASE status[b] \in From(kind)
      <3>1. kind # "near_miss" /\ status' = [status EXCEPT ![b] = kind]
        BY <2>0, <2>2 DEF From, To
      <3>2. status[b] \notin Consumed /\ kind \notin Consumed
        BY <1>3, <2>2, <3>1 DEF From, Open, Consumed
      <3>3. RanAtMostOnce'
        BY <1>0, <1>3, <3>1, <3>2 DEF SerialInv, RanAtMostOnce, Consumed
      <3>4. Owns'
        BY <1>0, <1>1, <1>3, <3>1 DEF Owns
      <3>5. \/ Contract!Approve(b) \/ Contract!Deny(b) \/ Contract!Expire(b)
        BY <1>3, <2>2, <3>1 DEF From, Open, Contract!Approve, Contract!Deny, Contract!Expire,
                                Contract!Move, Contract!Pending
      <3> QED BY <1>0, <1>2, <3>3, <3>4, <3>5 DEF SerialInv, Contract!Next
    <2> QED BY <2>1, <2>2
  <1>4. CASE DecideDeny(h)
    BY <1>3, <1>4 DEF DecideDeny, WriteDecision, Goto, Steps
  <1>5. CASE Approve(h)
    BY <1>3, <1>5 DEF Approve, WriteDecision, Goto, Steps
  <1>6. CASE Expire(h)
    <2>1. status[b] = "approved"
      BY <1>6 DEF Expire, Goto, SerialInv, Owns
    <2> QED BY <1>3, <1>6, <2>1 DEF Expire, Goto, Steps
  <1>7. CASE NearMiss(h)
    BY <1>3, <1>7 DEF NearMiss, Goto, Steps
  <1>8. CASE DecideApprove(h) \/ ReadClock(h)
    <2>1. /\ UNCHANGED <<status, ran>>
          /\ pc'[h] \in {"idle", "approve", "check"}
      BY <1>0, <1>8 DEF DecideApprove, ReadClock, Goto
    <2>2. Owns' /\ RanAtMostOnce'
      BY <1>0, <1>1, <2>1 DEF SerialInv, Owns, RanAtMostOnce
    <2> QED BY <1>2, <2>1, <2>2 DEF SerialInv
  <1>9. CASE Check(h)
    <2>1. UNCHANGED <<status, ran>> /\ pc'[h] = Gate(h)
      BY <1>0, <1>9 DEF Check, Goto
    <2>2. /\ Gate(h) \in {"idle", "expire", "nearmiss", "start"}
          /\ Gate(h) \in {"expire", "start"} => status[b] = "approved"
      BY DEF Gate
    <2>3. Owns' /\ RanAtMostOnce'
      BY <1>0, <1>1, <2>1, <2>2 DEF SerialInv, Owns, RanAtMostOnce
    <2> QED BY <1>2, <2>1, <2>3 DEF SerialInv
  <1>10. CASE Start(h)
    <2>1. status[b] = "approved" /\ pc'[h] = "execute" /\ UNCHANGED ran
      BY <1>0, <1>10 DEF Start, Goto, SerialInv, Owns
    <2>2. status' = [status EXCEPT ![b] = "executing"]
      BY <1>0, <1>10, <2>1, LineCases DEF Start, From, To, EventKinds
    <2>3. ran[b] = 0
      BY <1>0, <2>1 DEF SerialInv, RanAtMostOnce, Consumed
    <2>4. RanAtMostOnce'
      BY <1>0, <2>1, <2>2, <2>3 DEF SerialInv, RanAtMostOnce, Consumed
    <2>5. Owns'
      BY <1>0, <1>1, <2>1, <2>2, <2>3 DEF Owns
    <2>6. Contract!Consume(b)
      BY <2>1, <2>2 DEF Contract!Consume, Contract!Move
    <2> QED BY <1>0, <1>2, <2>4, <2>5, <2>6 DEF SerialInv, Contract!Next
  <1>11. CASE Execute(h)
    <2>1. status[b] = "executing" /\ ran[b] = 0 /\ pc'[h] = "record" /\ UNCHANGED status
      BY <1>0, <1>11 DEF Execute, Goto, SerialInv, Owns
    <2>2. ran' = [ran EXCEPT ![b] = 1]
      BY <1>0, <1>11, <2>1 DEF Execute
    <2>3. RanAtMostOnce'
      BY <1>0, <2>1, <2>2 DEF SerialInv, RanAtMostOnce, Consumed
    <2>4. Owns'
      BY <1>0, <1>1, <2>1, <2>2 DEF Owns
    <2>5. Contract!Perform(b)
      BY <2>1, <2>2 DEF Contract!Perform
    <2> QED BY <1>0, <1>2, <2>3, <2>4, <2>5 DEF SerialInv, Contract!Next
  <1>12. CASE Record(h)
    <2>1. status[b] = "executing" /\ ran[b] = 1 /\ pc'[h] = "idle" /\ UNCHANGED ran
      BY <1>0, <1>12 DEF Record, Goto, SerialInv, Owns
    <2>2. PICK result \in {"done", "failed"} : status' = [status EXCEPT ![b] = result]
      BY <1>0, <1>12, <2>1, LineCases DEF Record, From, To, EventKinds
    <2>3. RanAtMostOnce'
      BY <1>0, <2>1, <2>2 DEF SerialInv, RanAtMostOnce, Consumed
    <2>4. Owns'
      BY <1>0, <1>1, <2>1, <2>2 DEF Owns
    <2>5. Contract!Finish(b)
      BY <2>1, <2>2 DEF Contract!Finish, Contract!Move
    <2> QED BY <1>0, <1>2, <2>3, <2>4, <2>5 DEF SerialInv, Contract!Next
  <1> QED BY <1>4, <1>5, <1>6, <1>7, <1>8, <1>9, <1>10, <1>11, <1>12 DEF HandlerStep

(* The other steps, with decisions handled one at a time. *)
LEMMA SerialEnvironmentStep ==
  ASSUME TypeOK, SerialInv, Serialized,
         \/ \E a \in Actions : Propose(a) \/ Posted(a)
         \/ \E h \in Handlers : \E r \in Requests : Receive(h, r)
         \/ \E dead \in SUBSET InFlight : Crash(dead)
         \/ Tick
  PROVE  SerialInv' /\ (Contract!Next \/ UNCHANGED <<status, ran>>)
  <1> USE DEF handler, history, proposal, record
  <1>0. /\ pc \in [Handlers -> Steps] /\ status \in [Actions -> Statuses]
        /\ req \in [Handlers -> Requests] /\ ran \in [Actions -> Nat]
        /\ \A h \in Handlers : req[h].act \in Actions
    BY RequestType DEF TypeOK
  <1>1. ASSUME NEW a \in Actions, NEW from \in {"absent", "proposed"},
               NEW to \in {"proposed", "posted"}, status[a] = from,
               status' = [status EXCEPT ![a] = to], UNCHANGED <<pc, req, ran>>
        PROVE  SerialInv'
    <2>1. RanAtMostOnce'
      BY <1>0, <1>1 DEF SerialInv, RanAtMostOnce, Consumed
    <2>2. Owns' /\ OneHandler'
      BY <1>0, <1>1 DEF SerialInv, Owns, OneHandler
    <2> QED BY <2>1, <2>2 DEF SerialInv
  <1>2. ASSUME UNCHANGED <<status, ran, pc, req>>
        PROVE  SerialInv'
    BY <1>2 DEF SerialInv, OneHandler, Owns, RanAtMostOnce
  <1>3. ASSUME NEW a \in Actions, Propose(a)
        PROVE  SerialInv' /\ Contract!Next
    <2>1. status[a] = "absent" /\ status' = [status EXCEPT ![a] = "proposed"]
          /\ UNCHANGED <<pc, req, ran>>
      BY <1>0, <1>3 DEF Propose, WriteLine, FoldStep, From, To, Statuses
    <2>2. Contract!Propose(a)
      BY <2>1 DEF Contract!Propose, Contract!Move
    <2> QED BY <1>1, <2>1, <2>2 DEF Contract!Next
  <1>4. ASSUME NEW a \in Actions, Posted(a)
        PROVE  SerialInv' /\ (Contract!Next \/ UNCHANGED <<status, ran>>)
    <2>1. WriteLine(a, "posted", TRUE) /\ UNCHANGED <<pc, req, ran>>
      BY <1>4 DEF Posted
    <2>2. /\ status[a] # "proposed" => UNCHANGED status
          /\ status[a] = "proposed" => status' = [status EXCEPT ![a] = "posted"]
      BY <2>1, LineCases DEF EventKinds, From, To
    <2>3. CASE status[a] = "proposed"
      <3>1. Contract!Announce(a)
        BY <2>1, <2>2, <2>3 DEF Contract!Announce, Contract!Move
      <3> QED BY <1>1, <2>1, <2>2, <2>3, <3>1 DEF Contract!Next
    <2>4. CASE status[a] # "proposed"
      BY <1>2, <2>1, <2>2, <2>4
    <2> QED BY <2>3, <2>4
  <1>5. ASSUME NEW h \in Handlers, NEW r \in Requests, Receive(h, r)
        PROVE  SerialInv' /\ UNCHANGED <<status, ran>>
    <2>1. UNCHANGED <<status, ran>> /\ \A g \in Handlers : pc[g] = "idle"
      BY <1>5 DEF Receive, InFlight
    <2>2. PICK to \in {"gate", "decide"} : pc' = [pc EXCEPT ![h] = to]
      BY <1>5 DEF Receive
    <2>3. OneHandler'
      BY <1>0, <2>1, <2>2 DEF OneHandler
    <2>4. Owns' /\ RanAtMostOnce'
      BY <1>0, <2>1, <2>2 DEF SerialInv, Owns, RanAtMostOnce
    <2> QED BY <2>1, <2>3, <2>4 DEF SerialInv
  <1>6. ASSUME NEW dead \in SUBSET InFlight, Crash(dead)
        PROVE  SerialInv' /\ UNCHANGED <<status, ran>>
    <2>1. /\ UNCHANGED <<status, ran, req>>
          /\ \A h \in Handlers : pc'[h] \in {"idle", pc[h]}
      BY <1>6 DEF Crash
    <2> QED BY <2>1 DEF SerialInv, OneHandler, Owns, RanAtMostOnce
  <1>7. CASE Tick
    BY <1>2, <1>7 DEF Tick
  <1> QED BY <1>3, <1>4, <1>5, <1>6, <1>7

(* One step, of either sort. *)
LEMMA SerialStep ==
  ASSUME TypeOK, SerialInv, Serialized, [Next]_vars
  PROVE  SerialInv' /\ [Contract!Next]_<<status, ran>>
  <1>1. CASE UNCHANGED vars
    BY <1>1 DEF vars, handler, history, record, SerialInv, OneHandler, Owns, RanAtMostOnce
  <1>2. CASE \E h \in Handlers : HandlerStep(h)
    BY <1>2, SerialHandlerStep
  <1>3. CASE Next /\ ~ \E h \in Handlers : HandlerStep(h)
    BY <1>3, SerialEnvironmentStep DEF Next
  <1> QED BY <1>1, <1>2, <1>3

LEMMA SerialInit == Init => SerialInv /\ Contract!Init
  BY DEF Init, SerialInv, OneHandler, Owns, RanAtMostOnce, Consumed, Contract!Init

(* Behind a serialized listener a remediation runs at most once, across      *)
(* retries, redeliveries and process deaths (gate.py:38-40).                 *)
THEOREM SerializedSingleUse ==
  ASSUME Serialized PROVE Spec => []SingleUse
  <1>1. SerialInv => SingleUse
    BY DEF SerialInv, RanAtMostOnce, SingleUse
  <1>2. TypeOK /\ SerialInv /\ [Next]_vars => SerialInv'
    BY SerialStep
  <1> QED BY <1>1, <1>2, SerialInit, TypeCorrect, PTL DEF Spec

(* There the journal says of a remediation what happened to it: what it      *)
(* calls done or failed was performed, and what was performed is called      *)
(* consumed (gate.py:60-66, report.py).                                      *)
THEOREM SerializedAudit ==
  ASSUME Serialized PROVE Spec => []AuditMatchesWorld
  <1>1. SerialInv => AuditMatchesWorld
    BY DEF SerialInv, RanAtMostOnce, AuditMatchesWorld
  <1>2. TypeOK /\ SerialInv /\ [Next]_vars => SerialInv'
    BY SerialStep
  <1> QED BY <1>1, <1>2, SerialInit, TypeCorrect, PTL DEF Spec

(* Behind a serialized listener the gate implements ApprovalContract.        *)
THEOREM SerializedImplementsContract ==
  ASSUME Serialized PROVE Spec => ImplementsContract
  <1>1. TypeOK /\ SerialInv /\ [Next]_vars => SerialInv' /\ [Contract!Next]_<<status, ran>>
    BY SerialStep
  <1> QED BY <1>1, SerialInit, TypeCorrect, PTL DEF Spec, ImplementsContract, Contract!Spec
=============================================================================
