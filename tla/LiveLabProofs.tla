----------------------------- MODULE LiveLabProofs -----------------------------
(***************************************************************************)
(* One live run, for any scenarios, request threads, TTL and bounds: its   *)
(* journal, its dashboard and the lab tell one story, and an abort given   *)
(* before the decision prevents the operation. And the live lab over many  *)
(* runs: one run or replay at a time holds it, and where the flag client   *)
(* sweeps every flag, a baseline is clean of earlier faults and a fault    *)
(* that no death or failed clean-up explains belongs to a run that is      *)
(* alive.                                                                  *)
(*                                                                         *)
(* The story so far is a function of the point the thread is at: what the  *)
(* journal's fold, the dashboard and the count of operations can be there. *)
(* That a run is never shown as expired early rests on why the thread was  *)
(* woken: the event is set after a decision, or by an abort that is looked *)
(* at before the decision is.                                              *)
(*                                                                         *)
(* And the readings that such a run decides by: it reports a recovery      *)
(* exactly when there is one.                                              *)
(***************************************************************************)
EXTENDS LiveLab, HealthReadings, TLAPS

(* What has become of the proposal; the story is one of these. *)
Story(status, seen, count) == jstatus = status /\ shown = seen /\ ran \in count

Unproposed == Story("absent", "none", {0})
Waiting    == Story("posted", "posted", {0})
Approved   == Story("approved", "approved", {0})
Executing  == Story("executing", "approved", {0, 1})
Declined   == \/ Story("denied", "denied", {0})
              \/ Story("expired", "expired", {0}) /\ clock >= deadline
Settled    == \/ Story("done", "executed", {1})
              \/ Story("failed", "refused", {1})
              \/ Story("expired", "refused", {0}) /\ clock > expires

Unposted == Undecided \ {"enter", "await"}
Ended    == {"failed", "cancelled", "cleanup", "close", "exited"}

(* The story at each point of the thread. *)
StoryOK ==
  /\ pc \in Unposted => Unproposed
  /\ pc \in {"enter", "await", "woken", "decide"} => Waiting
  /\ pc \in {"render", "gate"} => Approved
  /\ pc = "execute" => Executing /\ ran = 0
  /\ pc = "record" => Executing /\ ran = 1
  /\ pc = "recover" => Settled
  /\ pc = "finish" => Settled \/ Declined
  /\ pc \in Ended => Unproposed \/ Waiting \/ Executing \/ Settled \/ Declined \/ Approved

(* Why the thread was woken. *)
WakingOK ==
  /\ ready => abort \/ decision # "none"
  /\ \A c \in Clients : cpc[c] = "signal" => decision # "none"
  /\ pc = "woken" => ready \/ clock >= deadline
  /\ pc = "decide" => decision # "none" \/ clock >= deadline

(* An early abort is looked at before the thread can go on to the decision. *)
AbortOK ==
  abortedEarly => abort /\ ran = 0 /\ pc \in Undecided \cup {"woken"} \cup Ended

(* The part of the type invariant that the argument needs. *)
KindsOK ==
  /\ pc \in Points
  /\ decision \in Verbs \cup {"none"}
  /\ cpc \in [Clients -> {"idle", "set", "signal"}]
  /\ cverb \in [Clients -> Verbs]
  /\ clock \in Nat /\ deadline \in Nat /\ expires \in Nat

IInv == KindsOK /\ StoryOK /\ WakingOK /\ AbortOK

-----------------------------------------------------------------------------
(* The story never contradicts itself. *)
LEMMA StoryIsTrue == IInv => RunIsToldAsItWas /\ EarlyAbortPreventsExecution
<1> SUFFICES ASSUME IInv
             PROVE  RunIsToldAsItWas /\ EarlyAbortPreventsExecution
  OBVIOUS
<1>1. Unproposed \/ Waiting \/ Approved \/ Executing \/ Settled \/ Declined
  BY DEF IInv, KindsOK, StoryOK, Points, Undecided, Unposted, Ended
<1>2. JournalMatchesWorld /\ ShownMatchesJournal /\ LateOnlyByTime
  BY <1>1 DEF JournalMatchesWorld, ShownMatchesJournal, LateOnlyByTime, Consumed,
     Unproposed, Waiting, Approved, Executing, Settled, Declined, Story
<1>3. EarlyAbortPreventsExecution
  BY DEF IInv, AbortOK, EarlyAbortPreventsExecution
<1> QED
  BY <1>2, <1>3 DEF RunIsToldAsItWas

LEMMA InitOK == Init => IInv
BY DEF Init, FreshRun, IInv, KindsOK, StoryOK, WakingOK, AbortOK, Points, Verbs,
   Undecided, Unposted, Ended, Unproposed, Story

(* A step of the thread that changes nothing of the story but the point.    *)
LEMMA Moves ==
  ASSUME IInv, NEW from, NEW to, NEW show, Goto(from, to, show),
         Quiet,
         \/ from \in Unposted /\ to \in Unposted
         \/ to \in Ended
         \/ from = "await" /\ to = "woken" /\ (ready \/ clock >= deadline)
         \/ from = "woken" /\ to = "decide" /\ ~abort
         \/ from = "render" /\ to = "gate"
         \/ from = "recover" /\ to = "finish"
  PROVE  IInv'
BY DEF IInv, KindsOK, StoryOK, WakingOK, AbortOK, Points, Undecided, Unposted, Ended,
   Goto, Quiet, control, action, lab, clients, Unproposed, Waiting, Approved, Executing,
   Settled, Declined, Story

(* One step of the thread, of a request, or of time. *)
LEMMA StepOK == IInv /\ [RunNext]_vars => IInv'
<1> SUFFICES ASSUME IInv, [RunNext]_vars
             PROVE  IInv'
  OBVIOUS
<1> USE DEF KindsOK, Points, Undecided, Unposted, Ended
<1>1. CASE ThreadStep
  <2>1. CASE Preflight \/ Boot \/ Ingest \/ Soak \/ Investigate \/ Wake \/ CheckAbort
                \/ Render \/ Finish \/ Failed \/ Cancelled \/ CloseBus
    BY <2>1, Moves DEF Preflight, Boot, Ingest, Soak, Investigate, Wake, CheckAbort, Render,
       Finish, Failed, Cancelled, CloseBus, Proceed, Raise, NoticeAbort
  <2>2. CASE Sweep \/ Inject \/ Cleanup
    BY <2>2 DEF Sweep, Inject, Cleanup, Goto, control, action, lab, clients, IInv, StoryOK,
       WakingOK, AbortOK, Unproposed, Waiting, Approved, Executing, Settled, Declined, Story
  <2>3. CASE Baseline
    <3>1. CASE NoticeAbort("baseline")
      BY <3>1, Moves DEF NoticeAbort
    <3> QED
      BY <2>3, <3>1 DEF Baseline, Goto, control, action, lab, clients, IInv, StoryOK,
         WakingOK, AbortOK, Unproposed, Story
  <2>4. CASE Propose \/ Enter
    <3>1. CASE Raise("propose")
      BY <3>1, Moves DEF Raise
    <3>2. CASE Propose /\ ~Raise("propose")
      <4>1. Goto("propose", "enter", phase) /\ Unproposed
        BY <3>2 DEF Propose, Goto, IInv, StoryOK
      <4>2. jstatus' = "posted"
        BY <3>2, <4>1 DEF Propose, FoldStep, From, To, Statuses, Unproposed, Story
      <4>3. expires' = clock + TTL /\ shown' = "posted" /\ UNCHANGED <<deadline, ran>>
        BY <3>2 DEF Propose
      <4>4. Waiting' /\ expires' \in Nat
        BY <4>1, <4>2, <4>3, LiveRunBounds DEF Unproposed, Waiting, Story, IInv
      <4> QED
        BY <4>1, <4>3, <4>4 DEF Goto, control, clients, IInv, StoryOK, WakingOK, AbortOK
    <3>3. CASE Enter
      BY <3>3, LiveRunBounds DEF Enter, Goto, control, clients, lab, IInv, StoryOK, WakingOK, AbortOK,
         Waiting, Story
    <3> QED
      BY <2>4, <3>1, <3>2, <3>3
  <2>5. CASE Decide
    <3>1. Waiting /\ (decision = "none" => clock >= deadline)
      BY <2>5 DEF Decide, Goto, IInv, StoryOK, WakingOK
    <3>2. jstatus' = IF decision = "none" THEN "expired" ELSE decision
      BY <2>5, <3>1 DEF Decide, FoldStep, From, To, Open, Waiting, Story, IInv, Verbs
    <3> QED
      BY <2>5, <3>1, <3>2 DEF Decide, Goto, control, clients, lab, IInv, StoryOK, WakingOK,
         AbortOK, Verbs, Waiting, Approved, Declined, Story
  <2>6. CASE Gate
    <3>1. Approved
      BY <2>6 DEF Gate, Refused, Goto, IInv, StoryOK
    <3>2. CASE Refused
      <4>1. clock > expires /\ jstatus' = "expired"
        BY <3>1, <3>2 DEF Refused, Admitted, FoldStep, From, To, Open, Approved, Story, IInv
      <4> QED
        BY <3>1, <3>2, <4>1 DEF Refused, Goto, control, clients, lab, IInv, StoryOK, WakingOK,
           AbortOK, Settled, Approved, Story
    <3>3. CASE ~Refused
      <4>1. Goto("gate", "execute", phase) /\ UNCHANGED <<expires, deadline, shown, ran>>
        BY <2>6, <3>3 DEF Gate
      <4>2. jstatus' = "executing"
        BY <2>6, <3>1, <3>3 DEF Gate, FoldStep, From, To, Approved, Story
      <4> QED
        BY <3>1, <4>1, <4>2 DEF Goto, control, clients, IInv, StoryOK, WakingOK, AbortOK,
           Executing, Approved, Story
    <3> QED
      BY <3>2, <3>3
  <2>7. CASE Execute
    <3>1. CASE Raise("execute")
      BY <3>1, Moves DEF Raise
    <3> QED
      BY <2>7, <3>1 DEF Execute, Goto, control, clients, action, IInv, StoryOK, WakingOK,
         AbortOK, Executing, Story
  <2>8. CASE Record
    <3>1. Executing /\ ran = 1
      BY <2>8 DEF Record, Goto, IInv, StoryOK
    <3>2. PICK ok \in BOOLEAN :
            /\ jstatus' = FoldStep(jstatus, "execute_result", ok)
            /\ shown' = IF ok THEN "executed" ELSE "refused"
      BY <2>8 DEF Record
    <3>3. jstatus' = IF ok THEN "done" ELSE "failed"
      BY <3>1, <3>2 DEF FoldStep, From, To, Executing, Story
    <3> QED
      BY <2>8, <3>1, <3>2, <3>3 DEF Record, Goto, control, clients, lab, IInv, StoryOK,
         WakingOK, AbortOK, Settled, Executing, Story
  <2>9. CASE Recover
    <3>1. CASE \/ Proceed("recover", "finish", phase)
               \/ NoticeAbort("recover") \/ Raise("recover")
      BY <3>1, Moves DEF Proceed, NoticeAbort, Raise
    <3> QED
      BY <2>9, <3>1 DEF Recover, Goto, control, clients, lab, action, IInv, StoryOK,
         WakingOK, AbortOK, Settled, Story
  <2> QED
    BY <1>1, <2>1, <2>2, <2>3, <2>4, <2>5, <2>6, <2>7, <2>8, <2>9 DEF ThreadStep
<1>2. CASE \E c \in Clients : \E verb \in Verbs : Request(c, verb)
  BY <1>2 DEF Request, run, control, action, lab, history, IInv, StoryOK, WakingOK, AbortOK,
     Unproposed, Waiting, Approved, Executing, Settled, Declined, Story
<1>3. CASE \E c \in Clients : ClientStep(c)
  <2>1. PICK c \in Clients : SetDecision(c) \/ Signal(c)
    BY <1>3 DEF ClientStep
  <2>2. CASE SetDecision(c)
    BY <2>2 DEF SetDecision, run, action, lab, history, IInv, StoryOK, WakingOK, AbortOK, Verbs,
       Unproposed, Waiting, Approved, Executing, Settled, Declined, Story
  <2>3. CASE Signal(c)
    BY <2>3 DEF Signal, run, action, lab, history, IInv, StoryOK, WakingOK, AbortOK,
       Unproposed, Waiting, Approved, Executing, Settled, Declined, Story
  <2> QED
    BY <2>1, <2>2, <2>3
<1>4. CASE Abort
  BY <1>4 DEF Abort, run, action, lab, clients, IInv, StoryOK, WakingOK, AbortOK,
     Unproposed, Waiting, Approved, Executing, Settled, Declined, Story
<1>5. CASE Tick
  BY <1>5 DEF Tick, run, control, action, lab, clients, history, IInv, StoryOK, WakingOK,
     AbortOK, Unproposed, Waiting, Approved, Executing, Settled, Declined, Story
<1>6. CASE UNCHANGED vars
  BY <1>6 DEF vars, run, control, action, lab, clients, history, IInv, StoryOK, WakingOK,
     AbortOK, Unproposed, Waiting, Approved, Executing, Settled, Declined, Story
<1> QED
  BY <1>1, <1>2, <1>3, <1>4, <1>5, <1>6 DEF RunNext
-----------------------------------------------------------------------------
(* The journal, the dashboard and the operations of a run tell one story, and *)
(* it is not shown as expired, nor refused for its TTL, before its time        *)
(* (machine.py:308-350).                                                       *)
THEOREM ToldAsItWas == Spec => []RunIsToldAsItWas
<1>1. IInv => RunIsToldAsItWas
  BY StoryIsTrue
<1> QED
  BY <1>1, InitOK, StepOK, PTL DEF Spec

(* An abort given before the decision was taken prevents the operation        *)
(* (machine.py:317).                                                           *)
THEOREM EarlyAbortPrevents == Spec => []EarlyAbortPreventsExecution
<1>1. IInv => EarlyAbortPreventsExecution
  BY StoryIsTrue
<1> QED
  BY <1>1, InitOK, StepOK, PTL DEF Spec
-----------------------------------------------------------------------------
(* The look at the registry and the start are under one lock: between them  *)
(* no other starter can take the slot, and only an end can change it.       *)
LockOK ==
  /\ spc \in [Starters -> {"idle", "waiting", "checking", "starting"}]
  /\ \A s \in Starters : spc[s] \in {"checking", "starting"} => lock = s
  /\ \A s \in Starters : spc[s] = "starting" => ~Active

SlotOK == replaying \in Nat /\ SingleFlight

(* The sweep at the start and the one at the end leave nothing behind. *)
SweptOK ==
  /\ ~dirty
  /\ pc = "baseline" => fault = {}
  /\ FaultIsOwned
  /\ failures \in Nat /\ runs \in Nat /\ deaths \in Nat
  /\ deaths = 0 /\ failures = 0 /\ runs > 0 /\ pc = "close" => fault = {}

SlotInv == LockOK /\ SlotOK
-----------------------------------------------------------------------------
LEMMA SlotInit == LabInit => SlotInv
BY DEF LabInit, SlotInv, LockOK, SlotOK, SingleFlight, Active

(* A thread that has exited stays so: the run itself never becomes active.  *)
LEMMA ExitedStays == pc = "exited" /\ RunNext => pc' = "exited"
<1> SUFFICES ASSUME pc = "exited", RunNext
             PROVE  pc' = "exited"
  OBVIOUS
<1>1. ~ThreadStep
  BY DEF ThreadStep, Preflight, Boot, Ingest, Sweep, Baseline, Inject, Soak, Investigate,
     Propose, Enter, Wake, CheckAbort, Decide, Render, Gate, Refused, Execute, Record,
     Recover, Finish, Failed, Cancelled, Cleanup, CloseBus, Proceed, Raise, NoticeAbort, Goto
<1> QED
  BY <1>1 DEF RunNext, Request, ClientStep, SetDecision, Signal, Abort, Tick, run

LEMMA SlotStep == SlotInv /\ [LabNext]_labVars => SlotInv'
<1> SUFFICES ASSUME SlotInv, [LabNext]_labVars
             PROVE  SlotInv'
  OBVIOUS
<1> USE DEF SlotInv, LockOK, SlotOK, SingleFlight, Active
<1>1. CASE RunNext /\ UNCHANGED registry
  BY <1>1, ExitedStays DEF registry
<1>2. CASE \E s \in Starters : Call(s) \/ StarterStep(s)
  <2>1. PICK s \in Starters : Call(s) \/ StarterStep(s)
    BY <1>2
  <2>2. CASE Call(s)
    BY <2>2 DEF Call, Starter, vars, run
  <2>3. CASE Acquire(s)
    BY <2>3, FreeAssumption DEF Acquire, Starter, vars, run
  <2>4. CASE CheckActive(s)
    BY <2>4 DEF CheckActive, Starter, vars, run
  <2>5. CASE StartFails(s)
    BY <2>5 DEF StartFails, Starter, vars, run
  <2>6. CASE StartReplay(s)
    <3>1. lock = s /\ ~Active /\ ~overlap /\ replaying = 0 /\ pc = "exited"
      BY <2>6 DEF StartReplay, Starter
    <3>2. \A u \in Starters : u # s => spc[u] \notin {"checking", "starting"}
      BY <3>1
    <3>3. spc' = [spc EXCEPT ![s] = "idle"] /\ UNCHANGED pc
      BY <2>6 DEF StartReplay, Starter, vars, run
    <3>4. replaying' = 1
      BY <2>6, <3>1 DEF StartReplay
    <3>5. ~overlap'
      BY <2>6, <3>1, Zenon DEF StartReplay
    <3>6. LockOK'
      BY <3>2, <3>3
    <3> QED
      BY <3>1, <3>3, <3>4, <3>5, <3>6
  <2>7. CASE \E t \in Targets : StartLive(s, t)
    BY <2>7 DEF StartLive, Starter, lab
  <2> QED
    BY <2>1, <2>2, <2>3, <2>4, <2>5, <2>6, <2>7 DEF StarterStep
<1>3. CASE ReplayEnds
  BY <1>3 DEF ReplayEnds, vars, run
<1>4. CASE \E t \in Targets : ClearFault(t)
  BY <1>4 DEF ClearFault, run
<1>5. CASE Death
  BY <1>5 DEF Death
<1>6. CASE UNCHANGED labVars
  BY <1>6 DEF labVars, registry, vars, run
<1> QED
  BY <1>1, <1>2, <1>3, <1>4, <1>5, <1>6 DEF LabNext
-----------------------------------------------------------------------------
LEMMA SweptInit == LabInit => SweptOK
BY DEF LabInit, SweptOK, FaultIsOwned

LEMMA SweptStep == SweepsAll /\ SweptOK /\ [LabNext]_labVars => SweptOK'
<1> SUFFICES ASSUME SweepsAll, SweptOK, [LabNext]_labVars
             PROVE  SweptOK'
  OBVIOUS
<1> USE DEF SweptOK, FaultIsOwned
<1>1. CASE RunNext /\ UNCHANGED registry
  <2>1. CASE ThreadStep
    <3>1. CASE Sweep \/ Cleanup
      BY <1>1, <3>1 DEF Sweep, Cleanup, ClearWorks, ClearFails, Swept, Goto, registry
    <3>2. CASE Baseline
      <4>1. fault = {} /\ Goto("baseline", pc', phase') /\ pc' \in {"cancelled", "inject"}
        BY <3>2 DEF Baseline, NoticeAbort, Goto
      <4>2. UNCHANGED <<fault, failures>>
        BY <3>2 DEF Baseline, NoticeAbort, Quiet, lab
      <4>3. ~dirty'
        BY <3>2, <4>1, Zenon DEF Baseline, NoticeAbort, Quiet
      <4> QED
        BY <1>1, <4>1, <4>2, <4>3 DEF registry, Goto
    <3>3. CASE Inject \/ Execute
      <4>1. pc' \in {"soak", "failed", "record"} /\ UNCHANGED <<failures, dirty>>
        BY <3>3 DEF Inject, Execute, Raise, Goto, Quiet, lab
      <4> QED
        BY <1>1, <4>1 DEF registry
    <3>4. CASE Preflight \/ Boot \/ Ingest \/ Soak \/ Investigate \/ Wake \/ CheckAbort
                \/ Render \/ Finish \/ Failed \/ Cancelled \/ CloseBus
      BY <1>1, <3>4 DEF Preflight, Boot, Ingest, Soak, Investigate, Wake, CheckAbort, Render,
         Finish, Failed, Cancelled, CloseBus, Proceed, Raise, NoticeAbort, Goto, Quiet, lab,
         registry
    <3>5. CASE Propose \/ Enter \/ Decide \/ Gate \/ Record \/ Recover
      <4>1. pc' \notin {"baseline", "close", "exited"} /\ UNCHANGED <<lab, dirty>>
        <5>1. CASE Propose \/ Enter \/ Decide
          BY <5>1 DEF Propose, Enter, Decide, Raise, Goto, Quiet
        <5>2. CASE Gate \/ Record \/ Recover
          BY <5>2 DEF Gate, Refused, Record, Recover, Proceed, Raise, NoticeAbort, Goto, Quiet
        <5> QED
          BY <3>5, <5>1, <5>2
      <4> QED
        BY <1>1, <4>1 DEF registry, lab
    <3> QED
      BY <2>1, <3>1, <3>2, <3>3, <3>4, <3>5 DEF ThreadStep
  <2> QED
    BY <1>1, <2>1 DEF RunNext, Request, ClientStep, SetDecision, Signal, Abort, Tick, run,
       lab, history, registry
<1>2. CASE \E s \in Starters : Call(s) \/ StarterStep(s)
  BY <1>2 DEF Call, StarterStep, Acquire, CheckActive, StartFails, StartReplay, StartLive,
     vars, run, lab, history
<1>3. CASE ReplayEnds
  BY <1>3 DEF ReplayEnds, vars, run, lab, history
<1>4. CASE \E t \in Targets : ClearFault(t)
  BY <1>4 DEF ClearFault, run, history
<1>5. CASE Death
  BY <1>5 DEF Death, lab, history
<1>6. CASE UNCHANGED labVars
  BY <1>6 DEF labVars, registry, vars, run, lab, history
<1> QED
  BY <1>1, <1>2, <1>3, <1>4, <1>5, <1>6 DEF LabNext
-----------------------------------------------------------------------------
(* One run or replay at a time holds the lab, whatever requests to start one *)
(* arrive together, whenever the process dies (router.py:91-92, 114-135).    *)
THEOREM OneRunAtATime == LabSpec => []SingleFlight
<1>1. SlotInv => SingleFlight
  BY DEF SlotInv, SlotOK
<1> QED
  BY <1>1, SlotInit, SlotStep, PTL DEF LabSpec

(* Where the sweep resets every flag, no baseline window contains a fault of *)
(* an earlier run, even of one whose process died (machine.py:183).          *)
THEOREM BaselinesAreClean == SweepsAll /\ LabSpec => []BaselineClean
<1>1. SweptOK => BaselineClean
  BY DEF SweptOK, BaselineClean
<1>2. (SweepsAll /\ LabSpec) => []SweptOK
  <2>1. CASE SweepsAll
    <3>1. SweptOK /\ [LabNext]_labVars => SweptOK'
      BY <2>1, SweptStep
    <3> QED
      BY <3>1, SweptInit, PTL DEF LabSpec
  <2> QED
    BY <2>1
<1> QED
  BY <1>1, <1>2, PTL

(* Where the sweep resets every flag, a fault that neither a death nor a      *)
(* failed clean-up left behind is of a run that is alive (machine.py:219-228). *)
THEOREM FaultsAreOwned == SweepsAll /\ LabSpec => []FaultIsOwned
<1>1. SweptOK => FaultIsOwned
  BY DEF SweptOK
<1>2. CASE SweepsAll
  <2>1. SweptOK /\ [LabNext]_labVars => SweptOK'
    BY <1>2, SweptStep
  <2> QED
    BY <1>1, <2>1, SweptInit, PTL DEF LabSpec
<1> QED
  BY <1>2

(* The story of a run stays true with other runs, replays and a death of the *)
(* process before it, after it or in the middle of it (machine.py:308-350).  *)
THEOREM EveryRunIsToldAsItWas ==
  LabSpec => [](RunIsToldAsItWas /\ EarlyAbortPreventsExecution)
<1>1. LabInit => IInv
  BY DEF LabInit, IInv, KindsOK, StoryOK, WakingOK, AbortOK, Points, Verbs,
     Undecided, Unposted, Ended, Unproposed, Story
<1>2. IInv /\ [LabNext]_labVars => IInv'
  <2> SUFFICES ASSUME IInv, [LabNext]_labVars
               PROVE  IInv'
    OBVIOUS
  <2>1. CASE [RunNext]_vars
    BY <2>1, StepOK
  <2>2. CASE \E s \in Starters, t \in Targets : StartLive(s, t)
    BY <2>2 DEF StartLive, IInv, KindsOK, StoryOK, WakingOK, AbortOK, Points, Verbs,
       Undecided, Unposted, Ended, Unproposed, Story
  <2>3. CASE \E t \in Targets : ClearFault(t)
    BY <2>3 DEF ClearFault, run, control, action, clients, history, IInv, KindsOK, StoryOK,
       WakingOK, AbortOK, Unproposed, Waiting, Approved, Executing, Settled, Declined, Story
  <2>4. CASE Death
    BY <2>4 DEF Death, control, action, history, IInv, KindsOK, StoryOK, WakingOK, AbortOK,
       Points, Undecided, Unposted, Ended, Unproposed, Waiting, Approved, Executing, Settled,
       Declined, Story
  <2> QED
    BY <2>1, <2>2, <2>3, <2>4 DEF LabNext, Call, StarterStep, Acquire, CheckActive,
       StartFails, StartReplay, ReplayEnds, labVars
<1>3. IInv => RunIsToldAsItWas /\ EarlyAbortPreventsExecution
  BY StoryIsTrue
<1> QED
  BY <1>1, <1>2, <1>3, PTL DEF LabSpec
-----------------------------------------------------------------------------
(* That a recovery is told when there is one rests on the age of what the    *)
(* cache gives again: a high reading is from before the service healed, and  *)
(* by the last poll such a reading is too old to be given.                   *)
CacheIsOld ==
  /\ cachedAt <= time
  /\ gaps = 0 => cached # "none"
  /\ cached = "low" => at \notin {"before", "operate"} /\ effective /\ time >= healsAt
  /\ cached = "high" /\ effective /\ at \notin {"before", "operate"} =>
       cachedAt < healsAt \/ cachedAt <= opAt

(* When the thread is where.                                                *)
SleepsAreKept ==
  effective =>
    /\ at \notin {"before", "operate"} => opAt <= healsAt /\ healsAt <= opAt + HealLag
    /\ at = "settle" => wake = opAt + Settle
    /\ at = "recover" => time >= opAt + Settle + polled * PollEvery
    /\ at = "poll" => wake >= opAt + Settle + polled * PollEvery

(* The readings since the operation, and how late the last of them can be   *)
(* when it still was high.                                                   *)
Missed(n) == Settle + n * PollEvery < CacheTTL + HealLag

ReadingsTell ==
  /\ at \in {"before", "operate"} => ~seenLow /\ polled = 0
  /\ at = "settle" => ~seenLow /\ polled = 0
  /\ at \in {"recover", "end"} /\ effective /\ gaps = 0 /\ ~seenLow => Missed(polled)
  /\ at = "end" /\ ~seenLow => polled = Polls

HealthInv == HealthTypeOK /\ CacheIsOld /\ SleepsAreKept /\ ReadingsTell /\ RecoveryIsReal

LEMMA HealthStarts == HealthInit => HealthInv
<1> SUFFICES ASSUME HealthInit PROVE HealthInv
  OBVIOUS
<1>1. HealthTypeOK
  <2>1. delays \in 0..MaxDelays /\ gaps \in 0..MaxGaps /\ polled \in 0..Polls
    BY HealthBounds DEF HealthInit
  <2>2. seenLow \in BOOLEAN /\ effective \in BOOLEAN
    BY DEF HealthInit
  <2> QED BY <2>1, <2>2 DEF HealthInit, HealthTypeOK, Readings, Unasked
<1>2. CacheIsOld
  BY DEF HealthInit, CacheIsOld, Unasked
<1>3. SleepsAreKept /\ ReadingsTell /\ RecoveryIsReal
  BY DEF HealthInit, SleepsAreKept, ReadingsTell, RecoveryIsReal
<1> QED BY <1>1, <1>2, <1>3 DEF HealthInv

(* What a query leaves in the cache, and what it gives.                     *)
LEMMA QueryGives ==
  ASSUME HealthInv, NEW reading \in Readings, Query(reading)
  PROVE  /\ gaps' \in 0..MaxGaps /\ (gaps' = 0 => gaps = 0 /\ reading # "none")
         /\ cached' = reading /\ cachedAt' \in Nat /\ cachedAt' <= time
         /\ \/ Fresh /\ UNCHANGED <<cached, cachedAt>>
            \/ cachedAt' = time /\ reading \in {World, "none"}
<1> USE HealthBounds DEF HealthInv, HealthTypeOK, CacheIsOld, Readings, Unasked
<1>1. CASE Fresh
  BY <1>1 DEF Query, Fresh
<1>2. CASE ~Fresh
  <2>1. /\ \/ reading = World /\ UNCHANGED gaps
           \/ reading = "none" /\ gaps < MaxGaps /\ gaps' = gaps + 1
        /\ cached' = reading /\ cachedAt' = time
    BY <1>2 DEF Query
  <2>2. World # "none"
    BY DEF World
  <2> QED BY <2>1, <2>2
<1> QED BY <1>1, <1>2

(* A query after the operation: what is low is so in the world, and what is *)
(* high is early.                                                            *)
LEMMA LateQuery ==
  ASSUME HealthInv, NEW reading \in Readings, Query(reading), at \in {"settle", "poll"}
  PROVE  /\ reading = "low" => effective /\ time >= healsAt
         /\ reading = "high" /\ effective => cachedAt' < healsAt \/ cachedAt' <= opAt
         /\ reading = "high" /\ effective => time < opAt + HealLag + CacheTTL
  <1>1. CASE Fresh /\ UNCHANGED <<cached, cachedAt>>
    BY <1>1, QueryGives, HealthBounds
    DEF HealthInv, HealthTypeOK, CacheIsOld, SleepsAreKept, Fresh
  <1>2. CASE cachedAt' = time /\ reading \in {World, "none"}
    BY <1>2, HealthBounds DEF HealthInv, HealthTypeOK, SleepsAreKept, World
  <1> QED BY <1>1, <1>2, QueryGives

LEMMA HealthStep ==
  ASSUME HealthInv, [HealthNext]_health
  PROVE  HealthInv'
<1> USE HealthBounds DEF HealthInv, HealthTypeOK
<1>1. CASE Before
  <2>1. PICK reading \in Readings : Query(reading) /\ before' = reading
    BY <1>1 DEF Before
  <2>2. /\ at = "before" /\ at' = "operate"
        /\ UNCHANGED <<time, delays, wake, polled, after, seenLow, effective, healsAt, opAt, sampledAt>>
    BY <1>1 DEF Before
  <2>3. cached' # "low"
    BY <2>1, <2>2, QueryGives DEF CacheIsOld, World
  <2> QED BY <2>1, <2>2, <2>3, QueryGives DEF CacheIsOld, SleepsAreKept, ReadingsTell, RecoveryIsReal
<1>2. CASE Operate
  <2>1. PICK lag \in 0..HealLag : healsAt' = time + lag
    BY <1>2 DEF Operate
  <2>2. /\ at = "operate" /\ at' = "settle" /\ opAt' = time /\ wake' = time + Settle
        /\ UNCHANGED <<time, delays, gaps, cached, cachedAt, polled, before, after,
                       seenLow, effective, sampledAt>>
    BY <1>2 DEF Operate
  <2> QED BY <2>1, <2>2 DEF CacheIsOld, SleepsAreKept, ReadingsTell, RecoveryIsReal
<1>3. CASE OperateFails
  BY <1>3 DEF OperateFails, CacheIsOld, SleepsAreKept, ReadingsTell, RecoveryIsReal
<1>4. CASE After
  <2>1. PICK reading \in Readings : Query(reading) /\ after' = reading /\ seenLow' = IsRecovered(reading)
    BY <1>4 DEF After
  <2>2. /\ at = "settle" /\ time >= wake /\ at' = "recover" /\ sampledAt' = cachedAt'
        /\ UNCHANGED <<time, delays, wake, polled, before, effective, healsAt, opAt>>
    BY <1>4 DEF After
  <2>3. effective => time >= opAt + Settle + polled * PollEvery
    BY <2>2 DEF SleepsAreKept, ReadingsTell
  <2>4. SleepsAreKept'
    BY <2>2, <2>3 DEF SleepsAreKept
  <2>5. CacheIsOld' /\ RecoveryIsReal'
    BY <2>1, <2>2, QueryGives, LateQuery DEF CacheIsOld, RecoveryIsReal, IsRecovered, Readings
  <2>6. reading = "high" /\ effective => Missed(polled)
    BY <2>1, <2>2, <2>3, LateQuery DEF Missed
  <2>7. ReadingsTell'
    BY <2>1, <2>2, <2>6, QueryGives DEF ReadingsTell, IsRecovered, Readings, Missed
  <2> QED BY <2>1, <2>2, <2>4, <2>5, <2>7, QueryGives DEF IsRecovered
<1>5. CASE RecoveryLoop
  <2>1. (polled + 1) * PollEvery = polled * PollEvery + PollEvery
    OBVIOUS
  <2>2. CASE seenLow \/ polled = Polls
    BY <1>5, <2>2 DEF RecoveryLoop, CacheIsOld, SleepsAreKept, ReadingsTell, RecoveryIsReal, Missed
  <2>3. CASE ~(seenLow \/ polled = Polls)
    BY <1>5, <2>1, <2>3 DEF RecoveryLoop, CacheIsOld, SleepsAreKept, ReadingsTell, RecoveryIsReal
  <2> QED BY <2>2, <2>3
<1>6. CASE Poll
  <2>1. PICK reading \in Readings : Query(reading) /\ seenLow' = IsRecovered(reading)
    BY <1>6 DEF Poll
  <2>2. /\ at = "poll" /\ time >= wake /\ at' = "recover"
        /\ UNCHANGED <<time, delays, wake, polled, before, after, effective, healsAt, opAt, sampledAt>>
    BY <1>6 DEF Poll
  <2>3. effective => time >= opAt + Settle + polled * PollEvery
    BY <2>2 DEF SleepsAreKept
  <2>4. SleepsAreKept'
    BY <2>2, <2>3 DEF SleepsAreKept
  <2>5. CacheIsOld' /\ RecoveryIsReal'
    BY <2>1, <2>2, QueryGives, LateQuery DEF CacheIsOld, RecoveryIsReal, IsRecovered, Readings
  <2>6. reading = "high" /\ effective => Missed(polled)
    BY <2>1, <2>2, <2>3, LateQuery DEF Missed
  <2>7. ReadingsTell'
    BY <2>1, <2>2, <2>6, QueryGives DEF ReadingsTell, IsRecovered, Readings, Missed
  <2> QED BY <2>1, <2>2, <2>4, <2>5, <2>7, QueryGives DEF IsRecovered
<1>7. CASE TimePasses
  <2>1. /\ time' = time + 1
        /\ UNCHANGED <<gaps, cached, cachedAt, at, wake, polled, before, after, seenLow,
                       effective, healsAt, opAt, sampledAt>>
    BY <1>7 DEF TimePasses
  <2>2. delays' \in 0..MaxDelays
    BY <1>7 DEF TimePasses
  <2> QED BY <2>1, <2>2 DEF CacheIsOld, SleepsAreKept, ReadingsTell, RecoveryIsReal, Missed
<1>8. CASE UNCHANGED health
  BY <1>8 DEF health, CacheIsOld, SleepsAreKept, ReadingsTell, RecoveryIsReal, Missed
<1> QED
  BY <1>1, <1>2, <1>3, <1>4, <1>5, <1>6, <1>7, <1>8 DEF HealthNext

(* RecoveryIsTold: a run reports a recovery exactly when there is one. That  *)
(* none is reported without one holds of any cache and any sleeps; that one  *)
(* within HealLag is noticed, when the settling and the polls together       *)
(* outlast the cache's TTL and the healing, as the code's 60 s and 12 polls  *)
(* of 15 s outlast its 120 s (machine.py:34-35, 346-369, client.py:62).      *)
THEOREM RecoveryIsReported ==
  ASSUME CacheTTL + HealLag <= Settle + Polls * PollEvery
  PROVE  HealthSpec => []RecoveryIsTold
<1>1. HealthInv => RecoveryIsTold
  BY HealthBounds DEF HealthInv, HealthTypeOK, ReadingsTell, Missed, RecoveryIsTold, RecoveryIsNoticed
<1>2. HealthInv /\ [HealthNext]_health => HealthInv'
  BY HealthStep
<1> QED BY HealthStarts, <1>1, <1>2, PTL DEF HealthSpec

(* RecoveryIsReal, the half that rests on no number: no recovery is reported *)
(* that did not take place (machine.py:346-369).                             *)
THEOREM RecoveryIsNeverInvented == HealthSpec => []RecoveryIsReal
<1>1. HealthInv /\ [HealthNext]_health => HealthInv'
  BY HealthStep
<1>2. HealthInv => RecoveryIsReal
  BY DEF HealthInv
<1> QED BY HealthStarts, <1>1, <1>2, PTL DEF HealthSpec
=============================================================================
