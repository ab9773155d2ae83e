------------------------------- MODULE LiveRun -------------------------------
(***************************************************************************)
(* One live run of the dashboard: the thread of LiveRun._run, the router's *)
(* request threads that approve, deny or abort it, and the lab it injures  *)
(* and heals (sentinel/api/livelab/machine.py, adapters.py, the run        *)
(* endpoints of router.py).                                                *)
(*                                                                         *)
(* The thread's steps are its accesses to what other threads share: the    *)
(* phase, the abort and decision events, the decision itself, the lab. The *)
(* run keeps its own action journal, written by this thread alone, so      *)
(* execute_approved is its checks, the operation and its result.           *)
(***************************************************************************)
EXTENDS Naturals, ApprovalJournal

CONSTANTS Targets,      \* services a fault can be injected into
          SweepsAll,    \* TRUE: clear() resets every flag (otel_demo);
                        \* FALSE: it sweeps the run's own target (sock_shop)
          Clients,      \* router threads serving approve and deny
          TTL,          \* approval_ttl_s
          RecoveryPolls,\* _RECOVERY_POLLS
          MaxTime,      \* bound on the clock
          MaxRequests,  \* bound on approve and deny requests
          MaxFailures   \* bound on failed clean-ups

ASSUME SweepsAllAssumption == SweepsAll \in BOOLEAN
ASSUME LiveRunBounds == /\ TTL \in Nat
                        /\ RecoveryPolls \in Nat
                        /\ MaxTime \in Nat
                        /\ MaxRequests \in Nat
                        /\ MaxFailures \in Nat

VARIABLES
  pc, phase, target,            \* the run thread, self._phase, the scenario
  abort, ready, decision,       \* _abort, _decision_ready, _decision
  jstatus, expires, deadline,   \* the proposed action: fold, TTL, wait limit
  shown,                        \* self._action: what the dashboard shows
  polls, recovered,             \* the recovery loop
  fault,                        \* lab: the targets with an active fault
  failures,                     \* lab: clean-ups that failed so far
  clock,
  cpc, cverb, requests,         \* router threads inside approve() or deny()
  \* History, read by the properties only:
  ran,                          \* operations performed
  abortedEarly,                 \* abort() came before the decision was taken
  dirty                         \* a fault was active during the baseline

run     == <<pc, phase, target, polls, recovered>>
control == <<abort, ready, decision>>
action  == <<jstatus, expires, deadline, shown>>
lab     == <<fault, failures>>
clients == <<cpc, cverb, requests>>
history == <<ran, abortedEarly, dirty>>
vars == <<run, control, action, lab, clock, clients, history>>

Verbs  == {"approved", "denied"}
Phases == {"preflight", "booting", "baseline", "injecting", "soak",
           "investigating", "report", "awaiting_approval", "executing",
           "recovering", "done", "failed", "cancelled"}
Undecided == {"preflight", "boot", "ingest", "sweep", "baseline", "inject",
              "soak", "investigate", "propose", "enter", "await"}
Points == Undecided \cup {"woken", "decide", "render", "gate", "execute", "record",
                          "recover", "finish", "failed", "cancelled",
                          "cleanup", "close", "exited"}

TypeOK ==
  /\ pc \in Points /\ phase \in Phases /\ target \in Targets
  /\ polls \in 0..RecoveryPolls /\ recovered \in BOOLEAN
  /\ abort \in BOOLEAN /\ ready \in BOOLEAN /\ decision \in Verbs \cup {"none"}
  /\ jstatus \in Statuses /\ expires \in Nat /\ deadline \in Nat
  /\ shown \in {"none", "posted", "expired", "denied", "approved", "executed", "refused"}
  /\ fault \subseteq Targets /\ failures \in 0..MaxFailures
  /\ clock \in 0..MaxTime
  /\ cpc \in [Clients -> {"idle", "set", "signal"}]
  /\ cverb \in [Clients -> Verbs]
  /\ requests \in 0..MaxRequests
  /\ ran \in Nat
  /\ abortedEarly \in BOOLEAN /\ dirty \in BOOLEAN

(* A thread just started on a scenario, in a lab that may bear old faults.  *)
FreshRun(t) ==
  /\ pc = "preflight" /\ phase = "preflight" /\ target = t
  /\ polls = 0 /\ recovered = FALSE
  /\ abort = FALSE /\ ready = FALSE /\ decision = "none"
  /\ jstatus = "absent" /\ expires = 0 /\ deadline = 0 /\ shown = "none"
  /\ clock = 0
  /\ ran = 0 /\ abortedEarly = FALSE /\ dirty = FALSE

Init ==
  /\ \E t \in Targets : FreshRun(t) /\ fault \in {{}, {t}}
  /\ failures = 0
  /\ cpc = [c \in Clients |-> "idle"]
  /\ cverb = [c \in Clients |-> "approved"]
  /\ requests = 0
-----------------------------------------------------------------------------
(* The thread goes from one point to another, showing a phase as it goes.   *)
Goto(from, to, shownPhase) ==
  /\ pc = from
  /\ pc' = to
  /\ phase' = shownPhase
  /\ UNCHANGED <<target, control, clock, clients, abortedEarly>>

Quiet == UNCHANGED <<polls, recovered, action, lab, ran, dirty>>

(* A raised exception ends the run as failed, a noticed abort as cancelled. *)
Raise(from)       == Goto(from, "failed", phase) /\ Quiet
NoticeAbort(from) == abort /\ Goto(from, "cancelled", phase) /\ Quiet
Proceed(from, to, shownPhase) == Goto(from, to, shownPhase) /\ Quiet

(* Slip for Swept: only the flag of the run's own scenario is reset. *)
SweptOwn(faults) == faults \ {target}

(* What clear() leaves of the faults when it works. *)
Swept(faults) == IF SweepsAll THEN {} ELSE faults \ {target}

(* clear(): it works, or fails. The flag client raises when it fails; the   *)
(* container sweep ignores docker's exit codes and returns as if it worked. *)
ClearWorks == fault' = Swept(fault) /\ UNCHANGED failures
ClearFails == failures < MaxFailures /\ failures' = failures + 1 /\ UNCHANGED fault

Preflight == Proceed("preflight", "boot", "booting") \/ Raise("preflight")

(* _boot: both polling loops look at the abort flag; each may run out.      *)
Boot   == \/ NoticeAbort("boot") \/ Raise("boot")
          \/ ~abort /\ Proceed("boot", "ingest", phase)
Ingest == \/ NoticeAbort("ingest") \/ Raise("ingest")
          \/ ~abort /\ Proceed("ingest", "sweep", phase)

(* The sweep before the baseline; only the flag client raises. *)
Sweep ==
  /\ \/ Goto("sweep", "baseline", "baseline") /\ (ClearWorks \/ (~SweepsAll /\ ClearFails))
     \/ Goto("sweep", "failed", phase) /\ SweepsAll /\ ClearFails
  /\ UNCHANGED <<polls, recovered, action, ran, dirty>>

Baseline ==
  \/ NoticeAbort("baseline")
  \/ /\ ~abort
     /\ Goto("baseline", "inject", "injecting")
     /\ dirty' = (fault # {})
     /\ UNCHANGED <<polls, recovered, action, lab, ran>>

(* inject() raises before or after it has done part of its work.            *)
Inject ==
  /\ \/ Goto("inject", "soak", "soak") /\ fault' = fault \cup {target}
     \/ Goto("inject", "failed", phase) /\ fault' \in {fault, fault \cup {target}}
  /\ UNCHANGED <<polls, recovered, action, failures, ran, dirty>>

Soak == \/ NoticeAbort("soak")
        \/ ~abort /\ Proceed("soak", "investigate", "investigating")

(* run_rca looks at no abort flag. *)
Investigate == Proceed("investigate", "propose", "report") \/ Raise("investigate")

(* Nothing but an operation of the catalog can be proposed. *)
Propose ==
  \/ Raise("propose")
  \/ /\ Goto("propose", "enter", phase)
     /\ jstatus' = FoldStep(FoldStep(jstatus, "proposed", TRUE), "posted", TRUE)
     /\ expires' = clock + TTL
     /\ shown' = "posted"
     /\ UNCHANGED <<polls, recovered, deadline, lab, ran, dirty>>

(* The wait's own limit is computed after the proposal's expiry.            *)
Enter ==
  /\ Goto("enter", "await", "awaiting_approval")
  /\ deadline' = clock + TTL
  /\ UNCHANGED <<polls, recovered, jstatus, expires, shown, lab, ran, dirty>>

(* Slip for Wake: a wait without its time limit. *)
WakeOnEvent == ready /\ Proceed("await", "woken", phase)

Wake == (ready \/ clock >= deadline) /\ Proceed("await", "woken", phase)

(* Slip for CheckAbort: the abort that woke the thread is not looked at. *)
CheckNothing == Proceed("woken", "decide", phase)

CheckAbort == \/ NoticeAbort("woken")
              \/ ~abort /\ Proceed("woken", "decide", phase)

(* The decision is read, journaled and shown. *)
Decide ==
  LET kind == IF decision = "none" THEN "expired" ELSE decision
  IN  /\ Goto("decide", IF kind = "approved" THEN "render" ELSE "finish", phase)
      /\ jstatus' = FoldStep(jstatus, kind, TRUE)
      /\ shown' = kind
      /\ UNCHANGED <<polls, recovered, expires, deadline, lab, ran, dirty>>

Render == Proceed("render", "gate", "executing")

(* execute_approved up to the operation: nothing is run unless the journal  *)
(* says approved, and past the TTL the approval is expired.                 *)
Admitted == jstatus = "approved" /\ clock <= expires

Refused ==
  /\ ~Admitted
  /\ Goto("gate", "recover", "recovering")
  /\ jstatus' = IF jstatus = "approved" THEN FoldStep(jstatus, "expired", TRUE)
                                        ELSE jstatus
  /\ shown' = "refused"
  /\ UNCHANGED <<polls, recovered, expires, deadline, lab, ran, dirty>>

Gate ==
  \/ Refused
  \/ /\ Admitted
     /\ Goto("gate", "execute", phase)
     /\ jstatus' = FoldStep(jstatus, "execute_started", TRUE)
     /\ UNCHANGED <<polls, recovered, expires, deadline, shown, lab, ran, dirty>>

(* The operation is performed; it may or may not remove the fault. The      *)
(* health readings around it raise when the backend is unreachable.         *)
Execute ==
  \/ /\ Goto("execute", "record", phase) \/ Goto("execute", "failed", phase)
     /\ ran' = ran + 1
     /\ fault' \in {fault, fault \ {target}}
     /\ UNCHANGED <<polls, recovered, action, failures, dirty>>
  \/ Raise("execute")

Record ==
  \E ok \in BOOLEAN, better \in BOOLEAN :
    /\ Goto("record", "recover", "recovering")
    /\ jstatus' = FoldStep(jstatus, "execute_result", ok)
    /\ shown' = IF ok THEN "executed" ELSE "refused"
    /\ recovered' = better
    /\ UNCHANGED <<polls, expires, deadline, lab, ran, dirty>>

Recover ==
  \/ (recovered \/ polls = RecoveryPolls) /\ Proceed("recover", "finish", phase)
  \/ ~recovered /\ polls < RecoveryPolls /\ NoticeAbort("recover")
  \/ /\ ~recovered /\ polls < RecoveryPolls /\ ~abort
     /\ \/ Raise("recover")
        \/ /\ Goto("recover", "recover", phase)
           /\ polls' = polls + 1
           /\ recovered' \in BOOLEAN
           /\ UNCHANGED <<action, lab, ran, dirty>>

Finish    == Proceed("finish", "cleanup", "done")
Failed    == Proceed("failed", "cleanup", "failed")
Cancelled == Proceed("cancelled", "cleanup", "cancelled")

(* Slip for Cleanup: the sweep is done on the normal path only. *)
CleanupWhenDone ==
  /\ Goto("cleanup", "close", phase)
  /\ IF phase = "done" THEN ClearWorks \/ ClearFails ELSE UNCHANGED lab
  /\ UNCHANGED <<polls, recovered, action, ran, dirty>>

(* The finally block: sweep, swallowing what it raises, then close the bus. *)
Cleanup ==
  /\ Goto("cleanup", "close", phase)
  /\ ClearWorks \/ ClearFails
  /\ UNCHANGED <<polls, recovered, action, ran, dirty>>

CloseBus == Proceed("close", "exited", phase)

ThreadStep ==
  \/ Preflight \/ Boot \/ Ingest \/ Sweep \/ Baseline \/ Inject \/ Soak
  \/ Investigate \/ Propose \/ Enter \/ Wake \/ CheckAbort \/ Decide
  \/ Render \/ Gate \/ Execute \/ Record \/ Recover
  \/ Finish \/ Failed \/ Cancelled \/ Cleanup \/ CloseBus
-----------------------------------------------------------------------------
(* Slip for Request: the event is set before the decision. *)
RequestSignalsFirst(c, verb) ==
  /\ cpc[c] = "idle"
  /\ requests < MaxRequests
  /\ phase = "awaiting_approval" /\ pc # "exited"
  /\ requests' = requests + 1
  /\ ready' = TRUE
  /\ cpc' = [cpc EXCEPT ![c] = "set"]
  /\ cverb' = [cverb EXCEPT ![c] = verb]
  /\ UNCHANGED <<run, abort, decision, action, lab, clock, history>>

(* approve() and deny(): a look at the phase, the decision, the event. Any  *)
(* other phase is answered with 409 and changes nothing.                    *)
Request(c, verb) ==
  /\ cpc[c] = "idle"
  /\ requests < MaxRequests
  /\ phase = "awaiting_approval" /\ pc # "exited"
  /\ requests' = requests + 1
  /\ cpc' = [cpc EXCEPT ![c] = "set"]
  /\ cverb' = [cverb EXCEPT ![c] = verb]
  /\ UNCHANGED <<run, control, action, lab, clock, history>>

SetDecision(c) ==
  /\ cpc[c] = "set"
  /\ decision' = cverb[c]
  /\ cpc' = [cpc EXCEPT ![c] = "signal"]
  /\ UNCHANGED <<run, abort, ready, action, lab, clock, cverb, requests, history>>

Signal(c) ==
  /\ cpc[c] = "signal"
  /\ ready' = TRUE
  /\ cpc' = [cpc EXCEPT ![c] = "idle"]
  /\ UNCHANGED <<run, abort, decision, action, lab, clock, cverb, requests, history>>

(* abort(): accepted in every phase. *)
Abort ==
  /\ ~abort /\ pc # "exited"
  /\ abort' = TRUE
  /\ ready' = TRUE
  /\ abortedEarly' = (pc \in Undecided)
  /\ UNCHANGED <<run, decision, action, lab, clock, clients, ran, dirty>>

(* Time is told apart only between the proposal and the gate; the bound     *)
(* leaves room for the deadline that Enter is about to compute.             *)
Tick ==
  /\ pc \in {"enter", "await", "woken", "decide", "render", "gate"}
  /\ clock + (IF pc = "enter" THEN TTL ELSE 0) < MaxTime
  /\ clock' = clock + 1
  /\ UNCHANGED <<run, control, action, lab, clients, history>>

ClientStep(c) == SetDecision(c) \/ Signal(c)

RunNext ==
  \/ ThreadStep
  \/ \E c \in Clients : \E verb \in Verbs : Request(c, verb)
  \/ \E c \in Clients : ClientStep(c)
  \/ Abort
  \/ Tick

Spec == Init /\ [][RunNext]_vars

(* The thread and the request threads are scheduled, and time passes.       *)
FairSpec == /\ Spec
            /\ WF_vars(ThreadStep)
            /\ \A c \in Clients : WF_vars(ClientStep(c))
            /\ WF_vars(Tick)
-----------------------------------------------------------------------------
(* The operation runs at most once and only after a human's approval         *)
(* (machine.py, _decide_and_execute), and the journal never calls an         *)
(* operation that was performed denied or expired.                           *)
JournalMatchesWorld ==
  /\ ran <= 1
  /\ ran = 1 => jstatus \in Consumed
  /\ jstatus \in {"done", "failed"} => ran = 1

(* What the dashboard is shown agrees with the journal whenever the run has  *)
(* exited (machine.py:318-345).                                              *)
ShownMatchesJournal ==
  pc = "exited" => /\ shown = "executed" <=> jstatus = "done"
                   /\ shown = "denied" <=> jstatus = "denied"
                   /\ shown = "expired" => jstatus = "expired"
                   /\ shown = "refused" => jstatus \in {"expired", "failed"}

(* A run times out only when its time is up: a decision whose event woke the *)
(* thread is there to be read (machine.py:115-116, 313-319), and the gate    *)
(* refuses a decision the machine has accepted for the TTL only.             *)
LateOnlyByTime ==
  /\ shown = "expired" => clock >= deadline
  /\ shown = "refused" /\ jstatus # "failed" => clock > expires

(* An abort given before the decision is taken prevents the operation        *)
(* (machine.py:317).                                                         *)
EarlyAbortPreventsExecution == abortedEarly => ran = 0

(* Every run ends by itself, with or without a decision. *)
RunEnds == <>(pc = "exited")

(* The journal, the dashboard and the lab tell the same story of a run       *)
(* (machine.py:308-350).                                                     *)
RunIsToldAsItWas == JournalMatchesWorld /\ ShownMatchesJournal /\ LateOnlyByTime
=============================================================================
