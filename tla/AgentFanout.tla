----------------------------- MODULE AgentFanout -----------------------------
(***************************************************************************)
(* The agent's loop (sentinel/agent/loop.py) with its hooks (hooks.py),    *)
(* run by the manager and, one thread each, by the investigators it fans   *)
(* out to (manager.py, investigator.py). A turn asks the model, with       *)
(* retries and a cap on the calls in flight, and then works through the    *)
(* tool uses of the answer one by one.                                     *)
(***************************************************************************)
EXTENDS Naturals, FiniteSets

CONSTANTS Manager, Services,    \* the agents: the manager, one per service
          Changes,              \* the known changes of the store
          None,
          Slots,                \* SENTINEL_API_CONCURRENCY
          MaxTries,             \* attempts of one call: 4
          ManagerIters, WorkerIters,   \* max_iters
          ManagerBudget, WorkerBudget, \* max_tool_calls
          OutputBudget,         \* output_budget, in tokens
          MaxTokens,            \* output of one turn at most
          MaxBatch              \* bound on the tool uses of one answer

ASSUME AgentAssumption ==
  /\ Manager \notin Services
  /\ None \notin Changes
  /\ Slots \in Nat \ {0}
  /\ MaxTries \in Nat \ {0}
  /\ {OutputBudget, MaxTokens, MaxBatch, ManagerBudget, WorkerBudget} \subseteq Nat
  /\ {ManagerIters, WorkerIters} \subseteq Nat \ {0}

Agents == {Manager} \cup Services
MaxIters(a) == IF a = Manager THEN ManagerIters ELSE WorkerIters
ToolBudget(a) == IF a = Manager THEN ManagerBudget ELSE WorkerBudget

VARIABLES
  agent,     \* per agent: the local state of its run_loop
  job,       \* per service: the job its investigator was spawned for
  findings,  \* how many findings were collected
  rejected   \* counters["rejected"]

vars == <<agent, job, findings, rejected>>
shared == <<job, findings, rejected>>

Stops == {"reported", "budget_exceeded", "max_iters", "end_turn"}

(* run_loop before its first turn, and an investigator that is not running. *)
Fresh == [pc |-> "call", iter |-> 1, tries |-> 0, uses |-> 0, done |-> FALSE,
          output |-> 0, calls |-> 0, terminal |-> None, stop |-> "max_iters"]
Idle == [Fresh EXCEPT !.pc = "idle"]

Init ==
  /\ agent = [a \in Agents |-> IF a = Manager THEN Fresh ELSE Idle]
  /\ job = [s \in Services |-> None]
  /\ findings = 0 /\ rejected = 0
-----------------------------------------------------------------------------
(* What a model submits. A finding says whether it names a service and     *)
(* claims the origin, and what it brings for that; a report names a place, *)
(* a culprit and the changes it rules out.                                 *)
FindingInputs == [service : BOOLEAN, origin : BOOLEAN, evidence : BOOLEAN,
                  fault_type : BOOLEAN, confidence : {"missing", "outside", "inside"}]
ReportInputs == [place : BOOLEAN, culprit : Changes \cup {None, "unknown"},
                 ruled_out : SUBSET Changes]
Inputs(a) == IF a = Manager THEN ReportInputs ELSE FindingInputs

(* None is no job, no finding and no report. *)
ASSUME NoneAssumption == None \notin {"service", "change"} \cup FindingInputs \cup ReportInputs

finding_issues(f) ==
  \/ ~f.service
  \/ f.origin /\ ~f.evidence
  \/ f.origin /\ ~f.fault_type

report_issues(r) ==
  \/ ~r.place
  \/ r.culprit = None /\ Changes # {}
  \/ r.culprit # None /\ r.culprit \notin Changes
  \/ r.culprit # None /\ r.culprit \in r.ruled_out

(* FindingValidator.subagent_stop, in the manager. *)
FindingRejected(f) ==
  \/ ~f.service
  \/ f.origin /\ ~(f.evidence /\ f.fault_type)
  \/ f.confidence # "inside"

(* ReportGate denies what has issues, but knows no verdict on a change; the *)
(* schema then refuses a confidence that is missing or out of range, or     *)
(* an empty service (or id).                                                *)
Gated(a, i) == IF a = Manager THEN report_issues(i)
               ELSE job[a] = "service" /\ finding_issues(i)
SchemaOK(a, i) == a = Manager \/ (i.service /\ i.confidence = "inside")

(* Slip for OverBudget: one call too many. *)
OverBudgetLate(a) == agent[a].calls > ToolBudget(a)

(* BudgetGuard; terminal tools are exempt. *)
OverBudget(a) == agent[a].calls >= ToolBudget(a)

InFlight == {a \in Agents : agent[a].pc = "flight"}
-----------------------------------------------------------------------------
(* create_message: past the limiter and into the semaphore. *)
Call(a) ==
  /\ agent[a].pc = "call"
  /\ Cardinality(InFlight) < Slots
  /\ agent' = [agent EXCEPT ![a].pc = "flight", ![a].tries = @ + 1]
  /\ UNCHANGED shared

(* A retryable error, before and at the last attempt. *)
CallFails(a) ==
  /\ agent[a].pc = "flight"
  /\ agent' = [agent EXCEPT ![a] =
       IF @.tries < MaxTries THEN [@ EXCEPT !.pc = "call"] ELSE [Idle EXCEPT !.pc = "raised"]]
  /\ UNCHANGED shared

(* An answer without tool uses ends the loop; whatever it cost is counted. *)
Answer(a, n) ==
  /\ agent[a].pc = "flight"
  /\ agent' = [agent EXCEPT ![a].pc = "stopped", ![a].stop = "end_turn",
                            ![a].output = @ + n]
  /\ UNCHANGED shared

AnswerWithTools(a, n) ==
  /\ agent[a].pc = "flight"
  /\ agent' = [agent EXCEPT ![a].pc = "tools", ![a].output = @ + n, ![a].tries = 0,
                            ![a].uses = 0, ![a].done = FALSE]
  /\ UNCHANGED shared

NextUse(a) == agent[a].pc = "tools" /\ agent[a].uses < MaxBatch

(* A use which a hook denies: a sealed resource, an exhausted budget. *)
Denied(a) ==
  /\ NextUse(a)
  /\ agent' = [agent EXCEPT ![a].uses = @ + 1]
  /\ UNCHANGED shared

(* A tool of the registry, whether it answers or fails. *)
Dispatch(a) ==
  /\ NextUse(a)
  /\ ~OverBudget(a)
  /\ agent' = [agent EXCEPT ![a].uses = @ + 1, ![a].calls = @ + 1]
  /\ UNCHANGED shared

(* Slip for Report: a refused report clears the mark of an accepted one. *)
ReportForgets(a, i) ==
  /\ NextUse(a)
  /\ agent' = [agent EXCEPT
       ![a].uses = @ + 1,
       ![a].terminal = IF Gated(a, i) \/ ~SchemaOK(a, i) THEN @ ELSE i,
       ![a].done = ~Gated(a, i) /\ SchemaOK(a, i)]
  /\ UNCHANGED shared

(* The terminal tool: denied by the gate, refused by the schema, or        *)
(* accepted, which later uses of the same answer can still replace.        *)
Report(a, i) ==
  /\ NextUse(a)
  /\ agent' = [agent EXCEPT
       ![a].uses = @ + 1,
       ![a].terminal = IF Gated(a, i) \/ ~SchemaOK(a, i) THEN @ ELSE i,
       ![a].done = IF Gated(a, i) \/ ~SchemaOK(a, i) THEN @ ELSE TRUE]
  /\ UNCHANGED shared
-----------------------------------------------------------------------------
(* investigate_service, investigate_parallel and investigate_change: the   *)
(* manager's thread waits for those it spawned.                            *)
FanOut(S, kind) ==
  /\ NextUse(Manager)
  /\ ~OverBudget(Manager)
  /\ S # {}
  /\ kind = "change" => Cardinality(S) = 1
  /\ agent' = [a \in Agents |-> IF a \in S THEN Fresh
                                ELSE IF a = Manager THEN [agent[a] EXCEPT !.pc = "join"]
                                ELSE agent[a]]
  /\ job' = [s \in Services |-> IF s \in S THEN kind ELSE job[s]]
  /\ UNCHANGED <<findings, rejected>>

(* The finding an investigator returns when its loop ended without one. *)
NoFinding == [service |-> TRUE, origin |-> FALSE, evidence |-> TRUE,
              fault_type |-> FALSE, confidence |-> "inside"]
Finding(s) == IF agent[s].terminal = None THEN NoFinding ELSE agent[s].terminal

(* _accumulate and, for a service, the validator's verdict and the append. *)
Collected(s) ==
  /\ agent[s].pc = "stopped"
  /\ agent' = [agent EXCEPT ![s] = [Idle EXCEPT !.pc = "back"]]
  /\ IF job[s] = "service"
     THEN /\ findings' = findings + 1
          /\ rejected' = IF FindingRejected(Finding(s)) THEN rejected + 1 ELSE rejected
     ELSE UNCHANGED <<findings, rejected>>
  /\ UNCHANGED job

Spawned == {s \in Services : job[s] # None}
Over(s) == agent[s].pc \in {"back", "raised"}

(* The tool's answer is there, and the manager takes up its batch again. *)
Rejoined ==
  /\ agent' = [a \in Agents |->
                 IF a = Manager
                 THEN [agent[a] EXCEPT !.pc = "tools", !.uses = @ + 1, !.calls = @ + 1]
                 ELSE IF Over(a) THEN Idle ELSE agent[a]]
  /\ job' = [s \in Services |-> IF Over(s) THEN None ELSE job[s]]
  /\ UNCHANGED <<findings, rejected>>

(* Slip for Join: the pool is left when the first failure is seen. *)
JoinAtFailure ==
  /\ agent[Manager].pc = "join"
  /\ (\A s \in Spawned : Over(s)) \/ (\E s \in Spawned : agent[s].pc = "raised")
  /\ Rejoined

(* The pool is left when every investigator is back or has raised; then the *)
(* results, or the first exception as an error, are the tool's answer.      *)
Join ==
  /\ agent[Manager].pc = "join"
  /\ \A s \in Spawned : Over(s)
  /\ Rejoined
-----------------------------------------------------------------------------
(* The end of a turn: a report, the output budget or the last iteration    *)
(* ends the loop, in this order.                                           *)
Ends(a) == CASE agent[a].done -> "reported"
             [] ~agent[a].done /\ agent[a].output > OutputBudget -> "budget_exceeded"
             [] OTHER -> "max_iters"

(* Slip for EndTurn: a turn whose every use was denied is asked again. *)
EndTurnUncounted(a) ==
  /\ agent[a].pc = "tools"
  /\ agent[a].uses > 0
  /\ agent' = [agent EXCEPT ![a] =
       IF Ends(a) = "max_iters" /\ @.iter < MaxIters(a)
       THEN [@ EXCEPT !.pc = "call"]
       ELSE [@ EXCEPT !.pc = "stopped", !.stop = Ends(a)]]
  /\ UNCHANGED shared

EndTurn(a) ==
  /\ agent[a].pc = "tools"
  /\ agent[a].uses > 0
  /\ agent' = [agent EXCEPT ![a] =
       IF Ends(a) = "max_iters" /\ agent[a].iter < MaxIters(a)
       THEN [agent[a] EXCEPT !.pc = "call", !.iter = @ + 1, !.uses = 0]
       ELSE [agent[a] EXCEPT !.pc = "stopped", !.stop = Ends(a), !.uses = 0]]
  /\ UNCHANGED shared

LoopStep(a) ==
  \/ Call(a) \/ CallFails(a)
  \/ \E n \in 0..MaxTokens : Answer(a, n) \/ AnswerWithTools(a, n)
  \/ Denied(a) \/ Dispatch(a)
  \/ \E i \in Inputs(a) : Report(a, i)
  \/ EndTurn(a)

Next ==
  \/ \E a \in Agents : LoopStep(a)
  \/ \E s \in Services : Collected(s)
  \/ \E S \in SUBSET Services, kind \in {"service", "change"} : FanOut(S, kind)
  \/ Join

(* Calls of the API have a time limit and waiters of a semaphore are served *)
(* in turn, so every thread keeps moving.                                  *)
Spec == /\ Init /\ [][Next]_vars
        /\ \A a \in Agents : /\ SF_vars(Call(a))
                             /\ WF_vars(LoopStep(a))
        /\ \A s \in Services : WF_vars(Collected(s))
        /\ WF_vars(Join)
-----------------------------------------------------------------------------
(* Budgets are looked at between turns and before each use, by every agent *)
(* for itself: nobody dispatches more tools than its own budget, and a     *)
(* loop overdraws its output by one turn at most (loop.py, BudgetGuard).   *)
BudgetsHold ==
  \A a \in Agents : /\ agent[a].calls <= ToolBudget(a)
                   /\ agent[a].output <= OutputBudget + MaxTokens

(* An accepted report ends the loop with the turn it came in, whatever the *)
(* rest of the batch does, and only an accepted report counts as one.      *)
ReportEndsLoop ==
  \A a \in Agents :
    /\ agent[a].pc \in {"call", "flight"} => agent[a].terminal = None
    /\ agent[a].pc = "stopped" =>
         (agent[a].stop = "reported" <=> agent[a].terminal # None)

(* manager.py counts the findings its validator rejects and keeps them,    *)
(* without a retry; none is ever rejected, because what the report gate    *)
(* and the schema let through meets the validator's contract.              *)
NothingRejected == rejected = 0

(* No investigator outlives the call that spawned it, whoever raises: the  *)
(* manager never reasons or reports while one still runs (manager.py).     *)
NoInvestigatorOutlives ==
  agent[Manager].pc # "join" => \A s \in Services : agent[s].pc = "idle"

(* A report that is in is final: for the loop that made it, and for the    *)
(* manager that collects it (loop.py:191-230, manager.py:104-130).         *)
ReportsAreFinal == ReportEndsLoop /\ NothingRejected

(* An investigation ends: with a report, without one or with an exception; *)
(* the agents do not starve each other of the semaphore.                   *)
InvestigationEnds == <>(agent[Manager].pc \in {"stopped", "raised"})
=============================================================================
