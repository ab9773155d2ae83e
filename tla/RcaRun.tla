-------------------------------- MODULE RcaRun --------------------------------
(***************************************************************************)
(* One investigation: the ranking of OriginRank, the manager's plan with   *)
(* the hypotheses injected into it, a pool of worker threads that test     *)
(* them, the collection of their verdicts in order, and the pick           *)
(* (sentinel/oss/rca.py run_rca, the end of sentinel/oss/worker.py).       *)
(*                                                                         *)
(* What a language model answers is chosen freely. A worker is its         *)
(* outcome: a valid verdict, none, one that fails its schema (which is     *)
(* returned all the same), or an exception. The brief of the finished run  *)
(* and the action it puts in front of a human are Remediation's.           *)
(***************************************************************************)
EXTENDS OriginRank, Remediation

CONSTANTS Concurrency,  \* worker_concurrency
          MaxPlan       \* bound on the hypotheses of the manager's plan

ASSUME RcaAssumption == Concurrency \in Nat \ {0} /\ MaxPlan \in Nat

VARIABLES
  pc,
  hyps,          \* candidates of the hypotheses, in order
  worker,        \* per hypothesis: state of its future
  verdict,       \* per hypothesis: what its worker returned, reconciled
  collected,     \* results taken from the pool so far
  pick, faultType,
  brief          \* the actions proposed, the evidence they cite, its signature

pool == <<hyps, worker, verdict, collected>>
answer == <<pick, faultType>>
vars == <<rankVars, pc, pool, answer, brief>>

Unknown    == 0                 \* a name that is in no graph
Candidates == Services \cup {Unknown}
Verdicts   == {"none", "supported", "refuted", "malformed"}

Index == 1..Len(hyps)
In(state) == {i \in Index : worker[i] = state}

RcaTypeOK ==
  /\ TypeOK
  /\ pc \in {"resolve", "plan", "fanout", "drain", "done", "failed", "proposed"}
  /\ hyps \in Seq(Candidates)
  /\ worker \in [Index -> {"pending", "running", "ended", "raised", "cancelled"}]
  /\ verdict \in [Index -> Verdicts]
  /\ collected \in 0..Len(hyps)
  /\ pick \in Candidates
  /\ faultType \in FamilySet \cup {"unnamed"}
  /\ brief.cited \in 0..Len(hyps)

NoBrief == [actions |-> <<>>, cited |-> 0]

(* An incident, or no topology source at all. *)
RcaInit ==
  /\ \/ Init
     \/ /\ edges = {} /\ kind \in Kinds /\ origin \in Services /\ ranked = <<>>
        /\ effects = [s \in Services |-> Only("latency", 0, 0)]
  /\ pc = "resolve"
  /\ hyps = <<>> /\ worker = <<>> /\ verdict = <<>> /\ collected = 0
  /\ pick = Unknown /\ faultType = "unnamed"
  /\ brief = NoBrief
-----------------------------------------------------------------------------
ResolveGraph ==
  /\ pc = "resolve"
  /\ pc' = "plan"
  /\ IF edges = {} THEN UNCHANGED ranked ELSE ranked' \in Rankings
  /\ UNCHANGED <<edges, effects, incident, pool, answer, brief>>

(* The anomalous services among the first three which the plan left out. *)
Injected(planned) ==
  Kept(SubSeq(ranked, 1, Min({3, Len(ranked)})), Anomalous \ planned)

Plan ==
  /\ pc = "plan"
  /\ \/ pc' = "failed" /\ UNCHANGED pool
     \/ \E n \in 0..MaxPlan : \E planned \in [1..n -> Candidates] :
          /\ pc' = "fanout"
          /\ hyps' = planned \o Injected(ToSet(planned))
          /\ worker'  = [i \in 1..Len(hyps') |-> "pending"]
          /\ verdict' = [i \in 1..Len(hyps') |-> "none"]
          /\ UNCHANGED collected
  /\ UNCHANGED <<rankVars, answer, brief>>

(* A pool thread takes the next hypothesis of the queue, also while the     *)
(* rest of the queue is being cancelled.                                    *)
Start(i) ==
  /\ pc \in {"fanout", "drain"}
  /\ worker[i] = "pending"
  /\ \A j \in 1..(i - 1) : worker[j] # "pending"
  /\ Cardinality(In("running")) < Concurrency
  /\ worker' = [worker EXCEPT ![i] = "running"]
  /\ UNCHANGED <<rankVars, pc, hyps, verdict, collected, answer, brief>>

(* Reconciled with the overlay: a candidate that stepped is supported.      *)
Reconciled(i, found) ==
  IF found # "none" /\ hyps[i] \in Anomalous THEN "supported" ELSE found

Finish(i) ==
  /\ worker[i] = "running"
  /\ \/ /\ worker' = [worker EXCEPT ![i] = "ended"]
        /\ \E found \in Verdicts : verdict' = [verdict EXCEPT ![i] = Reconciled(i, found)]
     \/ worker' = [worker EXCEPT ![i] = "raised"] /\ UNCHANGED verdict
  /\ UNCHANGED <<rankVars, pc, hyps, collected, answer, brief>>

(* Slip for Collect: a future that raised is waited for. *)
CollectEnded ==
  /\ pc = "fanout" /\ collected < Len(hyps)
  /\ worker[collected + 1] = "ended"
  /\ collected' = collected + 1
  /\ UNCHANGED <<rankVars, pc, hyps, worker, verdict, answer, brief>>

(* Results are taken in the order of the hypotheses, until one raises.      *)
Collect ==
  /\ pc = "fanout" /\ collected < Len(hyps)
  /\ \/ worker[collected + 1] = "ended" /\ collected' = collected + 1 /\ UNCHANGED pc
     \/ worker[collected + 1] = "raised" /\ pc' = "drain" /\ UNCHANGED collected
  /\ UNCHANGED <<rankVars, hyps, worker, verdict, answer, brief>>

(* The futures not yet started are cancelled, the last one first.           *)
Cancel ==
  /\ pc = "drain" /\ In("pending") # {}
  /\ worker' = [worker EXCEPT ![Max(In("pending"))] = "cancelled"]
  /\ UNCHANGED <<rankVars, pc, hyps, verdict, collected, answer, brief>>

(* Slip for Drain: the pool is shut down without waiting. *)
DrainAtOnce ==
  /\ pc = "drain" /\ In("pending") = {}
  /\ pc' = "failed"
  /\ UNCHANGED <<rankVars, pool, answer, brief>>

(* Leaving the pool waits for the workers that are still running. *)
Drain ==
  /\ pc = "drain"
  /\ In("pending") \cup In("running") = {}
  /\ pc' = "failed"
  /\ UNCHANGED <<rankVars, pool, answer, brief>>

(* Refuted: a verdict says unsupported and nothing stepped. *)
RefutedBy(rejections) ==
  {hyps[i] : i \in {j \in Index : verdict[j] \in rejections}} \ Anomalous
Refuted == RefutedBy({"refuted", "malformed"})

(* The first of the ranking that is in S. *)
FirstIn(S) == LET places == {i \in 1..Len(ranked) : ranked[i] \in S}
              IN  IF places = {} THEN Unknown ELSE ranked[Min(places)]

(* Slip for Picked: the first service with a verdict in its favour. *)
PickedSupported ==
  FirstIn({hyps[i] : i \in {j \in Index : verdict[j] = "supported"}})

(* The first that is not refuted; when every one is, the first. *)
Picked == LET remaining == ToSet(ranked) \ Refuted
          IN  FirstIn(IF remaining = {} THEN ToSet(ranked) ELSE remaining)

(* The pick, its fault type from the overlay, and the synthesis, which      *)
(* narrates, names a type when the overlay has none, and may raise.         *)
Decide ==
  /\ pc = "fanout" /\ collected = Len(hyps)
  /\ LET told == \E i \in Index : verdict[i] # "none"
     IN  \/ /\ pc' = "done"
            /\ pick' = Picked
            /\ IF pick' \in Anomalous
                 THEN faultType' = FirstFamily(pick')
                 ELSE faultType' \in IF told THEN FamilySet \cup {"unnamed"} ELSE {"unnamed"}
         \/ told /\ pc' = "failed" /\ UNCHANGED answer
  /\ UNCHANGED <<rankVars, pool, brief>>

(* The verdict the brief cites for a service is the first that is about it   *)
(* or names it as the root cause: a worker may do so when it refutes its own *)
(* candidate (accusers). 0: there is none.                                   *)
_top_evidence(s, accusers) ==
  LET about == {i \in Index : verdict[i] # "none" /\ (hyps[i] = s \/ i \in accusers)}
  IN  IF about = {} THEN 0 ELSE Min(about)

MayAccuse == {i \in Index : verdict[i] \in {"refuted", "malformed"} /\ hyps[i] # pick}

(* The signatures said to be on by a verdict: those which stepped, for an    *)
(* anomalous candidate, and anything else for another. The first counts.     *)
SignaturesIn(i) ==
  CASE i = 0 -> {"none"}
    [] i # 0 /\ hyps[i] \in Anomalous ->
         {Families[Min({f \in 1..3 : Z(hyps[i], Families[f]) >= ZMin})]}
    [] OTHER -> FamilySet \cup {"none"}

(* The names the overlay gives to a fault are not in the catalog's table;    *)
(* a model may hit upon one of its keys (two of them here).                 *)
TypeKeys == IF pick \in Anomalous \/ faultType = "unnamed"
              THEN {"none"} ELSE {"none", "disk", "socket"}

Confident == pick # Unknown /\ \E i \in Index : hyps[i] = pick /\ verdict[i] = "supported"

(* The brief of the finished run is built and its actions are proposed. *)
build_brief ==
  /\ pc = "done"
  /\ pc' = "proposed"
  /\ \E accusers \in SUBSET MayAccuse :
       LET cited == _top_evidence(pick, accusers)
       IN  \E signature \in SignaturesIn(cited), typeKey \in TypeKeys :
             brief' = [actions |-> IF pick = Unknown THEN <<>>
                                   ELSE suggest_actions(pick, typeKey, signature, Confident),
                       cited   |-> cited]
  /\ UNCHANGED <<rankVars, pool, answer>>

WorkerStep  == \E i \in Index : Start(i) \/ Finish(i)
ManagerStep == ResolveGraph \/ Plan \/ Collect \/ Cancel \/ Drain \/ Decide \/ build_brief

RcaNext == WorkerStep \/ ManagerStep

RcaSpec == RcaInit /\ [][RcaNext]_vars

(* Calls of the model time out, and a worker's turns are counted.           *)
RcaFairSpec == RcaSpec /\ WF_vars(WorkerStep) /\ WF_vars(ManagerStep)
-----------------------------------------------------------------------------
(* Once something has stepped, no plan, no verdict and no worker's failure   *)
(* moves the pick: it is the first of the ranking (rca.py:102-106, 166-178). *)
WorkersCannotMovePick ==
  pc = "done" /\ Anomalous # {} => pick = Head(ranked)

(* A pick that stepped was put before a worker, and no verdict about it says *)
(* otherwise (rca.py:102-115, 149-157).                                      *)
PickIsInvestigated ==
  pc = "done" /\ pick \in Anomalous =>
    /\ pick \in ToSet(hyps)
    /\ \A i \in Index : hyps[i] = pick => verdict[i] \in {"none", "supported"}

(* A service ranked before the pick was displaced by a worker that tested    *)
(* that very service and returned a verdict against it (rca.py:166-178).     *)
DisplacedOnlyByVerdict ==
  pc = "done" /\ ranked # <<>> =>
    \A i \in 1..Len(ranked) :
      (\E j \in (i + 1)..Len(ranked) : ranked[j] = pick) =>
        \E w \in Index : hyps[w] = ranked[i] /\ verdict[w] \in {"refuted", "malformed"}

(* The investigation does not return, or raise, while a worker of it is      *)
(* running: nothing writes to the trace or asks the store behind its back.   *)
NoWorkerOutlivesRun ==
  pc \in {"done", "failed"} => In("running") \cup In("pending") = {}

(* Every investigation comes to an end. *)
RcaEnds == <>(pc \in {"done", "failed"})

(* Workers move the pick only by a verdict on the very service displaced,    *)
(* and not at all once something has stepped (rca.py:166-178).               *)
PickIsMovedByVerdict == WorkersCannotMovePick /\ DisplacedOnlyByVerdict

(* A button that changes the system is offered only for the service picked,  *)
(* on the word of a worker that tested that service, and never against       *)
(* another's unless every service was ruled out; for an incident that has    *)
(* stepped it is on the service at fault, and fits a family that stepped     *)
(* there as long as the evidence cited is of that service. Slack shows one   *)
(* such button at most, and nothing the web does not (brief.py:54-69,        *)
(* catalog.py:66-70, run.py:28-43).                                          *)
ButtonIsBacked ==
  LET primary  == elect_primary(brief.actions)
      On(s)    == PostedTo(s, primary, brief.actions)
      Mutating == {a \in On("web") : Effect(a.kind) = "mutate"}
  IN  pc = "proposed" /\ Mutating # {} =>
        /\ \A a \in Mutating : a.target = pick
        /\ \E i \in Index : hyps[i] = pick /\ verdict[i] = "supported"
        /\ pick \in Refuted => ToSet(ranked) \subseteq Refuted
        /\ Anomalous # {} /\ kind = "loss" =>
             /\ primary.target = origin
             /\ hyps[brief.cited] = pick =>
                  \E fam \in FamilySet :
                    Z(pick, fam) >= ZMin /\ primary.kind = Head(Table[SignatureFallback[fam]])
        /\ On("slack") = {primary} /\ primary \in On("web")

(* What a run ends with is backed by the work it did: the pick that stepped  *)
(* was tested, and no remedy is offered on less than a worker's word.        *)
RemedyIsBacked == PickIsInvestigated /\ ButtonIsBacked
=============================================================================
