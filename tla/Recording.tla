------------------------------- MODULE Recording -------------------------------
(***************************************************************************)
(* Recording of the lab's incidents: the batch that records one scenario   *)
(* after the other (labs/otel/record_active_set.py, workflow.py, writer.py,*)
(* validator.py), the flag document it turns faults on and off in          *)
(* (flagd.py, loadgen.py), and the live incidents somebody injects between *)
(* two batches (live_incident.py).                                         *)
(*                                                                         *)
(* A scenario is named after its flag. Every request to the flag server    *)
(* may fail, before or after the server has applied it; the batch can be   *)
(* interrupted from the keyboard, or die. Time is the order of the steps.  *)
(***************************************************************************)
EXTENDS Naturals, Sequences, FiniteSets, SequencesExt

CONSTANTS Scenarios,    \* ACTIVE
          Gated,        \* productCatalogFailure, the flag with a targeting rule
          MaxBatches,   \* bound on batches started
          MaxMarred     \* bound on the kinds of mishap in one behaviour

ASSUME RecordingAssumption ==
  Gated \in Scenarios /\ IsFiniteSet(Scenarios) /\ {MaxBatches, MaxMarred} \subseteq Nat

VARIABLES
  doc,          \* the flag document: defaultVariant per flag, Gated's targeting
  pc, left, batches,              \* the batch and the scenarios it has left
  saved, passed, interrupted,     \* record_one's locals; KeyboardInterrupt
  before, since,                  \* faults active in the two parts of the window
  files, results,                 \* what is on disk, what the batch will print
  incident,                       \* run_live_incident: where it is, and its flag
  marred                          \* history: the steps that something went wrong in

batch  == <<pc, left, batches>>
locals == <<saved, passed, interrupted>>
window == <<before, since>>
output == <<files, results>>
vars == <<doc, batch, locals, window, output, incident, marred>>

Rules == {"none", "gate", "open"}   \* "gate": off in both branches of the rule
NoFile == [run |-> 0, before |-> {}, since |-> {}, leak |-> FALSE]

(* The try of record_scenario_definition, and what comes before it. *)
Tried    == {"collect", "public", "assert", "truth", "validate"}
Untried  == {"start", "warmup", "baseline", "soak"}
Points   == Tried \cup Untried \cup {"idle", "preflight", "remove", "reset", "restore", "report"}

(* The faults that the document makes the lab show. *)
ActiveIn(d) == {f \in Scenarios : IF f = Gated /\ d.rule # "none"
                                    THEN d.rule = "open" ELSE d.variant[f] = "on"}

Scenario == Head(left)

Init ==
  /\ doc = [variant |-> [f \in Scenarios |-> "off"], rule |-> "gate"]
  /\ pc = "idle" /\ left = <<>> /\ batches = 0
  /\ saved = "none" /\ passed = FALSE /\ interrupted = FALSE
  /\ before = {} /\ since = {}
  /\ files = [s \in Scenarios |-> [public |-> NoFile, truth |-> 0]]
  /\ results = [s \in Scenarios |-> "none"]
  /\ incident = [at |-> "none", flag |-> Gated]
  /\ marred = {}
-----------------------------------------------------------------------------
(* The updates of the document; each reads all of it and writes it back.    *)
reset_all_flags(d) == [d EXCEPT !.variant = [f \in Scenarios |-> "off"]]
set_flag_variant(d, f) == [d EXCEPT !.variant[f] = "on"]
WithRule(d, rule) == [d EXCEPT !.rule = rule, !.variant[Gated] = "off"]

Goes(from, to) == pc = from /\ pc' = to

Mishap(where) == /\ Cardinality(marred \cup {where}) <= MaxMarred
                 /\ marred' = marred \cup {where}

Works(new) == doc' = new /\ UNCHANGED marred
Fails(new) == doc' \in {doc, new} /\ Mishap(pc)

(* Where an exception leads: the reset is in the finally of the try, the    *)
(* restoration in that of record_one.                                       *)
Unwinds == IF pc \in Tried THEN "reset" ELSE IF pc = "remove" THEN "report" ELSE "restore"

Raise(from) == Goes(from, Unwinds) /\ passed' = FALSE

(* main(): the batch over the scenarios asked for. *)
Begin ==
  /\ Goes("idle", "preflight")
  /\ incident.at \in {"none", "live"} /\ batches < MaxBatches
  /\ left' \in {s \in SeqOf(Scenarios, Cardinality(Scenarios)) : s # <<>> /\ IsInjective(s)}
  /\ batches' = batches + 1
  /\ results' = [s \in Scenarios |-> "none"]
  /\ interrupted' = FALSE
  /\ UNCHANGED <<doc, saved, passed, window, files, incident, marred>>

Preflight ==
  /\ \/ Goes("preflight", "remove") /\ UNCHANGED left
     \/ Goes("preflight", "idle") /\ left' = <<>>
  /\ UNCHANGED <<doc, batches, locals, window, output, incident, marred>>

(* The rule that keeps the gated flag off is taken out of the document.     *)
RemoveRule ==
  /\ pc = "remove"
  /\ IF Scenario = Gated /\ doc.rule # "none"
     THEN \/ /\ Goes("remove", "start") /\ Works(WithRule(doc, "none"))
             /\ saved' = doc.rule /\ UNCHANGED passed
          \/ Raise("remove") /\ Fails(WithRule(doc, "none")) /\ UNCHANGED saved
     ELSE Goes("remove", "start") /\ UNCHANGED <<doc, marred, saved, passed>>
  /\ UNCHANGED <<left, batches, interrupted, window, output, incident>>

(* Slip for Start: the flags are taken to be off. *)
StartWithoutReset ==
  /\ Goes("start", "warmup")
  /\ UNCHANGED <<doc, left, batches, locals, window, output, incident, marred>>

Start ==
  /\ \/ Goes("start", "warmup") /\ Works(reset_all_flags(doc)) /\ UNCHANGED passed
     \/ Raise("start") /\ Fails(reset_all_flags(doc))
  /\ UNCHANGED <<left, batches, saved, interrupted, window, output, incident>>

OpenWindow ==
  /\ Goes("warmup", "baseline")
  /\ before' = ActiveIn(doc)
  /\ UNCHANGED <<doc, left, batches, locals, since, output, incident, marred>>

Inject ==
  /\ \/ Goes("baseline", "soak") /\ Works(set_flag_variant(doc, Scenario)) /\ UNCHANGED passed
     \/ Raise("baseline") /\ Fails(set_flag_variant(doc, Scenario))
  /\ UNCHANGED <<left, batches, saved, interrupted, window, output, incident>>

Soak ==
  /\ Goes("soak", "collect")
  /\ since' = ActiveIn(doc)
  /\ UNCHANGED <<doc, left, batches, locals, before, output, incident, marred>>

(* The backends are read and the alert derived; any of it may raise.        *)
Collect ==
  /\ (Goes("collect", "public") /\ UNCHANGED passed) \/ Raise("collect")
  /\ UNCHANGED <<doc, left, batches, saved, interrupted, window, output, incident, marred>>

(* The public files are written before they are searched for what must not  *)
(* be in them.                                                              *)
WritePublic ==
  /\ Goes("public", "assert")
  /\ \E leak \in BOOLEAN :
       files' = [files EXCEPT ![Scenario].public =
                   [run |-> batches, before |-> before, since |-> since, leak |-> leak]]
  /\ UNCHANGED <<doc, left, batches, locals, window, results, incident, marred>>

(* Slip for AssertSealed: the search is left to the validator. *)
AssertNothing ==
  /\ Goes("assert", "truth")
  /\ UNCHANGED <<doc, left, batches, locals, window, output, incident, marred>>

AssertSealed ==
  /\ pc = "assert"
  /\ IF files[Scenario].public.leak THEN Raise("assert")
     ELSE Goes("assert", "truth") /\ UNCHANGED passed
  /\ UNCHANGED <<doc, left, batches, saved, interrupted, window, output, incident, marred>>

WriteTruth ==
  /\ Goes("truth", "validate")
  /\ files' = [files EXCEPT ![Scenario].truth = batches]
  /\ UNCHANGED <<doc, left, batches, locals, window, results, incident, marred>>

(* The gates on the signals let a fixture pass only if those of the target  *)
(* change at onset; they may be missed all the same.                        *)
Validate ==
  /\ Goes("validate", "reset")
  /\ LET public == files[Scenario].public
         shows == Scenario \in public.since \ public.before
     IN  passed' \in {FALSE, ~public.leak /\ shows}
  /\ UNCHANGED <<doc, left, batches, saved, interrupted, window, output, incident, marred>>

FinalReset ==
  /\ \/ Goes("reset", "restore") /\ Works(reset_all_flags(doc)) /\ UNCHANGED passed
     \/ Raise("reset") /\ Fails(reset_all_flags(doc))
  /\ UNCHANGED <<left, batches, saved, interrupted, window, output, incident>>

(* Slip for RestoreRule: only after a recording that worked. *)
RestoreRuleWhenPassed ==
  /\ Goes("restore", "report")
  /\ doc' = IF saved = "none" \/ ~passed THEN doc ELSE WithRule(doc, saved)
  /\ saved' = "none"
  /\ UNCHANGED <<left, batches, passed, interrupted, window, output, incident, marred>>

RestoreRule ==
  /\ pc = "restore" /\ pc' = "report"
  /\ saved' = "none"
  /\ IF saved = "none" THEN UNCHANGED <<doc, marred, passed>>
     ELSE \/ Works(WithRule(doc, saved)) /\ UNCHANGED passed
          \/ Fails(WithRule(doc, saved)) /\ passed' = FALSE
  /\ UNCHANGED <<left, batches, interrupted, window, output, incident>>

Reported == [results EXCEPT ![Scenario] = IF passed THEN "passed" ELSE "failed"]

(* Slip for Report: the first failure ends the batch. *)
ReportAborts ==
  /\ Goes("report", IF interrupted \/ ~passed \/ Len(left) = 1 THEN "idle" ELSE "remove")
  /\ left' = IF pc' = "idle" THEN <<>> ELSE Tail(left)
  /\ results' = IF interrupted THEN results ELSE Reported
  /\ UNCHANGED <<doc, batches, saved, passed, interrupted, window, files, incident, marred>>

(* A scenario that raised is reported as failed, and the batch goes on; an  *)
(* interrupt is no Exception and ends it.                                   *)
Report ==
  /\ Goes("report", IF interrupted \/ Len(left) = 1 THEN "idle" ELSE "remove")
  /\ left' = IF pc' = "idle" THEN <<>> ELSE Tail(left)
  /\ results' = IF interrupted THEN results ELSE Reported
  /\ UNCHANGED <<doc, batches, saved, passed, interrupted, window, files, incident, marred>>

(* A keyboard interrupt in one of the long waits, or while collecting. *)
Interrupt ==
  /\ pc \in {"warmup", "baseline", "soak", "collect"}
  /\ Raise(pc)
  /\ Mishap(pc)
  /\ interrupted' = TRUE
  /\ UNCHANGED <<doc, left, batches, saved, window, output, incident>>

(* The process dies; what it had saved of the rule is gone. *)
Die ==
  /\ pc # "idle" /\ pc' = "idle"
  /\ Mishap("death")
  /\ left' = <<>> /\ saved' = "none" /\ passed' = FALSE /\ interrupted' = TRUE
  /\ UNCHANGED <<doc, batches, window, output, incident>>

BatchStep ==
  \/ Preflight \/ RemoveRule \/ Start \/ OpenWindow \/ Inject \/ Soak \/ Collect
  \/ WritePublic \/ AssertSealed \/ WriteTruth \/ Validate \/ FinalReset \/ RestoreRule \/ Report
-----------------------------------------------------------------------------
(* run_live_incident: the changes are posted, the flag is set, the rule of  *)
(* the gated one is opened, the truth written. Nothing is ever taken back.  *)
IncidentGoes(from, to) == incident.at = from /\ incident' = [incident EXCEPT !.at = to]

Post(f) ==
  /\ pc = "idle" /\ incident.at = "none"
  /\ incident' = [at |-> "set", flag |-> f]
  /\ UNCHANGED <<doc, batch, locals, window, output, marred>>

SetVariant ==
  /\ LET new == set_flag_variant(doc, incident.flag)
     IN  \/ IncidentGoes("set", IF incident.flag = Gated THEN "patch" ELSE "truth") /\ Works(new)
         \/ IncidentGoes("set", "none") /\ doc' \in {doc, new} /\ Mishap("incident")
  /\ UNCHANGED <<batch, locals, window, output>>

(* It raises when there is no rule to open. *)
set_targeting_true_variant ==
  /\ LET new == [doc EXCEPT !.rule = "open"]
     IN  IF doc.rule = "none" THEN IncidentGoes("patch", "none") /\ UNCHANGED doc /\ Mishap("patch")
         ELSE \/ IncidentGoes("patch", "truth") /\ Works(new)
              \/ IncidentGoes("patch", "none") /\ doc' \in {doc, new} /\ Mishap("patch")
  /\ UNCHANGED <<batch, locals, window, output>>

GoLive ==
  /\ IncidentGoes("truth", "live")
  /\ UNCHANGED <<doc, batch, locals, window, output, marred>>

Next ==
  \/ Begin \/ BatchStep \/ Interrupt \/ Die
  \/ (\E f \in Scenarios : Post(f)) \/ SetVariant \/ set_targeting_true_variant \/ GoLive

(* Waits end and requests have a time limit; nobody has to start anything.  *)
Spec == Init /\ [][Next]_vars /\ WF_vars(BatchStep)
-----------------------------------------------------------------------------
TypeOK ==
  /\ doc \in [variant : [Scenarios -> {"on", "off"}], rule : Rules]
  /\ pc \in Points /\ left \in Seq(Scenarios) /\ batches \in 0..MaxBatches
  /\ saved \in Rules /\ passed \in BOOLEAN /\ interrupted \in BOOLEAN
  /\ before \subseteq Scenarios /\ since \subseteq Scenarios
  /\ results \in [Scenarios -> {"none", "passed", "failed"}]
  /\ incident \in [at : {"none", "set", "patch", "truth", "live"}, flag : Scenarios]

Opened == "patch" \in marred \/ (incident.flag = Gated /\ incident.at \in {"truth", "live"})

(* A fixture reported as passed shows a clean baseline and then its own      *)
(* fault alone, whatever failed, was interrupted or died before it; except   *)
(* that a rule somebody opened for a live incident stays open, since no      *)
(* reset touches a rule (workflow.py:342-379, flagd.py:71-82,                *)
(* live_incident.py:40-44).                                                  *)
FixtureTellsTruth ==
  \A s \in Scenarios : results[s] = "passed" =>
    LET public == files[s].public
        residue == IF s # Gated /\ Opened THEN {Gated} ELSE {}
    IN  public.before \subseteq residue /\ public.since = {s} \cup public.before

(* The truth is never put beside public files of the same recording that     *)
(* leak it, and what is reported as passed are two halves of one recording   *)
(* (writer.py:43-64).                                                        *)
FixtureIsSealed ==
  \A s \in Scenarios :
    /\ files[s].truth # 0 /\ files[s].truth = files[s].public.run => ~files[s].public.leak
    /\ results[s] = "passed" => files[s].truth = files[s].public.run

(* However a recording ends, its fault is taken back; except for a request   *)
(* that failed to, a death, and an interrupt or a lost reply between the     *)
(* injection and the try block (workflow.py:354-379).                        *)
FaultIsTakenBack ==
  incident.at = "none" /\ marred \cap {"baseline", "soak", "reset", "death", "incident", "patch"} = {}
    => (ActiveIn(doc) # {} => pc \in Tried \cup {"soak", "reset"})

(* The gated flag has its rule whenever its scenario is not being recorded,  *)
(* and while it is the recorder knows what to put back; except for a request *)
(* that failed to, or a death (record_active_set.py:61-75).                  *)
RuleIsRestored ==
  marred \cap {"remove", "restore", "death"} = {} /\ doc.rule = "none"
    => pc \in Tried \cup Untried \cup {"reset", "restore"} /\ Scenario = Gated /\ saved # "none"

(* Every scenario of a batch that has begun is reported, whatever happens to *)
(* the others, unless the batch is interrupted or dies                       *)
(* (record_active_set.py:99-106).                                            *)
EveryScenarioReported ==
  \A s \in Scenarios :
    (pc = "remove" /\ s \in ToSet(left)) ~> (results[s] # "none" \/ interrupted)

(* However a recording ends, the lab is left as it was found                 *)
(* (workflow.py:362-379, record_active_set.py:61-75).                        *)
LabIsLeftAsFound == FaultIsTakenBack /\ RuleIsRestored
=============================================================================
