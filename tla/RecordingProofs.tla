---------------------------- MODULE RecordingProofs ----------------------------
(***************************************************************************)
(* What a batch of recordings leaves behind, for every set of scenarios,   *)
(* number of batches and mishaps: fixtures that are sealed and tell the    *)
(* truth, and a lab as it was found.                                       *)
(*                                                                         *)
(* Sealing rests on each batch recording a scenario at most once: while a  *)
(* scenario is still to be recorded, the truth on disk is of an earlier    *)
(* batch, and cannot be taken for the other half of the public files that  *)
(* are about to be written.                                                *)
(***************************************************************************)
EXTENDS Recording, FiniteSetTheorems, SequenceTheorems, WellFoundedInduction, TLAPS

Public == [run : Nat, before : SUBSET Scenarios, since : SUBSET Scenarios, leak : BOOLEAN]

FilesOK == files \in [Scenarios -> [public : Public, truth : Nat]]

(* A batch names a scenario once, and is over when it has none left.        *)
BatchOK ==
  /\ \A i, j \in 1..Len(left) : left[i] = left[j] => i = j
  /\ (pc = "idle") = (left = <<>>)

(* Up to the writing of its truth, a scenario's truth is of an older batch. *)
Unwritten ==
  {"preflight", "remove", "start", "warmup", "baseline", "soak", "collect", "public", "assert", "truth"}

TruthIsOlder ==
  /\ \A s \in Scenarios : files[s].truth <= batches
  /\ \A i \in 1..Len(left) : i > 1 \/ pc \in Unwritten => files[left[i]].truth < batches

(* What the files of the scenario being recorded have come to.              *)
FilesAgree ==
  /\ pc \in {"assert", "truth", "validate"} => files[Scenario].public.run = batches
  /\ pc \in {"truth", "validate"} => ~files[Scenario].public.leak
  /\ pc = "validate" => files[Scenario].truth = batches
  /\ pc \in {"reset", "restore", "report"} /\ passed =>
       files[Scenario].truth = files[Scenario].public.run

NotYetReported == \A i \in 1..Len(left) : results[left[i]] # "passed"

IInv == /\ TypeOK /\ FilesOK /\ BatchOK /\ TruthIsOlder
        /\ FilesAgree /\ NotYetReported /\ FixtureIsSealed

(* The scenarios that main() may be given: each at most once.               *)
LEMMA ChosenIsBatch ==
  ASSUME NEW chosen \in SeqOf(Scenarios, Cardinality(Scenarios)), IsInjective(chosen)
  PROVE  /\ chosen \in Seq(Scenarios)
         /\ \A i, j \in 1..Len(chosen) : chosen[i] = chosen[j] => i = j
<1>1. Cardinality(Scenarios) \in Nat
  BY FS_CardinalityType, RecordingAssumption
<1>2. PICK m \in 0..Cardinality(Scenarios) : chosen \in [1..m -> Scenarios]
  BY <1>1 DEF SeqOf
<1>3. m \in Nat /\ chosen \in Seq(Scenarios) /\ Len(chosen) = m
  BY <1>1, <1>2
<1> QED BY <1>2, <1>3 DEF IsInjective

Docs == [variant : [Scenarios -> {"on", "off"}], rule : Rules]

(* Every update of the document leaves a document.                          *)
LEMMA UpdatesAreDocs ==
  ASSUME doc \in Docs
  PROVE  /\ reset_all_flags(doc) \in Docs
         /\ \A f : set_flag_variant(doc, f) \in Docs
         /\ \A rule \in Rules : WithRule(doc, rule) \in Docs
         /\ [doc EXCEPT !.rule = "open"] \in Docs
         /\ "none" \in Rules /\ doc.rule \in Rules
BY RecordingAssumption DEF Docs, Rules, reset_all_flags, set_flag_variant, WithRule

LEMMA TypeInit == Init => TypeOK /\ BatchOK
<1> SUFFICES ASSUME Init PROVE TypeOK /\ BatchOK
  OBVIOUS
<1>1. doc \in Docs
  BY DEF Init, Docs, Rules
<1>2. incident \in [at : {"none", "set", "patch", "truth", "live"}, flag : Scenarios]
  BY RecordingAssumption DEF Init
<1>3. left \in Seq(Scenarios) /\ Len(left) = 0
  BY DEF Init
<1>4. MaxBatches \in Nat
  BY RecordingAssumption
<1>5. batches \in 0..MaxBatches /\ pc \in Points /\ saved \in Rules
  BY <1>4 DEF Init, Points, Rules
<1>6. results \in [Scenarios -> {"none", "passed", "failed"}]
  BY DEF Init
<1>7. TypeOK
  BY <1>1, <1>2, <1>3, <1>5, <1>6 DEF Init, TypeOK, Docs
<1> QED BY <1>3, <1>7 DEF Init, BatchOK

LEMMA TypeStep ==
  ASSUME TypeOK, BatchOK, [Next]_vars
  PROVE  TypeOK'
<1> <<>> \in Seq(Scenarios) /\ \A d : ActiveIn(d) \subseteq Scenarios
  BY DEF ActiveIn
<1>0. doc \in Docs
  BY DEF TypeOK, Docs
<1> USE <1>0, UpdatesAreDocs DEF TypeOK, Docs, Points, Tried, Untried, Unwinds, Goes, Raise,
              Works, Fails, Mishap, IncidentGoes, batch, locals, window, output
<1>1. CASE Begin
  <2>1. left' \in Seq(Scenarios)
    BY <1>1, ChosenIsBatch DEF Begin
  <2>2. batches' \in 0..MaxBatches
    BY <1>1, RecordingAssumption DEF Begin
  <2> QED BY <1>1, <2>1, <2>2 DEF Begin
<1>2. CASE Preflight
  BY <1>2 DEF Preflight
<1>3. CASE RemoveRule
  <2>1. doc' \in Docs /\ pc' \in Points /\ saved' \in Rules /\ passed' \in BOOLEAN
    <3>1. doc' \in {doc, WithRule(doc, "none")} /\ saved' \in {saved, doc.rule}
      BY <1>3 DEF RemoveRule
    <3>2. doc' \in Docs /\ saved' \in Rules
      BY <3>1, UpdatesAreDocs
    <3>3. pc' \in {"start", "report"} /\ passed' \in BOOLEAN
      BY <1>3 DEF RemoveRule
    <3> QED BY <3>2, <3>3
  <2>2. UNCHANGED <<left, batches, interrupted, before, since, results, incident>>
    BY <1>3 DEF RemoveRule
  <2> QED BY <2>1, <2>2
<1>4. CASE Start
  BY <1>4 DEF Start
<1>5. CASE OpenWindow
  BY <1>5 DEF OpenWindow
<1>6. CASE Inject
  <2>1. set_flag_variant(doc, Scenario) \in Docs
    BY UpdatesAreDocs
  <2> QED BY <1>6, <2>1 DEF Inject
<1>7. CASE Soak
  BY <1>7 DEF Soak
<1>8. CASE Collect
  BY <1>8 DEF Collect
<1>9. CASE WritePublic
  BY <1>9 DEF WritePublic
<1>10. CASE AssertSealed
  BY <1>10 DEF AssertSealed
<1>11. CASE WriteTruth
  BY <1>11 DEF WriteTruth
<1>12. CASE Validate
  BY <1>12 DEF Validate
<1>13. CASE FinalReset
  BY <1>13 DEF FinalReset
<1>14. CASE RestoreRule
  <2>1. WithRule(doc, saved) \in Docs
    BY UpdatesAreDocs
  <2> QED BY <1>14, <2>1 DEF RestoreRule
<1>15. CASE Report
  <2>1. left' \in Seq(Scenarios)
    BY <1>15 DEF Report, BatchOK
  <2>2. results' \in [Scenarios -> {"none", "passed", "failed"}]
    BY <1>15 DEF Report, Reported
  <2> QED BY <1>15, <2>1, <2>2 DEF Report
<1>16. CASE Interrupt
  BY <1>16 DEF Interrupt
<1>17. CASE Die
  BY <1>17 DEF Die
<1>18. CASE \E f \in Scenarios : Post(f)
  BY <1>18 DEF Post
<1>19. CASE SetVariant
  BY <1>19 DEF SetVariant
<1>20. CASE set_targeting_true_variant
  BY <1>20 DEF set_targeting_true_variant
<1>21. CASE GoLive
  BY <1>21 DEF GoLive
<1>22. CASE UNCHANGED vars
  BY <1>22 DEF vars
<1> QED
  BY <1>1, <1>2, <1>3, <1>4, <1>5, <1>6, <1>7, <1>8, <1>9, <1>10, <1>11, <1>12, <1>13, <1>14,
     <1>15, <1>16, <1>17, <1>18, <1>19, <1>20, <1>21, <1>22 DEF Next, BatchStep

(* A step that leaves the files, the results and the scenarios of the batch  *)
(* alone keeps the rest, if what the new point asks of the files is there.   *)
LEMMA WalkStep ==
  ASSUME IInv, UNCHANGED <<left, batches, files, results>>,
         pc # "idle", pc' # "idle",
         pc' \in Unwritten => pc \in Unwritten,
         FilesAgree'
  PROVE  BatchOK' /\ TruthIsOlder' /\ FilesAgree' /\ NotYetReported' /\ FixtureIsSealed' /\ FilesOK'
BY DEF IInv, BatchOK, TruthIsOlder, NotYetReported, FixtureIsSealed, FilesOK

LEMMA SealedInit == Init => IInv
<1> SUFFICES ASSUME Init PROVE IInv
  OBVIOUS
<1>1. TypeOK /\ BatchOK
  BY TypeInit
<1>2. FilesOK
  BY DEF Init, FilesOK, Public, NoFile
<1> QED BY <1>1, <1>2 DEF Init, IInv, TruthIsOlder, FilesAgree, NotYetReported, FixtureIsSealed

LEMMA SealedStep ==
  ASSUME IInv, [Next]_vars
  PROVE  IInv'
<1>0. TypeOK'
  BY TypeStep DEF IInv
<1> SUFFICES BatchOK' /\ TruthIsOlder' /\ FilesAgree' /\ NotYetReported' /\ FixtureIsSealed' /\ FilesOK'
  BY <1>0 DEF IInv
<1> USE DEF Goes, Raise, Unwinds, Tried, Untried, Unwritten, Scenario,
            batch, locals, window, output
<1>1. CASE Begin
  <2>1. /\ left' \in Seq(Scenarios) /\ left' # <<>>
        /\ \A i, j \in 1..Len(left') : left'[i] = left'[j] => i = j
    BY <1>1, ChosenIsBatch DEF Begin
  <2>2. /\ pc' = "preflight" /\ batches' = batches + 1 /\ UNCHANGED files
        /\ results' = [s \in Scenarios |-> "none"] /\ batches \in Nat
    BY <1>1, RecordingAssumption DEF Begin, IInv, TypeOK
  <2>3. \A i \in 1..Len(left') : left'[i] \in Scenarios
    BY <2>1
  <2>4. TruthIsOlder'
    BY <2>2, <2>3 DEF IInv, TruthIsOlder, FilesOK
  <2>5. NotYetReported' /\ BatchOK' /\ FilesAgree'
    BY <2>1, <2>2, <2>3 DEF NotYetReported, BatchOK, FilesAgree
  <2> QED BY <2>2, <2>4, <2>5 DEF IInv, FixtureIsSealed, FilesOK
<1>2. CASE Preflight
  BY <1>2, WalkStep DEF Preflight, IInv, BatchOK, TruthIsOlder, FilesAgree, NotYetReported, FixtureIsSealed, FilesOK
<1>3. CASE RemoveRule
  BY <1>3, WalkStep DEF RemoveRule, FilesAgree
<1>4. CASE Start
  BY <1>4, WalkStep DEF Start, FilesAgree
<1>5. CASE OpenWindow
  BY <1>5, WalkStep DEF OpenWindow, FilesAgree
<1>6. CASE Inject
  BY <1>6, WalkStep DEF Inject, FilesAgree
<1>7. CASE Soak
  BY <1>7, WalkStep DEF Soak, FilesAgree
<1>8. CASE Collect
  BY <1>8, WalkStep DEF Collect, FilesAgree
<1>9. CASE WritePublic
  <2>1. /\ Len(left) \in Nat \ {0} /\ left[1] \in Scenarios /\ Head(left) = left[1]
        /\ batches \in Nat /\ before \in SUBSET Scenarios /\ since \in SUBSET Scenarios
    BY <1>9, RecordingAssumption DEF WritePublic, IInv, TypeOK, BatchOK
  <2>2. /\ pc = "public" /\ pc' = "assert" /\ UNCHANGED <<left, batches, passed, results>>
    BY <1>9 DEF WritePublic
  <2>3. PICK leak \in BOOLEAN :
          files' = [files EXCEPT ![left[1]].public =
                      [run |-> batches, before |-> before, since |-> since, leak |-> leak]]
    BY <1>9, <2>1 DEF WritePublic
  <2>4. FilesOK'
    BY <2>1, <2>3 DEF IInv, FilesOK, Public
  <2>5. /\ \A s \in Scenarios : files'[s].truth = files[s].truth
        /\ \A s \in Scenarios \ {left[1]} : files'[s].public = files[s].public
        /\ files'[left[1]].public.run = batches
    BY <2>1, <2>3 DEF IInv, FilesOK, Public
  <2>6. \A i \in 1..Len(left) : left[i] \in Scenarios
    BY DEF IInv, TypeOK
  <2>7. TruthIsOlder'
    BY <2>2, <2>5, <2>6 DEF IInv, TruthIsOlder
  <2>8. files[left[1]].truth < batches /\ results[left[1]] # "passed"
    BY <2>1, <2>2 DEF IInv, TruthIsOlder, NotYetReported
  <2>9. FixtureIsSealed'
    BY <2>1, <2>2, <2>5, <2>8 DEF IInv, FixtureIsSealed, FilesOK
  <2>10. FilesAgree' /\ BatchOK' /\ NotYetReported'
    BY <2>1, <2>2, <2>5 DEF IInv, FilesAgree, BatchOK, NotYetReported
  <2> QED BY <2>4, <2>7, <2>9, <2>10
<1>10. CASE AssertSealed
  BY <1>10, WalkStep DEF AssertSealed, FilesAgree, IInv
<1>11. CASE WriteTruth
  <2>0. left # <<>> /\ left \in Seq(Scenarios) /\ batches \in Nat
    BY <1>11, RecordingAssumption DEF WriteTruth, IInv, TypeOK, BatchOK
  <2>1. /\ Len(left) \in Nat \ {0} /\ left[1] \in Scenarios /\ batches \in Nat
        /\ \A i \in 1..Len(left) : left[i] \in Scenarios /\ (i > 1 => left[i] # left[1])
    BY <2>0 DEF IInv, BatchOK
  <2>2. /\ pc = "truth" /\ pc' = "validate" /\ UNCHANGED <<left, batches, passed, results>>
        /\ files' = [files EXCEPT ![left[1]].truth = batches]
    BY <1>11, <2>1 DEF WriteTruth
  <2>3. FilesOK'
    BY <2>1, <2>2 DEF IInv, FilesOK
  <2>4. /\ \A s \in Scenarios : files'[s].public = files[s].public
        /\ \A s \in Scenarios \ {left[1]} : files'[s].truth = files[s].truth
        /\ files'[left[1]].truth = batches
    BY <2>1, <2>2 DEF IInv, FilesOK
  <2>5. /\ files[left[1]].public.run = batches /\ ~files[left[1]].public.leak
        /\ results[left[1]] # "passed"
    BY <2>1, <2>2 DEF IInv, FilesAgree, NotYetReported
  <2>6. TruthIsOlder'
    BY <2>1, <2>2, <2>4 DEF IInv, TruthIsOlder
  <2>7. FixtureIsSealed'
    BY <2>1, <2>2, <2>4, <2>5 DEF IInv, FixtureIsSealed
  <2>8. FilesAgree' /\ BatchOK' /\ NotYetReported'
    BY <2>1, <2>2, <2>4, <2>5 DEF IInv, FilesAgree, BatchOK, NotYetReported
  <2> QED BY <2>3, <2>6, <2>7, <2>8
<1>12. CASE Validate
  BY <1>12, WalkStep DEF Validate, FilesAgree, IInv
<1>13. CASE FinalReset
  BY <1>13, WalkStep DEF FinalReset, FilesAgree, IInv
<1>14. CASE RestoreRule
  BY <1>14, WalkStep DEF RestoreRule, FilesAgree, IInv
<1>15. CASE Report
  <2>1. /\ Len(left) \in Nat \ {0} /\ left[1] \in Scenarios
        /\ \A i \in 1..Len(left) : left[i] \in Scenarios /\ (i > 1 => left[i] # left[1])
    BY <1>15 DEF Report, IInv, TypeOK, BatchOK
  <2>2. /\ pc = "report" /\ pc' \in {"idle", "remove"} /\ UNCHANGED <<batches, files>>
        /\ (pc' = "remove" => (Len(left) # 1 /\ left' = Tail(left)))
        /\ (pc' = "idle" => left' = <<>>)
        /\ (results' = results \/ results' = Reported)
    BY <1>15 DEF Report
  <2>3. /\ (pc' = "idle") = (left' = <<>>)
        /\ \A i \in 1..Len(left') : i + 1 \in 1..Len(left) /\ left'[i] = left[i + 1]
    <3>1. CASE pc' = "idle"
      BY <2>2, <3>1
    <3>2. CASE pc' = "remove"
      <4>1. /\ left \in Seq(Scenarios) /\ left' = Tail(left) /\ left # <<>>
            /\ Len(left) \in Nat /\ Len(left) > 1
        <5>1. left \in Seq(Scenarios)
          BY DEF IInv, TypeOK
        <5>2. Len(left) \in Nat \ {0} /\ Len(left) # 1 /\ left' = Tail(left)
          BY <2>1, <2>2, <3>2
        <5> QED BY <5>1, <5>2
      <4>2. Len(Tail(left)) = Len(left) - 1
        BY <4>1
      <4>3. \A i \in 1..(Len(left) - 1) : Tail(left)[i] = left[i + 1]
        BY <4>1
      <4>4. left' # <<>>
        <5>1. left' \in Seq(Scenarios) /\ Len(left') >= 1
          BY <4>1, <4>2
        <5> QED BY <5>1
      <4> QED BY <3>2, <4>1, <4>2, <4>3, <4>4
    <3> QED BY <2>2, <3>1, <3>2
  <2>4. /\ \A s \in Scenarios : s # left[1] => results'[s] = results[s]
        /\ results'[left[1]] = "passed" => results[left[1]] = "passed" \/ passed
    BY <2>1, <2>2 DEF Reported, IInv, TypeOK
  <2>5. BatchOK'
    BY <2>1, <2>3 DEF IInv, BatchOK
  <2>6. TruthIsOlder'
    BY <2>1, <2>2, <2>3 DEF IInv, TruthIsOlder
  <2>7. NotYetReported'
    BY <2>1, <2>3, <2>4 DEF IInv, NotYetReported
  <2>8. FixtureIsSealed'
    BY <2>1, <2>2, <2>4 DEF IInv, FixtureIsSealed, FilesAgree
  <2> QED BY <2>2, <2>5, <2>6, <2>7, <2>8 DEF IInv, FilesAgree, FilesOK
<1>16. CASE Interrupt
  BY <1>16, WalkStep DEF Interrupt, FilesAgree
<1>17. CASE Die
  BY <1>17 DEF Die, IInv, BatchOK, TruthIsOlder, FilesAgree, NotYetReported, FixtureIsSealed, FilesOK
<1>18. CASE UNCHANGED <<pc, left, batches, files, results, passed>>
  BY <1>18 DEF IInv, BatchOK, TruthIsOlder, FilesAgree, NotYetReported, FixtureIsSealed, FilesOK
<1> QED
  BY <1>1, <1>2, <1>3, <1>4, <1>5, <1>6, <1>7, <1>8, <1>9, <1>10, <1>11, <1>12, <1>13, <1>14,
     <1>15, <1>16, <1>17, <1>18
  DEF Next, BatchStep, vars, Post, SetVariant, set_targeting_true_variant, GoLive

(* The state of the recording is well typed, TypeOK, in every reachable      *)
(* state.                                                                    *)
THEOREM TypeCorrect == Spec => []TypeOK
<1>1. IInv /\ [Next]_vars => IInv'
  BY SealedStep
<1>2. IInv => TypeOK
  BY DEF IInv
<1> QED BY SealedInit, <1>1, <1>2, PTL DEF Spec

(* FixtureIsSealed: the truth never lies beside public files of the same     *)
(* recording that leak it, and what is reported as passed are two halves of  *)
(* one recording, whatever failed or died between the writes                 *)
(* (writer.py:43-64).                                                        *)
THEOREM FixturesAreSealed == Spec => []FixtureIsSealed
<1>1. IInv /\ [Next]_vars => IInv'
  BY SealedStep
<1>2. IInv => FixtureIsSealed
  BY DEF IInv
<1> QED BY SealedInit, <1>1, <1>2, PTL DEF Spec
-----------------------------------------------------------------------------
(* That the lab is left as it was found rests on where a rule may come from: *)
(* as long as nobody has gone live, neither the document nor what the        *)
(* recorder saved of it is open.                                             *)
NeverOpened ==
  incident.at = "none" /\ marred \cap {"incident", "patch"} = {}
    => doc.rule # "open" /\ saved # "open"

LEMMA LeftInit == Init => NeverOpened /\ LabIsLeftAsFound
<1> SUFFICES ASSUME Init PROVE NeverOpened /\ LabIsLeftAsFound
  OBVIOUS
<1>1. /\ doc.rule = "gate" /\ saved = "none"
      /\ \A f \in Scenarios : doc.variant[f] = "off"
  BY DEF Init
<1>2. ActiveIn(doc) = {}
  BY <1>1 DEF ActiveIn
<1> QED BY <1>1, <1>2 DEF NeverOpened, LabIsLeftAsFound, FaultIsTakenBack, RuleIsRestored

(* What the updates do to the rule and to the faults that are active.       *)
LEMMA Updates ==
  ASSUME doc \in Docs
  PROVE  /\ reset_all_flags(doc).rule = doc.rule
         /\ \A f : set_flag_variant(doc, f).rule = doc.rule
         /\ \A rule : WithRule(doc, rule).rule = rule
         /\ doc.rule # "open" => ActiveIn(reset_all_flags(doc)) = {}
         /\ \A rule : rule # "open" => ActiveIn(WithRule(doc, rule)) \subseteq ActiveIn(doc)
BY RecordingAssumption DEF Docs, Rules, reset_all_flags, set_flag_variant, WithRule, ActiveIn

Kept == NeverOpened /\ LabIsLeftAsFound

(* Where a fault may be active, and where the rule may be away.             *)
Faulty  == Tried \cup {"soak", "reset"}
Ruleless == Tried \cup Untried \cup {"reset", "restore"}

(* A step that leaves the document alone, within the points where a fault   *)
(* may be active and the rule away.                                         *)
LEMMA StrollStep ==
  ASSUME Kept, UNCHANGED <<doc, saved, incident, left>>, marred \subseteq marred',
         pc \in Faulty => pc' \in Faulty,
         pc \in Ruleless => pc' \in Ruleless
  PROVE  Kept'
BY DEF Kept, NeverOpened, LabIsLeftAsFound, FaultIsTakenBack, RuleIsRestored, Faulty, Ruleless,
       Scenario, ActiveIn

(* Once somebody may have gone live, only the rule is spoken of.            *)
LEMMA LiveStep ==
  ASSUME Kept, UNCHANGED <<pc, saved, left>>, marred \subseteq marred',
         doc'.rule \in {doc.rule, "open"},
         incident'.at # "none" \/ marred' \cap {"incident", "patch"} # {}
  PROVE  Kept'
BY DEF Kept, NeverOpened, LabIsLeftAsFound, FaultIsTakenBack, RuleIsRestored, Scenario

LEMMA KeptStep ==
  ASSUME IInv, Kept, [Next]_vars
  PROVE  Kept'
<1>0. /\ doc \in Docs /\ left \in Seq(Scenarios)
      /\ incident \in [at : {"none", "set", "patch", "truth", "live"}, flag : Scenarios]
  BY DEF IInv, TypeOK, Docs
<1> USE <1>0, Updates DEF Goes, Raise, Unwinds, Works, Fails, Mishap, batch, locals, window, output
<1>1. CASE Begin
  <2>1. doc.rule # "none" \/ marred \cap {"remove", "restore", "death"} # {}
    BY <1>1 DEF Begin, Kept, LabIsLeftAsFound, RuleIsRestored, Tried, Untried
  <2>2. UNCHANGED <<doc, saved, incident, marred>> /\ pc = "idle" /\ pc' = "preflight"
    BY <1>1 DEF Begin
  <2> QED BY <2>1, <2>2 DEF Kept, NeverOpened, LabIsLeftAsFound, FaultIsTakenBack, RuleIsRestored,
                           Tried, Untried, ActiveIn
<1>2. CASE Preflight
  <2>1. doc.rule # "none" \/ marred \cap {"remove", "restore", "death"} # {}
    BY <1>2 DEF Preflight, Kept, LabIsLeftAsFound, RuleIsRestored, Tried, Untried
  <2>2. UNCHANGED <<doc, saved, incident, marred>> /\ pc = "preflight" /\ pc' \in {"idle", "remove"}
    BY <1>2 DEF Preflight
  <2> QED BY <2>1, <2>2 DEF Kept, NeverOpened, LabIsLeftAsFound, FaultIsTakenBack, RuleIsRestored,
                           Tried, Untried, ActiveIn
<1>3. CASE RemoveRule
  <2>1. pc = "remove" /\ pc' \in {"start", "report"} /\ UNCHANGED <<left, incident>>
    BY <1>3 DEF RemoveRule, Tried
  <2>2. doc.rule # "none" \/ marred \cap {"remove", "restore", "death"} # {}
    BY <2>1 DEF Kept, LabIsLeftAsFound, RuleIsRestored, Tried, Untried
  <2>3. marred \subseteq marred' /\ doc' \in {doc, WithRule(doc, "none")}
    BY <1>3 DEF RemoveRule
  <2>4. ActiveIn(doc') \subseteq ActiveIn(doc)
    BY <2>3
  <2>5. FaultIsTakenBack'
    BY <2>1, <2>3, <2>4 DEF Kept, LabIsLeftAsFound, FaultIsTakenBack, Tried
  <2>6. doc'.rule \in {doc.rule, "none"} /\ saved' \in {saved, doc.rule}
    BY <1>3, <2>3 DEF RemoveRule
  <2>7. NeverOpened'
    BY <2>1, <2>3, <2>6 DEF Kept, NeverOpened
  <2>8. \/ "remove" \in marred'
        \/ doc'.rule # "none"
        \/ marred \cap {"remove", "restore", "death"} # {}
        \/ pc' = "start" /\ Scenario' = Gated /\ saved' # "none"
    <3>1. CASE Scenario = Gated /\ doc.rule # "none"
      BY <1>3, <2>1, <3>1 DEF RemoveRule, Scenario
    <3>2. CASE ~(Scenario = Gated /\ doc.rule # "none")
      BY <1>3, <2>2, <3>2 DEF RemoveRule
    <3> QED BY <3>1, <3>2
  <2>9. RuleIsRestored'
    BY <2>3, <2>8 DEF RuleIsRestored, Untried
  <2> QED BY <2>5, <2>7, <2>9 DEF Kept, LabIsLeftAsFound
<1>4. CASE Start
  BY <1>4 DEF Start, Kept, NeverOpened, LabIsLeftAsFound, FaultIsTakenBack, RuleIsRestored, Tried, Untried, Scenario
<1>5. CASE OpenWindow
  BY <1>5, StrollStep DEF OpenWindow, Faulty, Ruleless, Tried, Untried
<1>6. CASE Inject
  BY <1>6 DEF Inject, Kept, NeverOpened, LabIsLeftAsFound, FaultIsTakenBack, RuleIsRestored, Tried, Untried, Scenario
<1>7. CASE Soak
  BY <1>7, StrollStep DEF Soak, Faulty, Ruleless, Tried, Untried
<1>8. CASE Collect
  BY <1>8, StrollStep DEF Collect, Faulty, Ruleless, Tried, Untried
<1>9. CASE WritePublic
  BY <1>9, StrollStep DEF WritePublic, Faulty, Ruleless, Tried, Untried
<1>10. CASE AssertSealed
  BY <1>10, StrollStep DEF AssertSealed, Faulty, Ruleless, Tried, Untried
<1>11. CASE WriteTruth
  BY <1>11, StrollStep DEF WriteTruth, Faulty, Ruleless, Tried, Untried
<1>12. CASE Validate
  BY <1>12, StrollStep DEF Validate, Faulty, Ruleless, Tried, Untried
<1>13. CASE FinalReset
  BY <1>13 DEF FinalReset, Kept, NeverOpened, LabIsLeftAsFound, FaultIsTakenBack, RuleIsRestored, Tried, Untried, Scenario
<1>14. CASE RestoreRule
  BY <1>14 DEF RestoreRule, Kept, NeverOpened, LabIsLeftAsFound, FaultIsTakenBack, RuleIsRestored, Tried, Untried
<1>15. CASE Report
  BY <1>15 DEF Report, Kept, NeverOpened, LabIsLeftAsFound, FaultIsTakenBack, RuleIsRestored, Tried, Untried, ActiveIn
<1>16. CASE Interrupt
  BY <1>16 DEF Interrupt, Kept, NeverOpened, LabIsLeftAsFound, FaultIsTakenBack, RuleIsRestored, Tried, Untried, ActiveIn, Scenario
<1>17. CASE Die
  BY <1>17 DEF Die, Kept, NeverOpened, LabIsLeftAsFound, FaultIsTakenBack, RuleIsRestored
<1>18. CASE \E f \in Scenarios : Post(f)
  BY <1>18, LiveStep DEF Post
<1>19. CASE SetVariant
  BY <1>19, LiveStep DEF SetVariant, IncidentGoes
<1>20. CASE set_targeting_true_variant
  <2>1. doc'.rule \in {doc.rule, "open"}
    BY <1>20 DEF set_targeting_true_variant, Docs
  <2>2. /\ UNCHANGED <<pc, saved, left>> /\ marred \subseteq marred'
        /\ incident'.at # "none" \/ marred' \cap {"incident", "patch"} # {}
    BY <1>20 DEF set_targeting_true_variant, IncidentGoes
  <2> QED BY <2>1, <2>2, LiveStep
<1>21. CASE GoLive
  BY <1>21, LiveStep DEF GoLive, IncidentGoes
<1>22. CASE UNCHANGED vars
  BY <1>22, StrollStep DEF vars
<1> QED
  BY <1>1, <1>2, <1>3, <1>4, <1>5, <1>6, <1>7, <1>8, <1>9, <1>10, <1>11, <1>12, <1>13, <1>14,
     <1>15, <1>16, <1>17, <1>18, <1>19, <1>20, <1>21, <1>22 DEF Next, BatchStep

(* LabIsLeftAsFound: a fault that a recording injected is taken back, and    *)
(* the rule of the gated flag put back, however the recording ends, but for  *)
(* the mishaps the properties name (workflow.py:362-379,                     *)
(* record_active_set.py:61-75).                                              *)
THEOREM LabIsLeft == Spec => []LabIsLeftAsFound
<1> DEFINE Inv == IInv /\ Kept
<1>1. Init => Inv
  BY SealedInit, LeftInit DEF Kept
<1>2. Inv /\ [Next]_vars => Inv'
  BY SealedStep, KeptStep
<1>3. Inv => LabIsLeftAsFound
  BY DEF Kept
<1> QED BY <1>1, <1>2, <1>3, PTL DEF Spec
-----------------------------------------------------------------------------
(* That a fixture tells the truth rests on what the document is in the two   *)
(* parts of a window: every flag off, then the scenario's alone on, with     *)
(* the gate away when the scenario is the gated one. An open rule is the     *)
(* one thing the reset leaves, and somebody opened it.                       *)
Residue(s) == IF s # Gated /\ Opened THEN {Gated} ELSE {}

Tells(s, clean, faulty) == clean \subseteq Residue(s) /\ faulty = {s} \cup clean

PublicTells(s) == Tells(s, files[s].public.before, files[s].public.since)

(* The waits of a window, and the points where its files are complete.      *)
Quiet    == {"warmup", "baseline"}
Prepared == {"start", "warmup", "baseline", "soak"}
Written  == {"assert", "truth", "validate"}
Ending   == {"reset", "restore", "report"}

(* No batch runs beside an incident that is being set up, and the rule      *)
(* opened for one is that of the gated flag.                                *)
Alone ==
  /\ pc # "idle" => incident.at \in {"none", "live"}
  /\ incident.at = "patch" => incident.flag = Gated

WasOpened == doc.rule = "open" \/ saved = "open" => Opened

DocumentIsSet ==
  /\ pc \in Prepared /\ Scenario = Gated => doc.rule = "none"
  /\ pc \in Quiet => \A f \in Scenarios : doc.variant[f] = "off"
  /\ pc = "soak" => \A f \in Scenarios : doc.variant[f] = IF f = Scenario THEN "on" ELSE "off"

WindowTells ==
  /\ pc \in {"baseline", "soak"} => before = IF doc.rule = "open" THEN {Gated} ELSE {}
  /\ pc \in {"collect", "public"} => Tells(Scenario, before, since)
  /\ pc \in Written \/ (pc \in Ending /\ passed) => PublicTells(Scenario)

Reports == \A s \in Scenarios : results[s] = "passed" => PublicTells(s)

WindowIsClean == Alone /\ WasOpened /\ DocumentIsSet /\ WindowTells /\ Reports

LEMMA CleanInit == Init => WindowIsClean
BY DEF Init, WindowIsClean, Alone, WasOpened, DocumentIsSet, WindowTells, Reports,
       Prepared, Quiet, Written, Ending

(* A rule that somebody opened stays so, and so does what it explains.      *)
LEMMA OpenedStays ==
  ASSUME IInv, [Next]_vars
  PROVE  (Opened => Opened') /\ \A s, b, d : Tells(s, b, d) => Tells(s, b, d)'
<1>1. marred \subseteq marred'
  BY DEF Next, BatchStep, vars, Begin, Preflight, RemoveRule, Start, OpenWindow, Inject, Soak,
     Collect, WritePublic, AssertSealed, WriteTruth, Validate, FinalReset, RestoreRule, Report,
     Interrupt, Die, Post, SetVariant, set_targeting_true_variant, GoLive, Works, Fails, Mishap
<1>2. \/ incident' = incident
      \/ incident.at \in {"none", "set", "patch"}
      \/ incident.at = "truth" /\ incident' = [incident EXCEPT !.at = "live"]
  BY DEF Next, BatchStep, vars, Begin, Preflight, RemoveRule, Start, OpenWindow, Inject, Soak,
     Collect, WritePublic, AssertSealed, WriteTruth, Validate, FinalReset, RestoreRule, Report,
     Interrupt, Die, Post, SetVariant, set_targeting_true_variant, GoLive, IncidentGoes
<1>3. incident \in [at : {"none", "set", "patch", "truth", "live"}, flag : Scenarios]
  BY DEF IInv, TypeOK
<1>4. Opened => Opened'
  BY <1>1, <1>2, <1>3 DEF Opened
<1> QED
  BY <1>4 DEF Tells, Residue

(* The faults that show when every flag is off, and when one is on.         *)
LEMMA QuietShows ==
  ASSUME doc \in Docs, \A f \in Scenarios : doc.variant[f] = "off"
  PROVE  ActiveIn(doc) = IF doc.rule = "open" THEN {Gated} ELSE {}
BY RecordingAssumption DEF ActiveIn, Docs, Rules

LEMMA FaultShows ==
  ASSUME doc \in Docs, NEW s \in Scenarios, s = Gated => doc.rule = "none",
         \A f \in Scenarios : doc.variant[f] = IF f = s THEN "on" ELSE "off"
  PROVE  ActiveIn(doc) = {s} \cup (IF doc.rule = "open" THEN {Gated} ELSE {})
BY RecordingAssumption DEF ActiveIn, Docs, Rules

LEMMA CleanStep ==
  ASSUME IInv, WindowIsClean, [Next]_vars
  PROVE  WindowIsClean'
<1>0. /\ doc \in Docs /\ left \in Seq(Scenarios)
      /\ incident \in [at : {"none", "set", "patch", "truth", "live"}, flag : Scenarios]
      /\ results \in [Scenarios -> {"none", "passed", "failed"}]
  BY DEF IInv, TypeOK, Docs
<1>a. pc # "idle" => Len(left) > 0 /\ Scenario \in Scenarios
  BY <1>0 DEF IInv, BatchOK, Scenario
<1>b. Opened => Opened'
  BY OpenedStays
<1>c. \A s, b, d : Tells(s, b, d) => Tells(s, b, d)'
  BY OpenedStays
<1> USE <1>0, <1>a, Updates DEF Goes, Raise, Unwinds, Works, Fails, Mishap,
        Quiet, Prepared, Written, Ending, Tried, Untried, batch, locals, window, output
<1>d. ASSUME UNCHANGED <<files, results>>  PROVE Reports'
  BY <1>c, <1>d DEF WindowIsClean, Reports, PublicTells
<1>e. ASSUME UNCHANGED incident, pc = "idle" => pc' = "idle"  PROVE Alone'
  BY <1>e DEF WindowIsClean, Alone
<1>f. ASSUME UNCHANGED <<doc, saved>>  PROVE WasOpened'
  BY <1>b, <1>f DEF WindowIsClean, WasOpened
<1>g. ASSUME UNCHANGED <<doc, left>>,
             pc' \in Prepared => pc \in Prepared,
             pc' \in Quiet => pc \in Quiet, pc' = "soak" => pc = "soak"
      PROVE  DocumentIsSet'
  BY <1>g DEF WindowIsClean, DocumentIsSet, Scenario
<1>h. ASSUME UNCHANGED <<left, files, before, since>>,
             pc' \in {"baseline", "soak"} => pc \in {"baseline", "soak"} /\ doc'.rule = doc.rule,
             pc' \in {"collect", "public"} => pc \in {"collect", "public"},
             pc' \in Written => pc \in Written,
             pc' \in Ending /\ passed' => pc \in Written \cup Ending /\ (pc \in Written \/ passed)
      PROVE  WindowTells'
  BY <1>c, <1>h DEF WindowIsClean, WindowTells, Scenario, PublicTells
<1>1. CASE Begin
  <2>1. /\ pc = "idle" /\ pc' = "preflight" /\ incident.at \in {"none", "live"}
        /\ UNCHANGED <<doc, saved, incident>>
        /\ results' = [s \in Scenarios |-> "none"]
    BY <1>1 DEF Begin
  <2> QED BY <2>1, <1>f DEF WindowIsClean, Alone, DocumentIsSet, WindowTells, Reports
<1>2. CASE Preflight
  BY <1>2, <1>d, <1>e, <1>f DEF Preflight, WindowIsClean, DocumentIsSet, WindowTells
<1>3. CASE RemoveRule
  <2>1. /\ pc = "remove" /\ pc' \in {"start", "report"}
        /\ UNCHANGED <<left, before, since, files, results, incident>>
        /\ doc' \in {doc, WithRule(doc, "none")} /\ saved' \in {saved, doc.rule}
        /\ pc' = "report" => ~passed'
    BY <1>3 DEF RemoveRule
  <2>2. pc' = "start" /\ Scenario = Gated => doc'.rule = "none"
    BY <1>3 DEF RemoveRule
  <2>3. WasOpened'
    BY <2>1, <1>b DEF WindowIsClean, WasOpened
  <2>4. DocumentIsSet'
    BY <2>1, <2>2 DEF DocumentIsSet, Scenario
  <2>5. WindowTells'
    BY <2>1 DEF WindowTells
  <2> QED BY <2>1, <2>3, <2>4, <2>5, <1>d, <1>e DEF WindowIsClean
<1>4. CASE Start
  <2>1. /\ pc = "start" /\ pc' \in {"warmup", "restore"}
        /\ UNCHANGED <<left, saved, before, since, files, results, incident>>
        /\ doc' \in {doc, reset_all_flags(doc)}
        /\ pc' = "warmup" => doc' = reset_all_flags(doc)
        /\ pc' = "restore" => ~passed'
    BY <1>4 DEF Start
  <2>2. doc'.rule = doc.rule
    BY <2>1
  <2>3. WasOpened'
    BY <2>1, <2>2, <1>b DEF WindowIsClean, WasOpened
  <2>4. DocumentIsSet'
    BY <2>1, <2>2 DEF WindowIsClean, DocumentIsSet, Scenario, reset_all_flags, Docs
  <2>5. WindowTells'
    BY <2>1 DEF WindowTells
  <2> QED BY <2>1, <2>3, <2>4, <2>5, <1>d, <1>e DEF WindowIsClean
<1>5. CASE OpenWindow
  <2>1. /\ pc = "warmup" /\ pc' = "baseline" /\ before' = ActiveIn(doc)
        /\ UNCHANGED <<doc, saved, left, files, results, incident>>
    BY <1>5 DEF OpenWindow
  <2>2. before' = IF doc.rule = "open" THEN {Gated} ELSE {}
    BY <2>1, QuietShows DEF WindowIsClean, DocumentIsSet
  <2>3. WindowTells'
    BY <2>1, <2>2 DEF WindowTells
  <2> QED BY <2>1, <2>3, <1>d, <1>e, <1>f, <1>g DEF WindowIsClean
<1>6. CASE Inject
  <2>1. /\ pc = "baseline" /\ pc' \in {"soak", "restore"}
        /\ UNCHANGED <<left, saved, before, since, files, results, incident>>
        /\ doc' \in {doc, set_flag_variant(doc, Scenario)}
        /\ pc' = "soak" => doc' = set_flag_variant(doc, Scenario)
        /\ pc' = "restore" => ~passed'
    BY <1>6 DEF Inject
  <2>2. doc'.rule = doc.rule
    BY <2>1
  <2>3. WasOpened'
    BY <2>1, <2>2, <1>b DEF WindowIsClean, WasOpened
  <2>4. DocumentIsSet'
    BY <2>1, <2>2 DEF WindowIsClean, DocumentIsSet, Scenario, set_flag_variant, Docs
  <2>5. WindowTells'
    BY <2>1, <2>2 DEF WindowIsClean, WindowTells
  <2> QED BY <2>1, <2>3, <2>4, <2>5, <1>d, <1>e DEF WindowIsClean
<1>7. CASE Soak
  <2>1. /\ pc = "soak" /\ pc' = "collect" /\ since' = ActiveIn(doc)
        /\ UNCHANGED <<doc, saved, left, before, files, results, incident>>
    BY <1>7 DEF Soak
  <2>2. /\ before = IF doc.rule = "open" THEN {Gated} ELSE {}
        /\ since' = {Scenario} \cup before
    BY <2>1, FaultShows DEF WindowIsClean, DocumentIsSet, WindowTells
  <2>3. Tells(Scenario, before, since')
    BY <2>1, <2>2 DEF WindowIsClean, DocumentIsSet, WasOpened, Tells, Residue
  <2>4. WindowTells'
    BY <2>1, <2>3, <1>b DEF WindowTells, Tells, Residue, Scenario
  <2> QED BY <2>1, <2>4, <1>d, <1>e, <1>f, <1>g DEF WindowIsClean
<1>8. CASE Collect
  BY <1>8, <1>d, <1>e, <1>f, <1>g, <1>h DEF Collect, WindowIsClean
<1>9. CASE WritePublic
  <2>1. /\ pc = "public" /\ pc' = "assert" /\ Scenario \in Scenarios
        /\ UNCHANGED <<doc, saved, left, before, since, results, incident>>
    BY <1>9 DEF WritePublic
  <2>2. PICK leak \in BOOLEAN :
          files' = [files EXCEPT ![Scenario].public =
                      [run |-> batches, before |-> before, since |-> since, leak |-> leak]]
    BY <1>9 DEF WritePublic
  <2>3. /\ files'[Scenario].public.before = before /\ files'[Scenario].public.since = since
        /\ \A s \in Scenarios \ {Scenario} : files'[s].public = files[s].public
    BY <2>1, <2>2 DEF IInv, FilesOK
  <2>4. Tells(Scenario, before, since)'
    BY <2>1, <1>c DEF WindowIsClean, WindowTells, Scenario
  <2>5. WindowTells'
    BY <2>1, <2>3, <2>4 DEF WindowTells, PublicTells, Scenario
  <2>6. results[Scenario] # "passed"
    BY <2>1 DEF IInv, NotYetReported, Scenario
  <2>7. Reports'
    BY <2>1, <2>3, <2>6, <1>c DEF WindowIsClean, Reports, PublicTells
  <2> QED BY <2>1, <2>5, <2>7, <1>e, <1>f, <1>g DEF WindowIsClean
<1>10. CASE AssertSealed
  BY <1>10, <1>d, <1>e, <1>f, <1>g, <1>h DEF AssertSealed, WindowIsClean
<1>11. CASE WriteTruth
  <2>1. /\ pc = "truth" /\ pc' = "validate" /\ Scenario \in Scenarios
        /\ UNCHANGED <<doc, saved, left, before, since, results, incident>>
        /\ files' = [files EXCEPT ![Scenario].truth = batches]
    BY <1>11 DEF WriteTruth
  <2>2. \A s \in Scenarios : files'[s].public = files[s].public
    BY <2>1 DEF IInv, FilesOK
  <2>3. \A s \in Scenarios : PublicTells(s) => PublicTells(s)'
    BY <2>2, <1>c DEF PublicTells
  <2>4. WindowTells'
    BY <2>1, <2>3 DEF WindowIsClean, WindowTells, Scenario
  <2>5. Reports'
    BY <2>1, <2>3 DEF WindowIsClean, Reports
  <2> QED BY <2>1, <2>4, <2>5, <1>e, <1>f, <1>g DEF WindowIsClean
<1>12. CASE Validate
  BY <1>12, <1>d, <1>e, <1>f, <1>g, <1>h DEF Validate, WindowIsClean
<1>13. CASE FinalReset
  <2>1. /\ pc = "reset" /\ pc' = "restore"
        /\ UNCHANGED <<left, saved, before, since, files, results, incident>>
        /\ doc'.rule = doc.rule /\ (passed' => passed)
    BY <1>13 DEF FinalReset
  <2>2. WasOpened'
    BY <2>1, <1>b DEF WindowIsClean, WasOpened
  <2>3. DocumentIsSet'
    BY <2>1 DEF DocumentIsSet
  <2>4. WindowTells'
    BY <2>1, <1>h
  <2> QED BY <2>1, <2>2, <2>3, <2>4, <1>d, <1>e DEF WindowIsClean
<1>14. CASE RestoreRule
  <2>1. /\ pc = "restore" /\ pc' = "report" /\ saved' = "none"
        /\ UNCHANGED <<left, before, since, files, results, incident>>
        /\ doc' \in {doc, WithRule(doc, saved)} /\ (passed' => passed)
    BY <1>14 DEF RestoreRule
  <2>2. WasOpened'
    BY <2>1, <1>b DEF WindowIsClean, WasOpened
  <2>3. DocumentIsSet'
    BY <2>1 DEF DocumentIsSet
  <2>4. WindowTells'
    BY <2>1, <1>h
  <2> QED BY <2>1, <2>2, <2>3, <2>4, <1>d, <1>e DEF WindowIsClean
<1>15. CASE Report
  <2>1. /\ pc = "report" /\ pc' \in {"idle", "remove"} /\ Scenario \in Scenarios
        /\ UNCHANGED <<doc, saved, files, incident>>
        /\ results' = results \/ results' = Reported
    BY <1>15 DEF Report
  <2>2. \A s \in Scenarios : results'[s] = "passed" => results[s] = "passed" \/ (s = Scenario /\ passed)
    BY <2>1 DEF Reported
  <2>3. Reports'
    BY <2>1, <2>2, <1>c DEF WindowIsClean, WindowTells, Reports, PublicTells
  <2> QED BY <2>1, <2>3, <1>e, <1>f DEF WindowIsClean, DocumentIsSet, WindowTells
<1>16. CASE Interrupt
  BY <1>16, <1>d, <1>e, <1>f, <1>g, <1>h DEF Interrupt, WindowIsClean
<1>17. CASE Die
  <2>1. /\ pc' = "idle" /\ saved' = "none" /\ UNCHANGED <<doc, files, results, incident>>
    BY <1>17 DEF Die
  <2> QED BY <2>1, <1>b, <1>d DEF WindowIsClean, Alone, WasOpened, DocumentIsSet, WindowTells
<1>18. CASE \E f \in Scenarios : Post(f)
  <2>1. pc = "idle" /\ UNCHANGED <<doc, pc, saved, files, results>>
    BY <1>18 DEF Post
  <2>2. incident'.at = "set"
    BY <1>18 DEF Post
  <2> QED BY <2>1, <2>2, <1>d, <1>f DEF WindowIsClean, Alone, DocumentIsSet, WindowTells
<1>19. CASE SetVariant
  <2>1. /\ incident.at = "set" /\ UNCHANGED <<pc, saved, files, results>>
        /\ doc' \in {doc, set_flag_variant(doc, incident.flag)}
    BY <1>19 DEF SetVariant, IncidentGoes
  <2>2. pc = "idle"
    BY <2>1 DEF WindowIsClean, Alone
  <2>3. WasOpened'
    BY <2>1, <1>b DEF WindowIsClean, WasOpened
  <2>4. Alone'
    BY <1>19, <2>1, <2>2 DEF Alone, SetVariant, IncidentGoes
  <2> QED BY <2>1, <2>2, <2>3, <2>4, <1>d DEF WindowIsClean, Alone, DocumentIsSet, WindowTells
<1>20. CASE set_targeting_true_variant
  <2>1. /\ incident.at = "patch" /\ UNCHANGED <<pc, saved, files, results>>
        /\ doc' \in {doc, [doc EXCEPT !.rule = "open"]}
        /\ doc' = doc \/ "patch" \in marred' \/ incident' = [incident EXCEPT !.at = "truth"]
    BY <1>20 DEF set_targeting_true_variant, IncidentGoes
  <2>2. pc = "idle"
    BY <2>1 DEF WindowIsClean, Alone
  <2>3. WasOpened'
    BY <2>1, <1>b DEF WindowIsClean, Alone, WasOpened, Opened
  <2> QED BY <2>1, <2>2, <2>3, <1>d, <1>20
          DEF WindowIsClean, Alone, DocumentIsSet, WindowTells, set_targeting_true_variant, IncidentGoes
<1>21. CASE GoLive
  <2>1. incident.at = "truth" /\ UNCHANGED <<pc, doc, saved, files, results>>
    BY <1>21 DEF GoLive, IncidentGoes
  <2>2. pc = "idle"
    BY <2>1 DEF WindowIsClean, Alone
  <2>3. Alone'
    BY <1>21, <2>2 DEF Alone, GoLive, IncidentGoes
  <2> QED BY <2>1, <2>2, <2>3, <1>d, <1>f DEF WindowIsClean, DocumentIsSet, WindowTells
<1>22. CASE UNCHANGED vars
  BY <1>22, <1>d, <1>e, <1>f, <1>g, <1>h DEF vars, WindowIsClean
<1> QED
  BY <1>1, <1>2, <1>3, <1>4, <1>5, <1>6, <1>7, <1>8, <1>9, <1>10, <1>11, <1>12, <1>13, <1>14,
     <1>15, <1>16, <1>17, <1>18, <1>19, <1>20, <1>21, <1>22 DEF Next, BatchStep

(* FixtureTellsTruth: a fixture reported as passed shows a clean baseline    *)
(* and then its own fault alone, whatever failed, was interrupted or died    *)
(* before it, but for a rule that somebody opened                            *)
(* (workflow.py:342-379, flagd.py:71-82, live_incident.py:40-44).            *)
THEOREM FixturesTellTruth == Spec => []FixtureTellsTruth
<1> DEFINE Inv == IInv /\ WindowIsClean
<1>1. Init => Inv
  BY SealedInit, CleanInit
<1>2. Inv /\ [Next]_vars => Inv'
  BY SealedStep, CleanStep
<1>3. Inv => FixtureTellsTruth
  BY DEF WindowIsClean, Reports, PublicTells, Tells, Residue, FixtureTellsTruth
<1> QED BY <1>1, <1>2, <1>3, PTL DEF Spec
=============================================================================
