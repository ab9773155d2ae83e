----------------------------- MODULE Evaluation -----------------------------
(***************************************************************************)
(* What an investigation is worth: the graders of a report (tool_eval      *)
(* grader.py, rcaeval_grader.py), the sweep over the cases of a benchmark  *)
(* under a ceiling of cost (rcaeval.py) and the reliability of repeated    *)
(* runs (aggregate.py). Costs are in a unit that makes them integers.      *)
(***************************************************************************)
EXTENDS Integers, Sequences, FiniteSets, SequencesExt, FiniteSetsExt

(* A location is [class, caller, service], a service at fault or the edge   *)
(* from a caller to a service; truth has what the report has, and which     *)
(* services are accepted for the one at fault.                              *)
location_correct(blamed, truth) ==
  IF truth.at.class = "service"
  THEN \/ blamed.class = "service" /\ blamed.service \in truth.accepted
       \/ blamed.class = "edge" /\ {blamed.caller, blamed.service} \subseteq truth.accepted
  ELSE blamed.class = truth.at.class
       /\ blamed.caller = truth.at.caller /\ blamed.service = truth.at.service

grade(report, truth) ==
  [location |-> location_correct(report.at, truth),
   culprit  |-> report.culprit = truth.culprit,
   decoys   |-> truth.decoys \subseteq report.ruledOut,
   correct  |-> location_correct(report.at, truth) /\ report.culprit = truth.culprit]

(* Of a benchmark case only the service counts, whatever it is said to be.  *)
grade_localization(blamed, accepted) ==
  \/ blamed.service \in accepted
  \/ blamed.class = "edge" /\ {blamed.caller, blamed.service} \subseteq accepted
-----------------------------------------------------------------------------
(* run_sweep over cases [cost, raises, hit, fault], the books being what is *)
(* written to the scorecard. A case that raises is skipped, its cost lost.  *)
Unstarted(ceiling, books) == ceiling <= books.total

NoBooks == [graded |-> <<>>, skipped |-> <<>>, notRun |-> <<>>, total |-> 0]

Run(books, c, i) ==
  IF c.raises THEN [books EXCEPT !.skipped = Append(@, i)]
  ELSE [books EXCEPT !.graded = Append(@, i), !.total = @ + c.cost]

run_sweep(cases, ceiling) ==
  FoldLeft(LAMBDA books, i :
             IF Unstarted(ceiling, books) THEN [books EXCEPT !.notRun = Append(@, i)]
             ELSE Run(books, cases[i], i),
           NoBooks, [i \in DOMAIN cases |-> i])

(* aggregate_scorecard: hits and cases, of all and by fault. *)
aggregate_scorecard(cases, graded) ==
  LET of(F) == {i \in Range(graded) : cases[i].fault \in F}
      cell(F) == [n |-> Cardinality(of(F)), hits |-> Cardinality({i \in of(F) : cases[i].hit})]
      faults == {cases[i].fault : i \in Range(graded)}
  IN  [overall |-> cell(faults), byFault |-> [f \in faults |-> cell({f})]]
-----------------------------------------------------------------------------
(* aggregate of repeated runs: of each scenario the runs that passed.       *)
aggregate(runs) ==
  LET passes(s) == Cardinality({i \in DOMAIN runs[s] : runs[s][i]})
      all == {s \in DOMAIN runs : Len(runs[s]) > 0 /\ passes(s) = Len(runs[s])}
      any == {s \in DOMAIN runs : passes(s) > 0}
  IN  [scenarios |-> Cardinality(DOMAIN runs),
       runs |-> MapThenSumSet(LAMBDA s : Len(runs[s]), DOMAIN runs),
       passes |-> MapThenSumSet(passes, DOMAIN runs),
       passHatK |-> Cardinality(all), passAtK |-> Cardinality(any)]
-----------------------------------------------------------------------------
Case == [cost : 1..2, raises : BOOLEAN, hit : BOOLEAN, fault : {"cpu", "loss"}]

Sweeps == {[what |-> "sweep", cases |-> c, ceiling |-> n] :
             c \in UNION {[1..k -> Case] : k \in 0..3}, n \in {1, 2, 3, 9}}
Repeats == UNION {{[what |-> "repeats", runs |-> r] : r \in [1..k -> [1..n -> BOOLEAN]]} :
                    k \in 1..3, n \in 1..3}

(* Every case is in the books once and in order; none is begun at the        *)
(* ceiling, so that what is booked exceeds it by less than a case costs; and *)
(* more than the books say is spent only on cases that raised               *)
(* (rcaeval.py:47-67, 112-148).                                              *)
SweepIsBooked(cases, ceiling) ==
  LET books == run_sweep(cases, ceiling)
      card == aggregate_scorecard(cases, books.graded)
      begun == Range(books.graded) \cup Range(books.skipped)
      spent == MapThenSumSet(LAMBDA i : cases[i].cost, begun)
      lastCost == IF books.graded = <<>> THEN 0 ELSE cases[Last(books.graded)].cost
  IN  /\ begun = 1..Cardinality(begun)
      /\ Range(books.notRun) = DOMAIN cases \ begun
      /\ Len(books.graded) + Len(books.skipped) + Len(books.notRun) = Len(cases)
      /\ books.total - lastCost < ceiling
      /\ books.notRun # <<>> => books.total >= ceiling
      /\ spent = books.total + MapThenSumSet(LAMBDA i : cases[i].cost, Range(books.skipped))
      /\ card.overall.n = Len(books.graded)
      /\ card.overall.hits = MapThenSumSet(LAMBDA f : card.byFault[f].hits, DOMAIN card.byFault)
      /\ card.overall.n = MapThenSumSet(LAMBDA f : card.byFault[f].n, DOMAIN card.byFault)

(* Solved every time is rarer than solved at all, and one run is solved as   *)
(* often as something in between (aggregate.py:49-63).                       *)
RatesAreOrdered(runs) ==
  LET report == aggregate(runs)
  IN  /\ report.passHatK * report.runs <= report.passes * report.scenarios
      /\ report.passes * report.scenarios <= report.passAtK * report.runs
=============================================================================
