-------------------------------- MODULE Quality --------------------------------
(***************************************************************************)
(* Whether a recorded incident is fit for use: the alerts derived from the *)
(* rules over it (labs/otel/alerting/evaluator.py), the coverage of the    *)
(* scenarios by alerts (coverage.py), the gates a fixture must pass        *)
(* (labs/otel/validator.py), and the fingerprint by which scenarios are    *)
(* compared (labs/otel/fingerprint.py).                                    *)
(*                                                                         *)
(* A metric row is a record of service, family, time and value; the fault  *)
(* is injected at second InjectedAt. Error rates are in twentieths, CPU in *)
(* cores, latencies in any unit.                                           *)
(***************************************************************************)
EXTENDS SeriesTools

InjectedAt == 3

BeforeFault(rows) == {r \in rows : r.time < InjectedAt}
SinceFault(rows)  == {r \in rows : r.time >= InjectedAt}
Amount(rows)  == MapThenSumSet(LAMBDA r : r.value, rows)
Named(rows, services, family) == {r \in rows : r.service \in services /\ r.family = family}

(* The mean since the fault against the mean before it: by a difference, or  *)
(* by a ratio num / den. Without rows on both sides there is none.           *)
_post_minus_pre(rows, least) ==
  LET pre == BeforeFault(rows)   post == SinceFault(rows)
  IN  /\ pre # {} /\ post # {}
      /\ Amount(post) * Cardinality(pre) - Amount(pre) * Cardinality(post)
           >= least * Cardinality(pre) * Cardinality(post)

_post_over_pre(rows, num, den) ==
  LET pre == BeforeFault(rows)   post == SinceFault(rows)
  IN  /\ pre # {} /\ post # {} /\ Amount(pre) > 0
      /\ den * Amount(post) * Cardinality(pre) >= num * Amount(pre) * Cardinality(post)
-----------------------------------------------------------------------------
(* What the gates find wrong with a fixture: the metrics of all services at  *)
(* fault are taken together; `seen` are the services and seconds of its log  *)
(* and trace rows, `scant` which of the two are fewer than the minimum.      *)
ImpactOf(f) ==
  \/ _post_minus_pre(Named(f.rows, f.targets, "error"), 1)
  \/ _post_over_pre(Named(f.rows, f.targets, "latency"), 3, 2)
  \/ _post_minus_pre(Named(f.rows, f.targets, "cpu"), 1)

_validate_signal_quality(f) ==
  LET target == {r \in f.rows : r.service \in f.targets /\ r.family \in {"error", "latency", "cpu"}}
      noise == BeforeFault(Named(f.rows, f.targets, "error"))
      is(p, complaint) == IF p THEN {complaint} ELSE {}
  IN  f.scant
      \cup is(SinceFault(target) = {}, "no metric since")
      \cup is(noise # {} /\ Amount(noise) > 2 * Cardinality(noise), "noisy before")
      \cup is(~ImpactOf(f), "no impact")
      \cup is(~\E p \in f.seen : p[1] \in f.targets /\ p[2] >= InjectedAt, "no evidence since")

(* A decoy must be a change of the fixture and not the culprit under         *)
(* another heading; "identical" compares all fields, the id among them.      *)
_validate_decoys(changes, truth) ==
  LET found(id) == {c \in changes : c.id = id}
      culprit == found(truth.culprit)
      is(p, complaint) == IF p THEN {complaint} ELSE {}
  IN  IF truth.decoys = {} THEN {"no decoys"}
      ELSE is(culprit = {}, "no culprit")
           \cup UNION {IF found(d) = {} THEN {"no decoy"}
                       ELSE is(d = truth.culprit, "duplicates") \cup is(found(d) = culprit, "identical") :
                         d \in truth.decoys}
-----------------------------------------------------------------------------
(* fingerprint_fixture: the services whose own means moved, the first of     *)
(* them to show a value off its mean before, and the services by their mean  *)
(* since.                                                                    *)
ServicesOf(rows) == {r.service : r \in rows}

_impacted_services(rows) ==
  {s \in ServicesOf(rows) :
     \/ _post_minus_pre(Named(rows, {s}, "error"), 1)
     \/ _post_over_pre(Named(rows, {s}, "latency"), 3, 2)
     \/ _post_over_pre(Named(rows, {s}, "cpu"), 5, 4)}

_is_anomalous(row, baseline) ==
  LET n == Cardinality(baseline)   mean == Amount(baseline)
  IN  CASE row.family = "error"   -> n * row.value >= mean + n
        [] row.family = "latency" -> mean > 0 /\ 2 * n * row.value >= 3 * mean
        [] row.family = "cpu"     -> mean > 0 /\ 4 * n * row.value >= 5 * mean

_earliest_anomalous_service(rows) ==
  LET off == {r \in SinceFault(rows) :
                LET baseline == BeforeFault(Named(rows, {r.service}, r.family))
                IN  baseline # {} /\ _is_anomalous(r, baseline)}
      first == {r \in off : \A q \in off : r.time < q.time \/ (r.time = q.time /\ r.service <= q.service)}
  IN  IF off = {} THEN Nothing ELSE (CHOOSE r \in first : TRUE).service

_top_metric_services(rows, family) ==
  LET since(s) == SinceFault(Named(rows, {s}, family))
      above(s, t) == LET a == Amount(since(s)) * Cardinality(since(t))
                         b == Amount(since(t)) * Cardinality(since(s))
                     IN  a > b \/ (a = b /\ s < t)
  IN  SetToSortSeq({s \in ServicesOf(rows) : since(s) # {}}, above)

fingerprint(rows) ==
  [impacted |-> _impacted_services(rows),
   earliest |-> _earliest_anomalous_service(rows),
   top      |-> [family \in {"error", "latency"} |-> _top_metric_services(rows, family)]]
-----------------------------------------------------------------------------
(* derive_alerts: of the rules that fire, the most severe and then the       *)
(* earliest of each name; "none" stands for NoAlertFired. A rule has a name, *)
(* a severity and the points of its expression.                              *)
_SEVERITY_RANK(severity) == IF severity = "critical" THEN 0 ELSE 1

AlertBefore(a, b) ==
  LET i == _SEVERITY_RANK(a.severity)   j == _SEVERITY_RANK(b.severity)
  IN  \/ i < j
      \/ i = j /\ a.start < b.start
      \/ i = j /\ a.start = b.start /\ a.name < b.name

derive_alerts(rules, for) ==
  LET fires(r) == _first_continuous_breach(r.points, for)
      firings == {[name |-> r.name, severity |-> r.severity, start |-> fires(r)] :
                    r \in {q \in rules : fires(q) # Nothing}}
      kept == {a \in firings : ~\E b \in firings : b.name = a.name /\ AlertBefore(b, a)}
  IN  IF firings = {} THEN <<>> ELSE SetToSortSeq(kept, AlertBefore)

(* assert_coverage_invariants on the set of alerts that each scenario fires. *)
assert_coverage_invariants(matrix) ==
  LET scenarios == DOMAIN matrix
      fired == UNION {matrix[s] : s \in scenarios}
  IN  {"E1" : s \in {t \in scenarios : matrix[t] = {}}}
      \cup {"E2" : a \in {b \in fired : Cardinality({s \in scenarios : b \in matrix[s]}) < 2}}
      \cup {"E3" : s \in {t \in scenarios : Cardinality({u \in scenarios : matrix[u] = matrix[t]}) < 2}}
-----------------------------------------------------------------------------
(* Fixtures: one family of metrics of services 1 and 2 over four seconds,    *)
(* the first with any values, the second as the first or on its own.         *)
FixtureRows(family, one, two) ==
  {[service |-> 1, family |-> family, time |-> t, value |-> one[t]] : t \in 1..4}
  \cup {[service |-> 2, family |-> family, time |-> t, value |-> two[t]] : t \in 1..4}

Fixtures ==
  UNION {{[what |-> "fixture", rows |-> FixtureRows(family, one, two), targets |-> targets,
           seen |-> x[1], scant |-> x[2]] :
            family \in {"error", "latency", "cpu"},
            two \in {<<2, 2, 2, 2>>, <<2, 2, 6, 6>>, <<6, 4, 2, 0>>},
            targets \in {{1}, {1, 2}},
            x \in {<<{<<1, 4>>}, {}>>, <<{<<1, 2>>, <<3, 4>>}, {}>>, <<{<<1, 4>>}, {"logs"}>>}} :
          one \in [1..4 -> {0, 2, 4, 6}]}

(* The rules of rules.yaml, which share a name, and one more. *)
Breaches == {<<>>, <<[time |-> 1, value |-> "over"]>>,
             <<[time |-> 1, value |-> "under"], [time |-> 2, value |-> "over"]>>}
Rules == {[what |-> "rules",
           rules |-> {[name |-> 1, severity |-> "critical", points |-> p],
                      [name |-> 1, severity |-> s, points |-> q],
                      [name |-> 2, severity |-> "warning", points |-> r]}] :
            p \in Breaches, q \in Breaches, r \in Breaches, s \in {"critical", "warning"}}

Matrices == {[what |-> "matrix", matrix |-> m] : m \in [1..4 -> SUBSET (1..2)]}

Decoys == {[what |-> "decoys", changes |-> {[id |-> c, time |-> IF c = 3 THEN 2 ELSE 1] : c \in C},
            truth |-> [culprit |-> 1, decoys |-> D]] : C \in SUBSET (1..3), D \in SUBSET (1..4)}

QualityInit ==
  \/ series \in Fixtures \/ series \in Rules \/ series \in Matrices \/ series \in Decoys
-----------------------------------------------------------------------------
(* What passes the gates shows in the fingerprint, at a service at fault,    *)
(* and at a second; not so for one that was at nothing before, or whose CPU  *)
(* was above four cores, which the gate judges by the difference or with the *)
(* others and the fingerprint by its own ratio. Nothing passes of which only *)
(* others changed, and where the others are quiet the service at fault is    *)
(* first; it is topmost when it is above them (validator.py:158-220,         *)
(* fingerprint.py:30-134).                                                   *)
GatesAreSound(f) ==
  LET passes == _validate_signal_quality(f) = {}
      shown == fingerprint(f.rows)
      of(s) == {r \in f.rows : r.service = s}
      flat(s) == Cardinality({r.value : r \in of(s)}) = 1
      judged(s) == \A r \in of(s) : /\ r.family # "error" => Amount(BeforeFault(of(s))) > 0
                                    /\ r.family = "cpu" => Amount(BeforeFault(of(s))) <= 8
      above == \A r \in SinceFault(of(1)), q \in SinceFault(of(2)) : r.value > q.value
  IN  /\ passes /\ (\A s \in f.targets : judged(s)) => shown.impacted \cap f.targets # {}
      /\ shown.impacted # {} => shown.earliest # Nothing
      /\ f.targets = {1} /\ flat(1) => ~passes
      /\ f.targets = {1} /\ flat(2) /\ passes /\ judged(1) => shown.earliest = 1
      /\ above => \A family \in {"error", "latency"} :
                    Named(f.rows, {1}, family) # {} => Head(shown.top[family]) = 1

(* There is one alert for each name that fires, the most severe first, and   *)
(* it starts no later than any rule of its name and severity: with the rules *)
(* of the lab, at the first breach of any (evaluator.py:26-65).              *)
AlertsAreMerged(rules) ==
  LET alerts == derive_alerts(rules, 0)
      start(r) == _first_continuous_breach(r.points, 0)
      fired == {r \in rules : start(r) # Nothing}
  IN  /\ {a.name : a \in ToSet(alerts)} = {r.name : r \in fired}
      /\ \A i, j \in DOMAIN alerts : i # j => alerts[i].name # alerts[j].name
      /\ \A i, j \in DOMAIN alerts :
           i < j => _SEVERITY_RANK(alerts[i].severity) <= _SEVERITY_RANK(alerts[j].severity)
      /\ \A a \in ToSet(alerts), r \in fired :
           r.name = a.name => \/ a.severity = "critical" /\ r.severity = "warning"
                              \/ a.severity = r.severity /\ a.start <= start(r)

(* Of scenarios that are accepted none is told by the alerts it fires, which *)
(* the second test adds nothing to (coverage.py:27-54).                      *)
NoAlertTells(matrix) ==
  LET found == assert_coverage_invariants(matrix)
  IN  /\ found = {} => \A s \in DOMAIN matrix : \E t \in DOMAIN matrix \ {s} :
                         matrix[s] = matrix[t] /\ matrix[s] # {}
      /\ found # {"E2"}

(* Accepted decoys are there to be found, beside the culprit, and are not    *)
(* the culprit; that one be identical to it is never a complaint of its own  *)
(* (validator.py:126-147).                                                   *)
DecoysAreOthers(changes, truth) ==
  LET found == _validate_decoys(changes, truth)
  IN  /\ found = {} => /\ truth.decoys \cup {truth.culprit} \subseteq {c.id : c \in changes}
                       /\ truth.culprit \notin truth.decoys /\ truth.decoys # {}
      /\ "identical" \in found => "duplicates" \in found

(* Fixtures, alerts, firing sets and decoys that pass are fit for use.       *)
QualityIsSound ==
  /\ series.what = "fixture" => GatesAreSound(series)
  /\ series.what = "rules" => AlertsAreMerged(series.rules)
  /\ series.what = "matrix" => NoAlertTells(series.matrix)
  /\ series.what = "decoys" => DecoysAreOthers(series.changes, series.truth)
=============================================================================
