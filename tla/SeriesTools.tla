----------------------------- MODULE SeriesTools -----------------------------
(***************************************************************************)
(* What is computed from a series: the step of a metric at onset           *)
(* (sentinel/tools/stats.py), where it shifts (tools/metrics.py), silences *)
(* of a service (tools/traces.py), the agreed onset (tools/correlate.py),  *)
(* the alert a rule derives (labs/otel/alerting/evaluator.py) and the logs *)
(* that are recorded (labs/otel/workflow.py). Times are in seconds; values *)
(* are integers in a unit fine enough for the medians to be exact.         *)
(***************************************************************************)
EXTENDS Integers, Sequences, FiniteSets, SequencesExt, FiniteSetsExt

CONSTANTS Usual,        \* what the metric is when nothing happens
          Agreement,    \* within which two onsets agree
          Nothing       \* no answer

VARIABLE series         \* the series looked at, told apart by `what`

(* The floors of latency_p95_ms and memory_mb in tenths, rel in percent;    *)
(* Z_MIN in hundredths.                                                     *)
Floor == [latency |-> [eps |-> 20, abs |-> 150, rel |-> 15],
          memory  |-> [eps |-> 50, abs |-> 200, rel |-> 10]]
ZSteps == 300

Sorted(s) == SortSeq(s, LAMBDA a, b : a < b)
Magnitude(x) == IF x < 0 THEN -x ELSE x
Total(s) == FoldLeft(LAMBDA a, b : a + b, 0, s)

Median(s) ==
  LET n == Len(s)
  IN  IF n = 0 THEN 0
      ELSE (Sorted(s)[(n + 1) \div 2] + Sorted(s)[n \div 2 + 1]) \div 2

Deviation(s) == Median([i \in DOMAIN s |-> Magnitude(s[i] - Median(s))])   \* _mad_sigma / 1.4826

(* A change of the median in hundredths of the spread before it. *)
Spread(pre, eps) ==
  Max({14826 * Deviation(pre), 10000 * eps, 100 * Magnitude(Median(pre))})
InSpreads(delta, pre, eps) == (1000000 * delta) \div Spread(pre, eps)

(* Slip for Placebo: the baseline is not looked at. *)
PlaceboNone(pre, eps) == 0

(* The steps found at a third and two thirds of the baseline itself. *)
Placebo(pre, eps) ==
  LET third == Len(pre) \div 3
      cuts == {c \in {third, 2 * third} : 4 <= c /\ c <= Len(pre) - 4}
      step(c) == InSpreads(Magnitude(Median(SubSeq(pre, c + 1, Len(pre))) - Median(SubSeq(pre, 1, c))),
                           SubSeq(pre, 1, c), eps)
  IN  Max({0} \cup {step(c) : c \in cuts})

(* A rise too small to matter is no step; one the baseline shows elsewhere  *)
(* as well is demoted.                                                      *)
LevelStep(pre, post, floor) ==
  LET delta == Median(post) - Median(pre)
      z == InSpreads(delta, pre, floor.eps)
      placebo == Placebo(pre, floor.eps)
      small == /\ delta < floor.abs
               /\ Median(pre) > 0 => 100 * delta < floor.rel * Median(pre)
  IN  IF Len(pre) < 4 \/ post = <<>> \/ delta <= 0 \/ small THEN 0
      ELSE IF placebo > 0 /\ 4 * z <= 5 * placebo THEN z \div 4
      ELSE z

Differences(s) == [i \in 1..(Len(s) - 1) |-> s[i + 1] - s[i]]

(* The larger of a step in level and one in slope. *)
step_z(pre, post, metric) ==
  LET level == LevelStep(pre, post, Floor[metric])
      slope == LevelStep(Differences(pre), Differences(post),
                         [eps |-> Floor[metric].eps \div 10, abs |-> 0, rel |-> 0])
  IN  IF Len(pre) >= 6 /\ Len(post) >= 3 THEN Max({level, slope}) ELSE level

(* metrics_detect_shift: the first of the splits whose means differ most.   *)
metrics_detect_shift(s) ==
  LET n == Len(s)
      gap(i) == Magnitude(i * Total(SubSeq(s, i + 1, n)) - (n - i) * Total(SubSeq(s, 1, i)))
      farther(i, j) == gap(i) * (j * (n - j)) > gap(j) * (i * (n - i))
      splits == 1..(n - 1)
  IN  IF n < 2 THEN Nothing
      ELSE 1 + Min({i \in splits : ~\E j \in splits : farther(j, i)})
-----------------------------------------------------------------------------
(* traces_emission_gaps of one service that emitted at the given seconds,   *)
(* a gap being where it begins, where it ends and whether it was resumed.   *)
Gap(start, end, resumed) == [start |-> start, end |-> end, resumed |-> resumed]

(* Slip for Between: the last bucket with spans is part of the gap. *)
BetweenTouching(active, bucket) ==
  {Gap(b * bucket, Min({c \in active : c > b}) * bucket, TRUE) :
     b \in {a \in active : a + 1 \notin active /\ \E c \in active : c > a}}
Between(active, bucket) ==
  {Gap((b + 1) * bucket, Min({c \in active : c > b}) * bucket, TRUE) :
     b \in {a \in active : a + 1 \notin active /\ \E c \in active : c > a}}

traces_emission_gaps(seconds, bucket, windowEnd) ==
  LET active == {t \div bucket : t \in seconds}
      last == Max(active)
  IN  IF Cardinality(active) < 2 THEN {}
      ELSE Between(active, bucket) \cup
           IF last < windowEnd \div bucket - 1
             THEN {Gap((last + 1) * bucket, windowEnd, FALSE)} ELSE {}
-----------------------------------------------------------------------------
(* correlate_onset_consensus of the error spans' times and the error logs'. *)
correlate_onset_consensus(spans, logs) ==
  IF spans = {} THEN IF logs = {} THEN Nothing ELSE Min(logs)
  ELSE IF logs # {} /\ Magnitude(Min(spans) - Min(logs)) <= Agreement
       THEN Min(spans \cup logs)
  ELSE Min(spans)
-----------------------------------------------------------------------------
(* _first_continuous_breach over points [time, value] in order of time, the *)
(* value "over", "under" or "nan": the loop with the start of the run as    *)
(* its state, and the answer once there is one.                             *)
Began(run, p) == IF run = Nothing THEN p.time ELSE run

Broken(p) == p.value # "over"

_first_continuous_breach(points, for) ==
  FoldLeft(LAMBDA state, p :
             IF state.fires # Nothing THEN state
             ELSE IF Broken(p) THEN [state EXCEPT !.run = Nothing]
             ELSE IF p.value = "over" /\ p.time - Began(state.run, p) >= for
                  THEN [run |-> Nothing, fires |-> Began(state.run, p)]
             ELSE IF p.value = "over" THEN [state EXCEPT !.run = Began(state.run, p)]
             ELSE state,
           [run |-> Nothing, fires |-> Nothing], points).fires
-----------------------------------------------------------------------------
(* _collect_bucketed_logs: of each part of the window, bounds included, the *)
(* earliest rows, as many as its share; a row on a bound is taken once.     *)
_collect_bucketed_logs(rows, end, buckets, limit) ==
  LET share == (limit + buckets - 1) \div buckets
      within(i) == {r \in rows : (i - 1) * end <= r.time * buckets /\ r.time * buckets <= i * end}
      earliest(R) == {r \in R : Cardinality({q \in R : q.time < r.time \/ (q.time = r.time /\ q.id < r.id)}) < share}
  IN  UNION {earliest(within(i)) : i \in 1..buckets}
-----------------------------------------------------------------------------
(* Series as they come about. A metric is what it usually is, jitters, or   *)
(* drifts by the same amount all the time; since onset it is as before,     *)
(* spikes once, has stepped or rises.                                       *)
Steady(n)   == [i \in 1..n |-> Usual]
Metric(story, pre, post) == [what |-> "metric", story |-> story, pre |-> pre, post |-> post]

Drifts == {Metric("drift", [i \in 1..12 |-> Usual + r * i], [i \in 1..n |-> Usual + r * (12 + i)]) :
             r \in {20, 40}, n \in {4, 8, 16}}
Spikes == UNION {{Metric("spike", Steady(k), [Steady(n) EXCEPT ![at] = 2 * Usual]) :
                    at \in 1..n, k \in {6, 12}} : n \in 4..6}
Steps  == {Metric("step", pre, [i \in 1..n |-> Usual + d]) :
             pre \in [1..6 -> {Usual, Usual + 10}], n \in 1..4, d \in {200, Usual}}
Rises  == {Metric("rise", Steady(k), [i \in 1..n |-> Usual + r * i]) :
             k \in {6, 12}, r \in {20, 40}, n \in 3..5}

(* Seconds 0..11 with spans; the points of an alert's expression; the times *)
(* of error spans and of error logs; two log rows of each of some seconds.  *)
Emissions == {[what |-> "emission", seconds |-> S] : S \in SUBSET (0..11) \ {{}}}
Alerts == {[what |-> "alert", points |-> p, for |-> f] :
             p \in UNION {{[i \in 1..Len(t) |-> [time |-> t[i], value |-> v[i]]] :
                             v \in [1..Len(t) -> {"over", "under", "nan"}]} :
                           t \in {SetToSortSeq(T, <) : T \in SUBSET (1..5)}},
             f \in 0..2}
Onsets == [what : {"onset"}, spans : SUBSET {30, 60, 90, 200}, logs : SUBSET {0, 30, 60, 120, 250}]
Logs   == {[what |-> "logs", rows |-> [id : 1..2, time : T], limit |-> n] :
             T \in SUBSET (0..6), n \in 1..6}

SeriesInit ==
  \/ series \in Drifts \cup Spikes \cup Steps \cup Rises
  \/ series \in Emissions \/ series \in Alerts \/ series \in Onsets \/ series \in Logs
-----------------------------------------------------------------------------
(* A metric that stepped or rises since onset is said to have stepped, and   *)
(* one that drifts as it always did, or spikes in a single bucket of at      *)
(* least four, is not; a single change of level is placed where it is        *)
(* (stats.py:59-106, metrics.py:190-221).                                    *)
StepsAreSustained ==
  series.what = "metric" =>
    LET whole == series.pre \o series.post
    IN  /\ (step_z(series.pre, series.post, "latency") >= ZSteps) = (series.story \in {"step", "rise"})
        /\ series.story = "step" => metrics_detect_shift(whole) = Len(series.pre) + 1

(* Nothing was emitted in what is called a gap, what is called resumed was,  *)
(* and a silence of two buckets within, or of three at the end, is in one    *)
(* (traces.py:349-393).                                                      *)
SilencesAreReal(S, bucket, end) ==
  LET gaps == traces_emission_gaps(S, bucket, end)
      silent(a, b) == ~\E t \in S : a <= t /\ t < b
      covered(a, b) == \E g \in gaps : g.start <= a /\ b <= g.end
      active == {t \div bucket : t \in S}
  IN  /\ \A g \in gaps : silent(g.start, g.end) /\ (g.resumed = (\E t \in S : t >= g.end))
      /\ Cardinality(active) > 1 =>
           \A b \in 0..(end \div bucket - 1) :
             /\ b \notin active /\ (\E c \in active : c < b) /\ (\E c \in active : c > b)
                  => covered(b * bucket, (b + 1) * bucket)
             /\ (\A c \in active : c < b) /\ b < end \div bucket - 1 => covered(b * bucket, end)

(* An alert starts where the expression first begins to be over the          *)
(* threshold and stays so for as long as the rule asks, points that are      *)
(* missing left aside (evaluator.py:75-135).                                 *)
AlertIsFirstBreach(points, for) ==
  LET over(i, j) == \A k \in i..j : points[k].value = "over"
      lasts(i) == \E j \in i..Len(points) : over(i, j) /\ points[j].time - points[i].time >= for
      begins(i) == lasts(i) /\ (i > 1 => points[i - 1].value # "over")
      starts == {points[i].time : i \in {k \in DOMAIN points : begins(k)}}
  IN  _first_continuous_breach(points, for) = IF starts = {} THEN Nothing ELSE Min(starts)

(* The agreed onset is never later than the first error span, and error logs *)
(* long before it do not move it (correlate.py:151-181).                     *)
OnsetIsFirstError(spans, logs) ==
  LET onset == correlate_onset_consensus(spans, logs)
  IN  /\ spans # {} => onset \in (Min(spans) - Agreement)..Min(spans)
      /\ spans \cup logs # {} => onset \in spans \cup logs
      /\ spans # {} /\ (\A t \in logs : t > Min(spans) \/ t < Min(spans) - Agreement)
           => onset = Min(spans)

(* Every part of the window that has logs is represented, and complete when  *)
(* its rows fit its share (workflow.py:254-291).                             *)
LogsAreSpread(rows, end, buckets, limit) ==
  LET kept == _collect_bucketed_logs(rows, end, buckets, limit)
      within(i) == {r \in rows : (i - 1) * end <= r.time * buckets /\ r.time * buckets <= i * end}
  IN  /\ kept \subseteq rows
      /\ \A i \in 1..buckets :
           /\ within(i) # {} => within(i) \cap kept # {}
           /\ buckets * Cardinality(within(i)) <= limit => within(i) \subseteq kept

(* Silences, alerts, onsets and recorded logs are where they were.           *)
TimesAreRight ==
  /\ series.what = "emission" => SilencesAreReal(series.seconds, 2, 12)
  /\ series.what = "alert" => AlertIsFirstBreach(series.points, series.for)
  /\ series.what = "onset" => OnsetIsFirstError(series.spans, series.logs)
  /\ series.what = "logs" => LogsAreSpread(series.rows, 6, 3, series.limit)
=============================================================================
