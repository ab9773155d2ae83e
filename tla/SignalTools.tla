----------------------------- MODULE SignalTools -----------------------------
(***************************************************************************)
(* The tools that look at metrics and logs of several services at once:    *)
(* which service moved, by how much, and when its logs began to say so     *)
(* (sentinel/tools/metrics.py, logs.py, and what correlate.py and report.py*)
(* make of them). Latencies and memory are in tenths of their unit.        *)
(***************************************************************************)
EXTENDS SeriesTools

(* A metric of a service is [pre, post], the rows before and since onset.   *)
MeanTimes(s, n) == IF s = <<>> THEN 0 ELSE (n * Total(s)) \div Len(s)
Mean(s) == MeanTimes(s, 1)

(* significant_shift: a tenth of a second of latency, half as much again of *)
(* a resource.                                                              *)
significant_shift(metric, pre, post) ==
  IF metric = "latency" THEN post - pre > 1000 ELSE 2 * post > 3 * pre /\ post > pre

(* metrics_compare_baseline *)
compare_shifted(pre, post, metric) ==
  \/ 10 * Magnitude(Mean(post) - Mean(pre)) > Magnitude(Mean(pre))
  \/ step_z(pre, post, metric) >= ZSteps

Effect(row, metric) == step_z(row.pre, row.post, metric)
Delta(row) == Mean(row.post) - Mean(row.pre)

StrongerMover(a, b, metric) ==
  \/ Effect(a, metric) > Effect(b, metric)
  \/ Effect(a, metric) = Effect(b, metric) /\ Delta(a) > Delta(b)

(* metrics_top_movers: those that may come first. *)
TopMovers(rows) ==
  {s \in DOMAIN rows : ~\E t \in DOMAIN rows : StrongerMover(rows[t], rows[s], "latency")}

(* metrics_resource_saturation: the services whose memory rose, and those   *)
(* of them that may come first.                                             *)
Risers(rows) ==
  {s \in DOMAIN rows : \/ Effect(rows[s], "memory") >= ZSteps
                       \/ significant_shift("memory", Mean(rows[s].pre), Mean(rows[s].post))}
TopRisers(rows) ==
  {s \in Risers(rows) : \A t \in Risers(rows) : Effect(rows[t], "memory") <= Effect(rows[s], "memory")}

(* correlate_signals, report_build_evidence: the metrics said to have moved. *)
shifted_metrics(signals) ==
  {m \in DOMAIN signals : significant_shift(m, Mean(signals[m].pre), Mean(signals[m].post))}

(* metrics_series: the rows of a window, and of these the points shown.     *)
InWindow(rows, start, end) == SelectSeq(rows, LAMBDA r : start <= r.time /\ r.time <= end)
PointsShown(rows, most) ==
  IF Len(rows) <= most THEN rows
  ELSE [j \in 1..most |-> rows[((j - 1) * Len(rows)) \div most + 1]]

Values(rows) == [i \in DOMAIN rows |-> rows[i].value]

(* metrics_error_budget, of whatever metric the rows are. *)
metrics_error_budget(rows, start, end, slo) ==
  LET observed == Mean(Values(InWindow(rows, start, end)))
  IN  [observed |-> observed, breached |-> observed > slo]

(* metrics_summary_all: what each service shows since onset. *)
metrics_summary_all(rows) == [s \in DOMAIN rows |-> Mean(rows[s].post)]
-----------------------------------------------------------------------------
(* Logs: rows [id, time, service, level, template]. *)
Rank == [trace |-> 0, info |-> 2, warn |-> 3, error |-> 4, fatal |-> 5]
search_logs(rows, least) == {r \in rows : Rank[r.level] >= Rank[least]}

(* logs_first_error: of each service the time of its first. *)
logs_first_error(rows) ==
  LET errors == search_logs(rows, "error")
  IN  [s \in {r.service : r \in errors} |-> Min({r.time : r \in {e \in errors : e.service = s}})]

logs_level_histogram(rows, bucket) ==
  LET in(b) == {r \in rows : r.time \div bucket = b}
  IN  [b \in {r.time \div bucket : r \in rows} |->
         [l \in {r.level : r \in in(b)} |-> Cardinality({r \in in(b) : r.level = l})]]

(* logs_error_clusters, all of them. *)
logs_error_clusters(rows) ==
  LET errors == search_logs(rows, "error")
      of(t) == {r \in errors : r.template = t}
  IN  [t \in {r.template : r \in errors} |->
         [count |-> Cardinality(of(t)), services |-> {r.service : r \in of(t)}]]
-----------------------------------------------------------------------------
(* Three services, one of which moved while the others drift, spike or do   *)
(* nothing; four log rows of two services.                                  *)
Unmoved == {Metric("still", Steady(12), Steady(n)) : n \in {4, 8}}
             \cup {d \in Drifts : Len(d.post) = 8} \cup {s \in Spikes : Len(s.pre) = 12}
Moved == {Metric("step", Steady(12), [i \in 1..n |-> Usual + d]) : n \in {1, 4}, d \in {200, 1600}}
           \cup {r \in Rises : Len(r.pre) = 12}
Movers == {[what |-> "movers", rows |-> <<m, a, b>>] : m \in Moved, a, b \in Unmoved}

LogRows == [time : 0..5, service : 1..2, level : {"info", "error", "fatal"}]
LogSets == {[what |-> "levels",
             rows |-> {[id |-> 1, template |-> 1] @@ x, [id |-> 2, template |-> 2] @@ y, [id |-> 3, template |-> 1] @@ z}] :
              x \in LogRows, y \in LogRows, z \in {r \in LogRows : r.service = 1}}

SignalInit == series \in Movers \/ series \in LogSets

(* The service whose metric moved comes first by latency and by memory,      *)
(* whatever drifts or spikes beside it; a comparison with the baseline sees  *)
(* it, and so do the points shown of it if it lasted; its budget, if spent   *)
(* over all, is spent since onset; and no other service is said to have      *)
(* shifted (metrics.py:110-335, correlate.py:94-122).                        *)
MoverComesFirst(rows) ==
  LET whole(s) == rows[s].pre \o rows[s].post
      timed(s) == [i \in DOMAIN whole(s) |-> [time |-> i, value |-> whole(s)[i]]]
      points == PointsShown(InWindow(timed(1), 1, Len(timed(1))), 4)
      spent(s, from) == metrics_error_budget(timed(s), from, Len(timed(s)), Usual + 10)
  IN  /\ TopMovers(rows) = {1}
      /\ TopRisers(rows) = {1}
      /\ \A m \in {"latency", "memory"} : compare_shifted(rows[1].pre, rows[1].post, m)
      /\ Len(points) = 4
      /\ spent(1, 1).breached => spent(1, Len(rows[1].pre) + 1).breached
      /\ \A s \in DOMAIN rows :
           /\ metrics_summary_all(rows)[s] = spent(s, Len(rows[s].pre) + 1).observed
           /\ rows[s].story = "still" => ~spent(s, 1).breached
      /\ 4 * Len(rows[1].post) >= Len(timed(1)) => \E i \in 1..4 : points[i].value # Usual
      /\ \A s \in DOMAIN rows :
           "latency" \in shifted_metrics([latency |-> rows[s]])
             => rows[s].story \in {"step", "rise"} /\ Delta(rows[s]) > Usual

(* The histogram has every row once; its first bucket with errors is that of *)
(* the earliest first error, which is the onset by logs; every error is in   *)
(* one cluster (logs.py:105-167, correlate.py:163-164).                      *)
LogsAgree(rows) ==
  LET first == logs_first_error(rows)
      histogram == logs_level_histogram(rows, 2)
      clusters == logs_error_clusters(rows)
      errors == search_logs(rows, "error")
      failing == {b \in DOMAIN histogram : DOMAIN histogram[b] \cap {"error", "fatal"} # {}}
  IN  /\ MapThenSumSet(LAMBDA b : MapThenSumSet(LAMBDA l : histogram[b][l], DOMAIN histogram[b]),
                       DOMAIN histogram) = Cardinality(rows)
      /\ errors # {} => /\ Min(failing) = Min(Range(first)) \div 2
                       /\ correlate_onset_consensus({}, {r.time : r \in errors}) = Min(Range(first))
      /\ MapThenSumSet(LAMBDA t : clusters[t].count, DOMAIN clusters) = Cardinality(errors)
      /\ UNION {clusters[t].services : t \in DOMAIN clusters} = DOMAIN first

(* What the tools say of several services together. *)
SignalsAgree ==
  /\ series.what = "movers" => MoverComesFirst(series.rows)
  /\ series.what = "levels" => LogsAgree(series.rows)
=============================================================================
