------------------------------- MODULE Backends -------------------------------
(***************************************************************************)
(* One system's telemetry as the stores serve it: what becomes of a span,  *)
(* a log line, a change and a metric on the way through New Relic          *)
(* (newrelic/mapping.py, store.py), through Tempo, Loki and Prometheus     *)
(* (lgtm/store.py), and through a recording (labs/otel/normalizer.py and   *)
(* tools/store.py). What was emitted has its time in quarters of a second  *)
(* from the beginning of the window; a field that is missing is Nothing.   *)
(***************************************************************************)
EXTENDS SignalTools

CONSTANTS Lines     \* log lines of one answer at most, of either backend

ASSUME BackendsAssumption == Lines \in Nat \ {0}

(* rel_seconds cuts off, _relative_second rounds to the even; neither goes  *)
(* below the window.                                                        *)
rel_seconds(t) == Max({0, t \div 4})
_relative_second(t) ==
  LET second == t \div 4
      up == t % 4 > 2 \/ (t % 4 = 2 /\ second % 2 = 1)
  IN  Max({0, IF up THEN second + 1 ELSE second})

Anonymous == 0      \* the service "unknown"
Served(service) == IF service = Nothing THEN Anonymous ELSE service
-----------------------------------------------------------------------------
(* Spans [id, time, service, otel, grpc, http]: the status that             *)
(* instrumentation set and the codes it noted.                              *)
SpanRow(s, time, error) == [id |-> s.id, service |-> Served(s.service), time |-> time, error |-> error]

to_trace_row(s) ==
  IF s.service = Nothing THEN {} ELSE {SpanRow(s, rel_seconds(s.time), s.otel = "error")}

_parse_trace(s) == {SpanRow(s, rel_seconds(s.time), s.otel = "error")}

(* _span_status: a failed call is an error, though nobody called it one. *)
_span_status(s) ==
  s.otel = "error" \/ s.grpc \notin {0, Nothing} \/ (s.http # Nothing /\ s.http >= 500)

normalize_jaeger_traces(s) ==
  IF s.service = Nothing THEN {} ELSE {SpanRow(s, _relative_second(s.time), _span_status(s))}
-----------------------------------------------------------------------------
(* Log lines [id, time, service, level, body, trace]; a body is "plain", or *)
(* "sealed" when it has a word that would give the fault away.              *)
LogRow(l, time, level) ==
  [id |-> l.id, service |-> Served(l.service), time |-> time, level |-> level, trace |-> l.trace]
LevelOf(l) == IF l.level = Nothing THEN "info" ELSE l.level

to_log_row(l) ==
  IF l.service = Nothing \/ l.body = Nothing THEN {} ELSE {LogRow(l, rel_seconds(l.time), LevelOf(l))}

normalize_opensearch_logs(l) ==
  IF l.service = Nothing \/ l.body \in {Nothing, "sealed"} THEN {}
  ELSE {LogRow(l, _relative_second(l.time), LevelOf(l))}

(* The rank of a level that the table does not have is the store's. *)
RankOr(level, odd) == IF level \in DOMAIN Rank THEN Rank[level] ELSE odd
AtLeast(rows, least, odd) == {r \in rows : RankOr(r.level, odd) >= Rank[least]}

Before(k, l) == k.time < l.time \/ (k.time = l.time /\ k.id < l.id)
Earliest(n, rows) == {l \in rows : Cardinality({k \in rows : Before(k, l)}) < n}

(* Answers that search_logs of a store may give. New Relic has some of the  *)
(* lines, in no order, Loki the earliest; of these the level is looked at.  *)
newrelic_search_logs(lines, least) ==
  {AtLeast(UNION {to_log_row(l) : l \in page}, least, 0) :
     page \in IF Cardinality(lines) <= Lines THEN {lines} ELSE kSubset(Lines, lines)}

lgtm_search_logs(lines, least) ==
  AtLeast({LogRow(l, rel_seconds(l.time), LevelOf(l)) : l \in Earliest(Lines, lines)}, least, 2)

fixture_search_logs(lines, least) ==
  AtLeast(UNION {normalize_opensearch_logs(l) : l \in lines}, least, 0)

(* The lines of a trace: Loki's come without their level, which the tool    *)
(* then looks at.                                                           *)
newrelic_logs_for_trace(lines, trace) == UNION {to_log_row(l) : l \in {k \in lines : k.trace = trace}}
lgtm_logs_for_trace(lines, trace) ==
  {LogRow(l, rel_seconds(l.time), "info") : l \in {k \in lines : k.trace = trace}}
logs_for_trace(rows, least) == AtLeast(rows, least, 0)

(* What a tool shows of the lines that match. *)
_bundle(matched, limit) ==
  [logs |-> Earliest(limit, matched), total |-> Cardinality(matched),
   truncated |-> Cardinality(matched) > limit]
-----------------------------------------------------------------------------
(* Changes [id, time]: those made up to ten minutes before the window are   *)
(* said to be of its first second.                                          *)
to_change_event(c) == [c EXCEPT !.time = rel_seconds(@)]
newrelic_list_changes(made) == {to_change_event(c) : c \in {d \in made : d.time >= -2400}}

(* correlate_timeline: the marker of the onset comes after the changes of   *)
(* its second, which do not count as before it.                             *)
correlate_timeline(listed, onset) ==
  LET entry(k, t, i) == [marks |-> k, time |-> t, id |-> i]
      all == {entry(0, c.time, c.id) : c \in listed} \cup {entry(1, onset, Nothing)}
  IN  [before |-> {c.id : c \in {d \in listed : d.time < onset}},
       entries |-> SetToSortSeq(all, LAMBDA a, b :
                     \/ a.time < b.time
                     \/ a.time = b.time /\ a.marks < b.marks
                     \/ a.time = b.time /\ a.marks = b.marks /\ a.id < b.id)]
-----------------------------------------------------------------------------
(* Points [time, value] of a metric, the value Nothing when it is no number.*)
normalize_prometheus_matrix(points) ==
  {[time |-> _relative_second(p.time), value |-> p.value] : p \in {q \in points : q.value # Nothing}}
lgtm_metric_series(points) == {[time |-> rel_seconds(p.time), value |-> p.value] : p \in points}
-----------------------------------------------------------------------------
(* What is emitted: a span with whatever codes beside an ordinary one; a    *)
(* line of any kind, one of its service with or without a known level, and  *)
(* an error; two changes; three points.                                     *)
Emitted(times, services) ==
  [id : {1}, time : times, service : services, otel : {"unset", "error"}, grpc : {0, 5, Nothing}, http : {Nothing}]
    \cup [id : {1}, time : times, service : services, otel : {"unset", "error"}, grpc : {Nothing}, http : {404, 500}]
SpanSets == {[what |-> "spans", emitted |-> {s, [t EXCEPT !.id = 2]}] :
               s \in Emitted(-2..6, {1, Nothing}), t \in Emitted({1, 2, 6}, {2})}

Line(id, times, services, levels, bodies, traces) ==
  [id : {id}, time : times, service : services, level : levels, body : bodies, trace : traces]
SomeLines == Line(1, {0, 2, 7}, {1, Nothing}, {"error", "odd", Nothing}, {"plain", "sealed", Nothing}, 1..2)
LineSets ==
  {[what |-> "lines", emitted |-> e, limit |-> n] : n \in 1..2,
     e \in {{x} : x \in SomeLines}
             \cup {{x, y, z} : x \in SomeLines,
                             y \in Line(2, {2}, {1}, {"error", "info", "odd"}, {"plain"}, 1..2),
                             z \in Line(3, {5}, {2}, {"error"}, {"plain"}, {1})}}

ChangeSets == {[what |-> "changes", emitted |-> {[id |-> 1, time |-> a], [id |-> 2, time |-> b]}, onset |-> n] :
                 a \in {-9999, -50, -1, 3, 5}, b \in {-50, -3, 0, 4, 9}, n \in 0..3}
PointSets == {[what |-> "points", emitted |-> {[time |-> 8 * t + r, value |-> v[t]] : t \in 0..2}] :
                v \in [0..2 -> {1, 2, Nothing}], r \in 0..3}

BackendsInit ==
  series \in SpanSets \/ series \in LineSets \/ series \in ChangeSets \/ series \in PointSets
-----------------------------------------------------------------------------
InOrder(emitted, rows) ==
  \A s, t \in emitted : \A p, q \in rows :
    p.id = s.id /\ q.id = t.id /\ s.time <= t.time => p.time <= q.time

(* A span is in the live index if and only if it is in the recording, less   *)
(* than a second and a half apart and in the same order among others; what   *)
(* the live index calls an error is one in the recording, which has others   *)
(* only for their codes; Tempo's rows are New Relic's and those without a    *)
(* service (mapping.py:35-51, lgtm/store.py:260-283, normalizer.py:62-99).   *)
SpansAgree(emitted) ==
  LET live == UNION {to_trace_row(s) : s \in emitted}
      kept == UNION {normalize_jaeger_traces(s) : s \in emitted}
      tempo == UNION {_parse_trace(s) : s \in emitted}
  IN  /\ {r.id : r \in live} = {r.id : r \in kept}
      /\ {r \in tempo : r.service # Anonymous} = live
      /\ InOrder(emitted, live) /\ InOrder(emitted, kept) /\ InOrder(emitted, tempo)
      /\ \A r \in live, k \in kept : r.id = k.id =>
           /\ k.time - r.time \in 0..1
           /\ r.error => k.error
           /\ k.error /\ ~r.error => \E s \in emitted : s.id = k.id /\ (s.grpc = 5 \/ s.http = 500)

(* Nothing is found that was not asked for, and nothing is missing unless    *)
(* there are more lines than an answer holds, the line is of no service, or  *)
(* gives the fault away; Loki finds more, for its levels that are in no      *)
(* table, and by trace only what is asked without a level                    *)
(* (newrelic/store.py:131-157, lgtm/store.py:159-203, normalizer.py:102-131).*)
LinesAgree(emitted, limit) ==
  LET asked(odd) == {l.id : l \in {k \in emitted : RankOr(LevelOf(k), odd) >= 4 /\ k.body # Nothing}}
      named == {l.id : l \in {k \in emitted : k.service # Nothing}}
      sealed == {l.id : l \in {k \in emitted : k.body = "sealed"}}
      ids(rows) == {r.id : r \in rows}
      live == newrelic_search_logs(emitted, "error")
      recorded == fixture_search_logs(emitted, "error")
      fits == Cardinality(emitted) <= Lines
      trace == UNION {to_log_row(l) : l \in {k \in emitted : k.trace = 1}}
  IN  /\ ids(recorded) = (asked(0) \cap named) \ sealed
      /\ \A rows \in live : ids(rows) \subseteq asked(0) \cap named
      /\ fits => \A rows \in live : ids(rows) \ sealed = ids(recorded)
      /\ fits => ids(recorded) \subseteq ids(lgtm_search_logs(emitted, "error"))
      /\ \A l \in lgtm_search_logs(emitted, "error") : \A k \in emitted :
           k.id \notin ids(lgtm_search_logs(emitted, "trace")) => Before([l EXCEPT !.time = 4 * @], k)
      /\ logs_for_trace(newrelic_logs_for_trace(emitted, 1), "error") = AtLeast(trace, "error", 0)
      /\ logs_for_trace(lgtm_logs_for_trace(emitted, 1), "error") = {}
      /\ ids(trace) \subseteq ids(logs_for_trace(lgtm_logs_for_trace(emitted, 1), "info"))
      /\ \A rows \in live : LET shown == _bundle(rows, limit)
                            IN  /\ shown.truncated = (shown.total > Cardinality(shown.logs))
                                /\ \A r \in shown.logs, q \in rows \ shown.logs : Before(r, q)

(* The timeline has the changes in the order in which they were made, those  *)
(* before the window as of its beginning; those counted as before the onset  *)
(* were made before it and stand before its marker                           *)
(* (newrelic/store.py:159-176, mapping.py:67-79, correlate.py:78-93).        *)
ChangesAgree(made, onset) ==
  LET listed == newrelic_list_changes(made)
      line == correlate_timeline(listed, onset)
      at(i) == CHOOSE n \in DOMAIN line.entries : line.entries[n].id = i
  IN  /\ InOrder(made, listed)
      /\ \A c \in made : c.id \in line.before =>
           c.time < 4 * onset /\ at(c.id) < at(Nothing)
      /\ \A c \in listed : c.time > onset => at(Nothing) < at(c.id)
      /\ \A c \in made : -2400 <= c.time /\ c.time < 4 * onset /\ onset > 0 => c.id \in line.before

(* A recorded series has the numbers of the live one, and only numbers       *)
(* (normalizer.py:20-59, lgtm/store.py:136-155).                             *)
PointsAgree(emitted) ==
  LET kept == normalize_prometheus_matrix(emitted)
      live == lgtm_metric_series(emitted)
      finite == {p \in live : p.value # Nothing}
  IN  /\ Cardinality(kept) = Cardinality(finite)
      /\ \A p \in finite : \E q \in kept : q.value = p.value /\ q.time - p.time \in 0..1

(* The backends serve one system: what an agent is told by one it would be   *)
(* told by the others, but for what each leaves out.                         *)
BackendsAgree ==
  /\ series.what = "spans" => SpansAgree(series.emitted)
  /\ series.what = "lines" => LinesAgree(series.emitted, series.limit)
  /\ series.what = "changes" => ChangesAgree(series.emitted, series.onset)
  /\ series.what = "points" => PointsAgree(series.emitted)
=============================================================================
