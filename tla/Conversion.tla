----------------------------- MODULE Conversion -----------------------------
(***************************************************************************)
(* From a case of the RCAEval benchmark to the fixture an agent is served: *)
(* rows are cut to the window around the fault, volume is capped, spans,   *)
(* which come without a kind, are given one, the names that metrics use    *)
(* are made those of the traces, and an alert is made up from the metrics  *)
(* (sentinel_rcaeval). What the agent says is graded by location.          *)
(*                                                                         *)
(* A service s is called s by the traces and Short(s), a name without the  *)
(* ending "service", by the metrics and by the operations of its spans.    *)
(***************************************************************************)
EXTENDS SpanStore, SeriesTools

Short(service) == -service
-----------------------------------------------------------------------------
(* Windows. *)
make_window(inject, before, after) ==
  [inject |-> inject, start |-> inject - before, end |-> inject + after]
in_window(t, window) == window.start <= t /\ t <= window.end
rebase(t, window) == t - window.start
onset_second(window) == rebase(window.inject, window)
-----------------------------------------------------------------------------
(* Spans. *)
FromRemote(s, exported) == \E p \in exported : p.id = s.parent /\ p.service # s.service
Calling(exported) == {s.parent : s \in {r \in exported : FromRemote(r, exported)}}

(* _infer_span_kinds: a span that calls is a client, though it was called.  *)
InferredKind(s, exported) ==
  CASE s.id \in Calling(exported) -> "client"
    [] FromRemote(s, exported)   -> "server"
    [] OTHER                -> "internal"

OfTrace(t, rows) == {s \in rows : s.trace = t}

(* One trace after the other is taken if it fits beside those taken.        *)
Taken(order, rows, cap) ==
  FoldLeft(LAMBDA kept, t :
             IF kept # {} /\ Cardinality(kept) + Cardinality(OfTrace(t, rows)) > cap
             THEN kept ELSE kept \cup OfTrace(t, rows),
           {}, order)

(* _sample_whole_traces: traces with an error first, else in order of their *)
(* ids, that is in any.                                                     *)
_sample_whole_traces(rows, cap) ==
  LET ids == {s.trace : s \in rows}
      erring == {s.trace : s \in {r \in rows : r.error}}
  IN  IF Cardinality(rows) <= cap THEN {rows}
      ELSE {Taken(a \o b, rows, cap) : a \in SetToSeqs(erring), b \in SetToSeqs(ids \ erring)}

(* load_traces: kinds are inferred from all spans, then the window is cut.  *)
load_traces(exported, window, cap) ==
  LET row(s) == [s EXCEPT !.kind = InferredKind(s, exported), !.time = rebase(s.time, window)]
  IN  _sample_whole_traces({row(s) : s \in {r \in exported : in_window(r.time, window)}}, cap)
-----------------------------------------------------------------------------
(* Rows of logs: indices of those kept of a sequence that says which are    *)
(* errors or warnings.                                                      *)
Indices(s, Wanted) == SetToSortSeq({i \in DOMAIN s : s[i] = Wanted}, <)
Evenly(s, k) == {s[(j * Len(s)) \div k + 1] : j \in 0..(k - 1)}

_downsample(s, cap) ==
  LET keep == Indices(s, TRUE)
      rest == Indices(s, FALSE)
  IN  IF Len(s) <= cap THEN DOMAIN s
      ELSE IF Len(keep) >= cap THEN Range(SubSeq(keep, 1, cap))
      ELSE Range(keep) \cup Evenly(rest, cap - Len(keep))

(* load_logs of rows [time, keep]. *)
load_logs(rows, window, cap) ==
  LET within == SelectSeq(rows, LAMBDA r : in_window(r.time, window))
  IN  {[within[i] EXCEPT !.time = rebase(@, window)] :
         i \in _downsample([j \in DOMAIN within |-> within[j].keep], cap)}
-----------------------------------------------------------------------------
(* Metrics: columns [service, metric, pre, post], the means of the cells    *)
(* that have a number, before and since onset.                              *)
_svc(name, traced) ==
  IF name \in traced THEN name ELSE IF -name \in traced THEN -name ELSE name

load_metrics(columns, traced) == {[c EXCEPT !.service = _svc(c.service, traced)] : c \in columns}

Rise(row) == row.post - row.pre

(* _top_service: the largest rise of a metric; of equal ones the first by name. *)
_top_service(rows, metric) ==
  LET rose == {r \in rows : r.metric = metric /\ Rise(r) > 0}
      most == {r \in rose : \A q \in rose : Rise(q) <= Rise(r)}
  IN  IF rose = {} THEN {} ELSE {r \in most : \A q \in most : r.service <= q.service}

(* From nothing is the steepest rise; of equally steep ones the metric that *)
(* comes first by name.                                                     *)
Steeper(r, q) == IF r.pre = 0 THEN q.pre # 0 ELSE q.pre # 0 /\ Rise(r) * q.pre > Rise(q) * r.pre

(* synthesize_symptom: what the alert says and of whom; without a rise the  *)
(* conversion fails.                                                        *)
synthesize_symptom(rows) ==
  LET movers == UNION {_top_service(rows, m) : m \in {r.metric : r \in rows}}
      pick == IF _top_service(rows, "error") # {} THEN _top_service(rows, "error")
              ELSE IF _top_service(rows, "latency") # {} THEN _top_service(rows, "latency")
              ELSE {r \in movers : ~\E q \in movers : Steeper(q, r)}
  IN  IF movers = {} THEN Nothing ELSE CHOOSE r \in pick : TRUE

(* convert_re2_case: the fixtures that may be made of an export [spans,     *)
(* columns, rows, service], and what a report on them is held against; none *)
(* if nothing rose.                                                         *)
convert_re2_case(export, window, cap) ==
  LET traced == {s.service : s \in export.spans}
      metrics == load_metrics(export.columns, traced)
      symptom == synthesize_symptom(metrics)
  IN  IF symptom = Nothing THEN {}
      ELSE {[traces |-> t, metrics |-> metrics, logs |-> load_logs(export.rows, window, cap),
             symptom |-> symptom, accepted |-> {_svc(export.service, traced)}] :
              t \in load_traces(export.spans, window, cap)}
-----------------------------------------------------------------------------
(* Cases: columns of two services by the names that metrics use, some of    *)
(* whose spans were traced; and rows of logs.                               *)
Column(service, metric, value) ==
  IF value = <<>> THEN {} ELSE {[service |-> service, metric |-> metric, pre |-> value[1], post |-> value[2]]}

Symptoms ==
  {[what |-> "symptom", traced |-> traced,
    columns |-> Column(Short(1), "error", e[1]) \cup Column(Short(2), "error", e[2])
                  \cup Column(Short(1), "latency", l[1]) \cup Column(Short(2), "latency", l[2])
                  \cup Column(Short(1), "cpu", c[1]) \cup Column(Short(2), "mem", c[2])] :
     traced \in SUBSET {1, 2},
     e \in [1..2 -> {<<>>, <<1, 1>>, <<0, 1>>, <<1, 3>>}],
     l \in [1..2 -> {<<>>, <<2, 1>>, <<2, 3>>}],
     c \in [1..2 -> {<<0, 1>>, <<1, 1>>, <<1, 2>>, <<2, 4>>, <<2, 3>>}]}

Volumes == {[what |-> "volume", rows |-> r, cap |-> n] :
              r \in UNION {[1..k -> BOOLEAN] : k \in 0..7}, n \in 1..7}

ConversionInit == series \in Symptoms \/ series \in Volumes
-----------------------------------------------------------------------------
(* The alert is about what went up, errors before latency before the rest,   *)
(* and of these most; it names a service as its spans do; and only when      *)
(* nothing went up is there none (symptom.py:41-77, re2.py:87-125).          *)
SymptomIsObserved(columns, traced) ==
  LET rows == load_metrics(columns, traced)
      symptom == synthesize_symptom(rows)
      rose(M) == {r \in rows : r.metric \in M /\ r.post > r.pre}
      shown == IF rose({"error"}) # {} THEN {"error"}
               ELSE IF rose({"latency"}) # {} THEN {"latency"} ELSE {"cpu", "mem"}
  IN  IF rose(shown) = {} THEN symptom = Nothing
      ELSE /\ symptom \in rose(shown)
           /\ -symptom.service \notin traced
           /\ IF "cpu" \in shown THEN \A r \in rose(shown) : symptom.post * r.pre >= r.post * symptom.pre
              ELSE \A r \in rose(shown) : Rise(r) <= Rise(symptom)

(* As many rows are kept as may be; errors and warnings first, and of the    *)
(* others some of every part of the window; rows outside of it neither are   *)
(* kept nor take room, and the others count from its beginning               *)
(* (normalize.py:106-116, re2.py:128-153).                                   *)
VolumeIsSpread(rows, cap) ==
  LET kept == _downsample(rows, cap)
      keep == Indices(rows, TRUE)
      rest == Indices(rows, FALSE)
      room == cap - Len(keep)
      window == make_window(4, 2, 2)
      timed == [i \in DOMAIN rows |-> [time |-> i, keep |-> rows[i]]]
      logs == load_logs(timed, window, cap)
  IN  /\ Cardinality(logs) = Min({cap, Cardinality(DOMAIN rows \cap 2..6)})
      /\ logs \subseteq {[timed[i] EXCEPT !.time = i - 2] : i \in DOMAIN rows \cap 2..6}
      /\ kept \subseteq DOMAIN rows
      /\ Cardinality(kept) = Min({cap, Len(rows)})
      /\ IF room > 0 THEN Range(keep) \subseteq kept ELSE kept \subseteq Range(keep)
      /\ room > 0 /\ Len(rest) > room =>
           LET part == (Len(rest) + room - 1) \div room
           IN  \A i \in 1..(Len(rest) - part + 1) : \E j \in i..(i + part - 1) : rest[j] \in kept

(* What is left of a benchmark case is a fair part of it. *)
CaseIsRepresented ==
  /\ series.what = "symptom" => SymptomIsObserved(series.columns, series.traced)
  /\ series.what = "volume" => VolumeIsSpread(series.rows, series.cap)
=============================================================================
