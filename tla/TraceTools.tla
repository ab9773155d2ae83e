----------------------------- MODULE TraceTools -----------------------------
(***************************************************************************)
(* What the agent's tools compute from the span index and the changes:     *)
(* topology, error origin, latency origin, fault attribution, hypothesis    *)
(* tests and change correlation (sentinel/tools). A tool that breaks a tie *)
(* by the order in which the backend listed the spans may give any of the  *)
(* tied answers: such an operator is a set of answers.                     *)
(***************************************************************************)
EXTENDS SpanStore, Relation, SequencesExt

CONSTANTS MinSelf,      \* min_self_ms
          MinShift,     \* min_shift_ms
          LatencyDelta, \* _LATENCY_DELTA_MIN
          BucketLen     \* bucket_s of the metric series

VARIABLES changes       \* the changes on record: id, service, time

Of(class, caller, service) == [class |-> class, caller |-> caller, service |-> service]
Unknown == Of("unknown", None, None)

Errors == {s \in all_spans : s.error}
Clients == {s \in all_spans : s.kind = "client"}
ServerErrorServices == {s.service : s \in {e \in Errors : e.kind = "server"}}
-----------------------------------------------------------------------------
(* Topology. *)
Edges(spans) ==
  {<<s.service, callee_of(s)>> : s \in
     {c \in spans : c.kind = "client" /\ callee_of(c) \notin {None, c.service}}}

traces_build_topology == Edges(all_spans)

NodesOf(E) == {e[1] : e \in E} \cup {e[2] : e \in E}
Closure(E) == TransitiveClosure([p \in NodesOf(E) \X NodesOf(E) |-> p \in E], NodesOf(E))
Reaches(E, s, t) == s = t \/ (s \in NodesOf(E) /\ t \in NodesOf(E) /\ Closure(E)[s, t])

upstream(E, s) == {t \in NodesOf(E) \ {s} : Reaches(E, t, s)}
downstream(E, s) == {t \in NodesOf(E) \ {s} : Reaches(E, s, t)}

(* topology_critical_path: the shortest chains of calls. *)
Walks(E) == {p \in UNION {[1..n -> NodesOf(E)] : n \in 1..Cardinality(NodesOf(E))} :
               \A i \in 1..(Len(p) - 1) : <<p[i], p[i + 1]>> \in E}
_shortest_path(E, src, dst) ==
  LET ways == {p \in Walks(E) : p[1] = src /\ Last(p) = dst}
  IN  {p \in ways : \A q \in ways : Len(p) <= Len(q)}

(* topology_locate_origin: the callee at which the failing edges end; of    *)
(* several the first by name, and any of them when all are callers.         *)
topology_locate_origin ==
  LET E == Edges(Errors)
      callees == {e[2] : e \in E}
      ends == callees \ {e[1] : e \in E}
      terminal == Min(IF ends # {} THEN ends ELSE callees)
  IN  IF E = {} THEN Unknown
      ELSE IF terminal \in ServerErrorServices THEN Of("service", None, terminal)
      ELSE Of("edge", None, terminal)

(* topology_compare: the edges that fail only since onset. *)
topology_compare(onset) ==
  Edges({s \in Errors : s.time >= onset}) \ Edges({s \in Errors : s.time < onset})
-----------------------------------------------------------------------------
(* Error origin: the deepest errors without an error below decide by vote.  *)
Depth[s \in all_spans] ==
  LET parents == {p \in all_spans : p.id = s.parent}
  IN  IF parents = {} THEN 0 ELSE 1 + Depth[CHOOSE p \in parents : TRUE]

Leaves == {s \in Errors : ~\E c \in children_of(s.id) : c.error}

(* Slip for Deepest: every error without an error below has a vote. *)
DeepestAny == Leaves
Deepest == {s \in Leaves : \A t \in Leaves : Depth[t] <= Depth[s]}

(* A client's error is the callee's when the callee's own work failed in    *)
(* some trace, else it is the edge's.                                       *)
Vote(s) ==
  LET callee == callee_of(s)
  IN  IF s.kind # "client" THEN Of("service", None, s.service)
      ELSE IF callee \in ServerErrorServices THEN Of("service", None, callee)
      ELSE Of("edge", s.service, callee)

MostVoted(spans) ==
  {v \in {Vote(s) : s \in spans} :
     \A w \in {Vote(s) : s \in spans} :
       Cardinality({s \in spans : Vote(s) = w}) <= Cardinality({s \in spans : Vote(s) = v})}
traces_error_origin == IF Errors = {} THEN {Unknown} ELSE MostVoted(Deepest)

traces_first_error_time == Min({s.time : s \in Errors})

(* correlate_attribute_fault on what traces_error_summary counts: the       *)
(* service with most errors of its own, and only without any the edge.      *)
ErrorCount(kind, service, callee) ==
  Cardinality({s \in Errors : s.kind = kind /\ s.service = service
                              /\ (kind = "client" => callee_of(s) = callee)})
correlate_attribute_fault ==
  LET most(V, Count(_)) == {v \in V : \A w \in V : Count(w) <= Count(v)}
      failing == Edges(Errors)
  IN  IF ServerErrorServices # {}
      THEN {Of("service", None, s) : s \in
              most(ServerErrorServices, LAMBDA t : ErrorCount("server", t, None))}
      ELSE {Of("edge", e[1], e[2]) : e \in
              most(failing, LAMBDA f : ErrorCount("client", f[1], f[2]))}
-----------------------------------------------------------------------------
(* One trace, one service. *)
(* traces_span_tree: the spans of a trace depth first; a span whose parent  *)
(* is not there is a root.                                                  *)
Earlier(s, t) == s.time < t.time
Walk(spans) ==
  LET walk[s \in spans, depth \in 0..Cardinality(spans)] ==
        LET children == SetToSortSeq({c \in spans : c.parent = s.id}, Earlier)
        IN  << [span |-> s, depth |-> depth] >>
              \o FlattenSeq([i \in DOMAIN children |-> walk[children[i], depth + 1]])
  IN  walk
RootsOf(spans) == {s \in spans : ~\E p \in spans : p.id = s.parent}
traces_span_tree(t) ==
  LET roots == SetToSortSeq(RootsOf(get_trace(t)), Earlier)
  IN  FlattenSeq([i \in DOMAIN roots |-> Walk(get_trace(t))[roots[i], 0]])

(* traces_latency_breakdown: the duration that those of all are parts of.   *)
root_duration(t) == Max({s.dur : s \in RootsOf(get_trace(t))})

(* correlate_metric_to_traces: traces of the first spans of a service with  *)
(* an error since onset, at most `limit`.                                   *)
First(spans) == {s \in spans : ~\E t \in spans : Earlier(t, s)}
Exemplars(service, onset, limit) ==
  LET failing == {s \in Errors : s.service = service /\ s.time >= onset}
      sooner(t, u) == \E s \in {f \in failing : f.trace = u} : \A r \in {f \in failing : f.trace = t} : Earlier(s, r)
      ids == {s.trace : s \in failing}
  IN  {t \in ids : Cardinality({u \in ids : sooner(t, u)}) < limit}

(* traces_compare_pre_post for an operation of a service: a trace in which  *)
(* it went well before onset, and one in which it failed since.             *)
Operation(service) == {s \in all_spans : s.service = service /\ s.kind # "client"}
traces_compare_pre_post(service, onset) ==
  [healthy |-> {s.trace : s \in First({r \in Operation(service) : ~r.error /\ r.time < onset})},
   failing |-> {s.trace : s \in First({r \in Operation(service) : r.error /\ r.time >= onset})}]

traces_service_summary(service) ==
  LET spans == {s \in all_spans : s.service = service}
  IN  [total |-> Cardinality(spans), errors |-> Cardinality(spans \cap Errors),
       serverErrors |-> Cardinality({s \in spans \cap Errors : s.kind = "server"})]
-----------------------------------------------------------------------------
(* Latency. *)
(* _p95: the value that comes at 95 of a hundred, of few the greatest. *)
P95(values) ==
  LET n == Cardinality(DOMAIN values)
      UpTo(v) == Cardinality({s \in DOMAIN values : values[s] <= v})
      all == {values[s] : s \in DOMAIN values}
  IN  IF n = 0 THEN 0
      ELSE Min({v \in all : UpTo(v) >= Min({n, (95 * n) \div 100 + 1})})

SelfTime(s) == Max({0, s.dur - MapThenSumSet(LAMBDA c : c.dur, children_of(s.id))})

Busy(service, post, onset) ==
  {s \in all_spans : /\ s.service = service /\ s.kind = "server"
                     /\ (s.time >= onset) = post
                     /\ SelfTime(s) >= MinSelf}

SelfShift(service, onset) ==
  LET Own(post) == P95([s \in Busy(service, post, onset) |-> SelfTime(s)])
  IN  Own(TRUE) - Own(FALSE)

(* traces_latency_origin: the server whose own time grew most, if by much.  *)
traces_latency_origin(onset) ==
  LET ranked == {s \in {r.service : r \in all_spans} : Busy(s, TRUE, onset) # {}}
      grown == {s \in ranked : SelfShift(s, onset) >= MinSelf}
  IN  {s \in grown : \A t \in ranked : SelfShift(t, onset) <= SelfShift(s, onset)}

Durations(spans) == [s \in spans |-> s.dur]
CallsOn(e, post, onset) ==
  {s \in Clients : s.service = e[1] /\ callee_of(s) = e[2] /\ (s.time >= onset) = post}
EdgeShifted(e, onset) ==
  P95(Durations(CallsOn(e, TRUE, onset))) - P95(Durations(CallsOn(e, FALSE, onset)))
Degraded(onset) ==
  {e \in Edges({s \in Clients : s.time >= onset}) : EdgeShifted(e, onset) >= MinShift}

Explained(D, e, x) == e[2] = x \/ e[1] = x \/ Reaches(D, e[2], x)

(* Slip for Score: no more than the largest shift into the service. *)
ScoreLoudest(D, x, onset) == <<Max({EdgeShifted(e, onset) : e \in {d \in D : d[2] = x}}), 0, 0>>

(* How much of the degradation a service explains, how many of its callers  *)
(* it slows (in parts of a common denominator), and into how many edges.    *)
Score(D, x, onset) ==
  LET slowed == {e[1] : e \in {d \in D : d[2] = x}}
      callers == {e[1] : e \in {d \in traces_build_topology : d[2] = x}}
  IN  << MapThenSumSet(LAMBDA e : EdgeShifted(e, onset), {e \in D : Explained(D, e, x)}),
         (Cardinality(slowed) * 12) \div Cardinality(callers),
         Cardinality(slowed) >>

Beats(a, b) == \E i \in DOMAIN a : a[i] > b[i] /\ \A j \in 1..(i - 1) : a[j] = b[j]

(* traces_edge_latency_origin. Of those that score best the first met wins, *)
(* that is the callee of the edge which shifted most.                       *)
Best(D, onset) ==
  {c \in {e[2] : e \in D} : ~\E e \in D : Beats(Score(D, e[2], onset), Score(D, c, onset))}
FirstMet(D, onset) ==
  LET into == {e \in D : e[2] \in Best(D, onset)}
  IN  {e[2] : e \in {d \in into : \A f \in into : EdgeShifted(f, onset) <= EdgeShifted(d, onset)}}
traces_edge_latency_origin(onset) ==
  LET ServerSpans(x, post) ==
        {s \in all_spans : s.kind = "server" /\ s.service = x /\ (s.time >= onset) = post}
      ServerShift(x) == P95(Durations(ServerSpans(x, TRUE)))
                          - P95(Durations(ServerSpans(x, FALSE)))
  IN  {Of(IF ServerShift(x) < MinShift THEN "network_edge" ELSE "service_internal", None, x) :
         x \in FirstMet(Degraded(onset), onset)}
-----------------------------------------------------------------------------
(* Hypotheses and changes. *)
(* The p95 of a service, bucket by bucket, as the backend computes it from  *)
(* all its spans of whatever kind; a bucket is known by when it begins.     *)
metric_series(service) ==
  LET In(b) == {s \in remote : s.service = service /\ s.time \div BucketLen = b}
  IN  [b \in {k \in 0..(WindowEnd \div BucketLen) : In(k) # {}} |-> P95(Durations(In(b)))]

(* _delta: the means of the rows before and since onset compared. *)
LatencyRises(service, onset) ==
  LET rows == metric_series(service)
      Mean(B) == IF B = {} THEN 0 ELSE MapThenSumSet(LAMBDA b : rows[b], B) \div Cardinality(B)
      before == {b \in DOMAIN rows : b * BucketLen < onset}
  IN  Mean(DOMAIN rows \ before) - Mean(before) > LatencyDelta

own_fault(service, onset) ==
  find_spans(service, "server", TRUE) # {} \/ LatencyRises(service, onset)

(* hypothesis_rule_out *)
ServiceRuledOut(service, onset) == ~own_fault(service, onset)
ChangeRuledOut(c, onset) == c.time >= onset

(* hypothesis_gather_evidence *)
Supported(h, onset) ==
  IF h.class = "service" THEN own_fault(h.service, onset)
  ELSE /\ \E s \in find_spans(h.caller, "client", TRUE) : callee_of(s) = h.service
       /\ find_spans(h.service, "server", TRUE) = {}

(* Slip for changes_lookback: a change at the time of onset counts too. *)
changes_lookbackClosed(onset) == {c \in changes : c.time <= onset}
changes_lookback(onset) == {c \in changes : c.time < onset}

(* changes_rank_culprit: a change on the suspect first, then the nearest.   *)
RanksBefore(c, d, suspect) ==
  \/ c.service = suspect /\ d.service # suspect
  \/ (c.service = suspect) = (d.service = suspect) /\ c.time > d.time
changes_rank_culprit(suspect, onset) ==
  {c \in changes_lookback(onset) :
     ~\E d \in changes_lookback(onset) : RanksBefore(d, c, suspect)}

(* _nearest_change_before *)
NearestBefore(service, onset) ==
  {c \in changes_lookback(onset) : /\ c.service = service
     /\ \A d \in changes_lookback(onset) : d.service = service => d.time <= c.time}
=============================================================================
