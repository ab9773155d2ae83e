------------------------------- MODULE Incident -------------------------------
(***************************************************************************)
(* A fault and what is said of it by the two ways the code looks at one:   *)
(* by the steps of the metrics (OriginRank), and by the spans (TraceTools, *)
(* over the index of SpanStore). The initial states are incidents: of the  *)
(* first kind those of OriginRank, of the second a call graph, a fault in  *)
(* it, and the spans of one request per entry service before the fault and *)
(* one since, with the errors and delays that the tools' own descriptions  *)
(* say the fault causes, as a backend holds them or as a case of RCAEval   *)
(* that is converted has them. The span index is then hydrated. Of a third *)
(* kind are the series, cases, rows and fixtures of the other modules,     *)
(* each looked at for itself.                                              *)
(***************************************************************************)
EXTENDS OriginRank, Reports, Conversion, Evaluation, Quality

CONSTANTS Traced,    \* services of an incident of the second kind
          Slow,      \* how much longer a slow service works
          Delay      \* how much longer a call to a service with a bad network takes

VARIABLE story     \* target, handlers, heavy, named, noise, jitter, outbound, twice, export

incidentVars == <<rankVars, remote, store, changes, story, series>>

Onset   == WindowEnd \div 2     \* requests begin at 0 and right after it
Culprit == 3                    \* when the change that caused the fault was made

(* The change precedes the onset, and so do the requests before the fault;   *)
(* as long a time after it those since end, in the window.                   *)
ASSUME IncidentAssumption ==
  /\ Traced \subseteq Services
  /\ {Slow, Delay} \subseteq Nat
  /\ Culprit < Onset /\ 2 * Cardinality(Traced) <= Onset + 1
-----------------------------------------------------------------------------
TracedGraphs ==
  {G \in SUBSET (Pairs \cap (Traced \X Traced)) :
     /\ UNION {{e[1], e[2]} : e \in G} = Traced
     /\ \E depth \in [Traced -> Traced] : \A e \in G : depth[e[1]] < depth[e[2]]}

Roots(G) == Traced \ {e[2] : e \in G}

(* The chains of calls from an entry service, and what spans on them are    *)
(* named after: the chain, whether it is of a request after the fault, the  *)
(* side, and the number of the call.                                        *)
Chains == UNION {[1..n -> Traced] : n \in 1..Cardinality(Traced)}
Paths(G) == {p \in Chains : p[1] \in Roots(G) /\ \A i \in 1..(Len(p) - 1) : <<p[i], p[i + 1]>> \in G}
SpanNames == Chains \X BOOLEAN \X {"server", "client"} \X (1..2)

(* How a case was exported and is converted: whether client spans of their  *)
(* own exist, what of it is in the window, and how many spans are kept.     *)
Exports == [collapsed : BOOLEAN, window : {make_window(Onset, Onset, WindowEnd - Onset),
                                           make_window(Onset, Onset - 2, WindowEnd - Onset),
                                           make_window(Onset, Onset, 3)},
            cap : {6, 99}]

(* None is no service, no span, no export, and no kind or status to ask for. *)
ASSUME NoneAssumption ==
  /\ None \notin Services \cup SpanNames \cup Exports
  /\ None \notin {"client", "server"} /\ None \notin BOOLEAN

Story == [target : Traced \cup {None},      \* of the edge at fault: its callee
          handlers : SUBSET Traced,         \* answer although a callee failed
          heavy : Traced \cup {None},       \* works long at any time
          named : BOOLEAN,                  \* operations name the callee
          noise : Traced \cup {None},       \* failed once, before, on its own
          jitter : 0..1,                    \* work of the others varies
          outbound : BOOLEAN,               \* the bad network slows calls out
          twice : Traced \cup {None},       \* calls the service at fault twice
          export : Exports \cup {None}]     \* of the case, when it is RCAEval's

Quiet == [target |-> None, handlers |-> {}, heavy |-> None, named |-> TRUE,
          noise |-> None, jitter |-> 0, outbound |-> FALSE, twice |-> None, export |-> None]

Told ==
  \/ /\ kind = "service"
     /\ \E H \in {{}} \cup {{h} : h \in Traced \ {origin}}, n \in Roots(edges) \cup {None} :
          story = [Quiet EXCEPT !.handlers = H, !.noise = n]
  \/ /\ kind = "edge"
     /\ \E e \in {d \in edges : d[1] = origin}, H \in {{}} \cup {{h} : h \in Traced},
           x \in (Roots(edges) \X {TRUE}) \cup ({None} \X BOOLEAN) :
          story = [Quiet EXCEPT !.target = e[2], !.handlers = H, !.noise = x[1], !.named = x[2]]
  \/ /\ kind = "slow"
     /\ \E h \in Traced \cup {None}, j \in 0..1 : story = [Quiet EXCEPT !.heavy = h, !.jitter = j]
  \/ /\ kind = "network" /\ origin \notin Roots(edges)
     /\ \/ \E b \in BOOLEAN : story = [Quiet EXCEPT !.outbound = b]
        \/ \E e \in {d \in edges : d[2] = origin /\ ~\E f \in edges : f[1] = origin} :
             story = [Quiet EXCEPT !.twice = e[1]]
-----------------------------------------------------------------------------
(* The spans. A path ends at a service; the span of its server and the one  *)
(* of the client that called it are named after the path and the request.   *)
Callee(p) == p[Len(p)]
Caller(p) == p[Len(p) - 1]

(* The path ends where the fault is: at its service, or with its call.      *)
AtFault(p) == \/ kind = "service" /\ Callee(p) = origin
              \/ kind = "edge" /\ Len(p) > 1 /\ Caller(p) = origin /\ Callee(p) = story.target

(* A call at fault never arrives. *)
Cut(p) == kind = "edge" /\ \E n \in 2..Len(p) : AtFault(SubSeq(p, 1, n))

(* What fails, and every caller above it up to one that handles it. *)
Fails(p) ==
  \E f \in Paths(edges) : /\ AtFault(f) /\ IsPrefix(p, f)
                          /\ ~\E i \in Len(p)..(Len(f) - 1) : f[i] \in story.handlers

Work(s, after) ==
  LET usual == IF s = story.heavy THEN 8 ELSE 1
  IN  IF ~after THEN usual
      ELSE IF kind = "slow" /\ s = origin THEN usual + Slow
      ELSE usual + story.jitter
OnWire(p, after) ==
  IF after /\ kind = "network"
       /\ (Callee(p) = origin \/ (story.outbound /\ Caller(p) = origin))
  THEN Delay ELSE 0
Calls(p) == IF Len(p) > 1 /\ Caller(p) = story.twice /\ Callee(p) = origin THEN 2 ELSE 1
Below(p, after) == {q \in Paths(edges) : q # p /\ IsPrefix(p, q) /\ ~(after /\ Cut(q))}
Serving(p, after) ==
  Work(Callee(p), after)
  + SumFunction([q \in Below(p, after) |-> Calls(q) * (Work(Callee(q), after) + OnWire(q, after))])

Span(p, after, side, n) ==
  LET client == side = "client"
      start == (IF after THEN Onset + 1 ELSE 0) + 2 * (Len(p) - 1)
  IN  [id      |-> <<p, after, side, n>>,
       parent  |-> IF client THEN <<Front(p), after, "server", 1>>
                   ELSE IF Len(p) = 1 THEN None ELSE <<p, after, "client", n>>,
       trace   |-> <<p[1], after>>,
       service |-> IF client THEN Caller(p) ELSE Callee(p),
       kind    |-> side,
       error   |-> IF after THEN Fails(p) ELSE ~client /\ p = <<story.noise>>,
       dur     |-> Serving(p, after) + IF client THEN OnWire(p, after) ELSE 0,
       rpc     |-> IF client /\ story.named THEN Callee(p) ELSE None,
       time    |-> IF client THEN start - 1 ELSE start]

(* A call that was made has a client's span, one that arrived a server's.   *)
Made(p, after, side) ==
  IF side = "server" THEN ~(after /\ Cut(p)) ELSE Len(p) > 1 /\ ~(after /\ Cut(Front(p)))
Sent == {c \in Paths(edges) \X BOOLEAN \X {"server", "client"} \X (1..2) :
           c[4] <= Calls(c[1]) /\ Made(c[1], c[2], c[3])}
Spans == {Span(c[1], c[2], c[3], c[4]) : c \in Sent}

(* The spans of a case that was exported: without kinds, without the spans  *)
(* of clients if calls were collapsed, and with operations by short names.  *)
Exported ==
  LET all == Spans
      callee(s) == IF s.kind = "client" THEN s.id[1][Len(s.id[1])] ELSE s.service
      bare(s) == [s EXCEPT !.kind = None, !.rpc = IF story.named THEN Short(callee(s)) ELSE None]
      joined(s) == [bare(s) EXCEPT !.parent = IF s.parent = None THEN None
                                             ELSE <<Front(s.id[1]), s.id[2], "server", 1>>]
  IN  IF story.export.collapsed THEN {joined(s) : s \in {t \in all : t.kind = "server"}}
      ELSE {bare(s) : s \in all}

(* What a case has: the spans, and the metric that shows the fault, of the  *)
(* service by its short name, by which the case also says where it was.     *)
Export == [spans |-> Exported, rows |-> <<>>, service |-> Short(origin),
           columns |-> Column(Short(origin), IF kind = "slow" THEN "latency" ELSE "error", <<1, 3>>)]

Change(id, service, time) == [id |-> id, service |-> service, time |-> time]

(* The change that caused the fault, one made elsewhere since, and one made *)
(* on the same service when it was on.                                      *)
Changes(o) ==
  {{Change("culprit", o, Culprit), Change("elsewhere", s, Culprit + 1), Change("late", o, t)} :
     s \in Traced \ {o}, t \in {Onset + 1, Onset + 3}}

SpanInit ==
  /\ edges \in TracedGraphs
  /\ kind \in {"service", "edge", "slow", "network"}
  /\ origin \in Traced
  /\ Told
  /\ remote = Spans
  /\ changes \in Changes(origin)
  /\ effects = <<>> /\ ranked = <<>>

ConvertedInit ==
  /\ edges \in TracedGraphs
  /\ kind \in {"service", "slow"}
  /\ origin \in Traced
  /\ story \in {[q EXCEPT !.export = x] :
                  q \in {[Quiet EXCEPT !.noise = n] : n \in Roots(edges)}
                         \cup {[Quiet EXCEPT !.named = b] : b \in BOOLEAN},
                  x \in Exports}
  /\ \E case \in convert_re2_case(Export, story.export.window, story.export.cap) :
       remote = case.traces
  /\ changes = {} /\ effects = <<>> /\ ranked = <<>>

StepInit == Init /\ story = Quiet /\ remote = {} /\ changes = {}

NoSeries == [what |-> "none"]

OnlySeries ==
  /\ edges = {} /\ kind = "none" /\ origin = 1 /\ effects = <<>> /\ ranked = <<>>
  /\ story = Quiet /\ remote = {} /\ changes = {}

IncidentInit ==
  /\ \/ SpanInit /\ series = NoSeries /\ backend \in {"newrelic", "lgtm"}
     \/ ConvertedInit /\ series = NoSeries /\ backend = "fixture"
     \/ StepInit /\ series = NoSeries /\ backend = "newrelic"
     \/ /\ OnlySeries /\ backend = "newrelic"
        /\ \/ SeriesInit \/ ConversionInit \/ SignalInit \/ BackendsInit \/ QualityInit
           \/ series \in Sweeps \/ series \in Repeats
  /\ StoreInit

Hydration ==
  /\ remote # {}
  /\ StoreNext
  /\ UNCHANGED <<rankVars, changes, story, series>>

Ranking ==
  /\ remote = {} /\ series = NoSeries
  /\ Resolve
  /\ UNCHANGED <<remote, store, changes, story, series>>

IncidentSpec == IncidentInit /\ [][Hydration \/ Ranking]_incidentVars
-----------------------------------------------------------------------------
Recorded == index # None /\ story.export = None
Converted == index # None /\ story.export # None
Known == Recorded /\ index = remote

(* A sample of traces with one in it that shows the fault will do as well.  *)
Sampled ==
  /\ Recorded
  /\ index = remote \/ (backend = "lgtm" /\ \E s \in index : s.error /\ s.time > Onset)

(* A background error cannot be deeper than the fault. *)
Deeper == story.noise = None \/ kind # "service" \/ origin \notin Roots(edges)

(* What a converted case lets be told: the service is known by its own spans *)
(* of the server, and nothing was cut off after the fault.                  *)
CallingServices == {e[1] : e \in edges}
OnsetSecond == onset_second(story.export.window)
IsWhole == story.export.window.end = WindowEnd
Shows == \E s \in index : s.error /\ s.service = origin /\ s.time >= OnsetSecond

(* Conversion keeps the fault findable: an error is still found at its       *)
(* service, a slow one by its own time, and the report is graded correct.    *)
(* Where no client has a span of its own a service that calls others is      *)
(* taken for the caller of an edge, and neither it nor an entry service is   *)
(* ever found slow (re2.py:156-262, rcaeval_grader.py:17-30).                *)
ConvertedFaultIsFound ==
  Converted =>
    LET hidden == story.export.collapsed /\ origin \in CallingServices
        accepted == {_svc(Export.service, {s.service : s \in Export.spans})}
    IN  /\ kind = "service" /\ IsWhole /\ Shows /\ (story.noise = None \/ origin \notin Roots(edges)) =>
             \A answer \in traces_error_origin :
               /\ ~hidden => answer = Of("service", None, origin)
               /\ hidden => answer.class = "edge" /\ answer.caller = origin
               /\ grade_localization(answer, accepted) = ~hidden
        /\ kind = "slow" /\ IsWhole /\ Cardinality(index) > 6 /\ story.export.cap > 6 =>
             traces_latency_origin(OnsetSecond) = IF hidden \/ origin \in Roots(edges) THEN {} ELSE {origin}

(* No call is made up by conversion, but for one by a short name; when the   *)
(* spans of clients are there and all are kept, none is missing; when not,   *)
(* only calls of services that call no other are seen. Traces are kept whole *)
(* and no more than fit (re2.py:156-200).                                    *)
ConvertedGraphIsSound ==
  Converted =>
    LET found == {e \in traces_build_topology : e[2] \in Traced}
        called == {e \in edges : e[2] \in CallingServices}
        rows == {s \in Export.spans : in_window(s.time, story.export.window)}
    IN  /\ found \subseteq edges
        /\ \A e \in traces_build_topology \ found :
             story.named /\ (<<e[1], -e[2]>> \in edges \/ e[1] = -e[2])
        /\ ~story.export.collapsed /\ IsWhole /\ Cardinality(index) = Cardinality(rows) => found = edges
        /\ story.export.collapsed => found \cap called = {}
        /\ \A s \in index : {t.id : t \in OfTrace(s.trace, rows)} = {t.id : t \in get_trace(s.trace)}
        /\ Cardinality(index) > story.export.cap => Cardinality({s.trace : s \in index}) = 1

(* Every error fault is traced to where it is, and as what it is, through    *)
(* callers that pass errors on or handle them, past an unrelated error, and  *)
(* from a sample of the traces as well as from all of them; the graph tool   *)
(* agrees where the failing call names its callee (traces.py:396-463,        *)
(* topology.py:141-178, lgtm/store.py:246-306).                              *)
RecordedFaultIsFound ==
  Sampled /\ kind \in {"service", "edge"} /\ Deeper =>
    LET blamed == IF kind = "service" THEN Of("service", None, origin)
                  ELSE Of("edge", origin, IF story.named THEN story.target ELSE None)
    IN  /\ traces_error_origin = {blamed}
        /\ (kind = "edge" => story.named) /\ (kind = "service" => origin \notin Roots(edges))
             => topology_locate_origin = [blamed EXCEPT !.caller = None]

TreeIsWhole(t) ==
  LET tree == traces_span_tree(t)
  IN  /\ Len(tree) = Cardinality(get_trace(t)) /\ {n.span : n \in Range(tree)} = get_trace(t)
      /\ \A i \in DOMAIN tree : tree[i].depth > 0 =>
           \E j \in 1..(i - 1) : /\ tree[j].span.id = tree[i].span.parent
                                 /\ tree[j].depth = tree[i].depth - 1
                                 /\ \A k \in (j + 1)..i : tree[k].depth > tree[j].depth

ShowsFault(t) == \E s \in get_trace(t) : s.error /\ s.service = origin /\ s.time > Onset

(* What was at fault, as a span of it is shown. *)
IsFault(row) ==
  /\ row.service = origin
  /\ row.kind = IF kind = "edge" THEN "client" ELSE "server"
  /\ kind = "edge" => row.callee = IF story.named THEN story.target ELSE None

(* Read from the top, a failing trace has the fault last. *)
ErrorsLeadTo(rows) ==
  LET failing == {r \in rows : r.error}
  IN  \A r \in failing : (\A q \in failing : q.time <= r.time) => IsFault(r)

(* The search that tests a service, or an edge, finds the fault first.      *)
SearchFinds ==
  \A found \in
       IF kind = "service" THEN traces_find(origin, "server", TRUE, None, Onset, 1)
       ELSE traces_find(origin, "client", TRUE, IF story.named THEN story.target ELSE None, Onset, 1) :
    found.spans # {} /\ \A r \in found.spans : IsFault(r)

(* The services that failed since onset. *)
FailedSince == {s.service : s \in {e \in Errors : e.time > Onset}}

(* The failing traces that a tool picks for the service at fault have the    *)
(* fault in them, as their last error, and the healthy one has not, unless   *)
(* it failed before as well. The searches made to test a service or an edge  *)
(* find it; from each other service that fails a failing callee leads on;    *)
(* and no way there is shorter than the critical path (traces.py:465-511,    *)
(* 618-662, correlate.py:125-148, topology.py:72-138).                       *)
FaultIsShown ==
  Known /\ kind \in {"service", "edge"} /\ story.noise # origin =>
    LET picked == traces_compare_pre_post(origin, Onset)
    IN  /\ Exemplars(origin, Onset, 1) # {}
        /\ \A t \in Exemplars(origin, Onset, 2) \cup picked.failing : ShowsFault(t)
        /\ picked.healthy # {} /\ \A t \in picked.healthy : ~ShowsFault(t)
        /\ kind = "service" => traces_service_summary(origin).serverErrors > 0
        /\ \A t \in picked.failing : ErrorsLeadTo(traces_get_trace(t))
        /\ SearchFinds
        /\ \A s \in FailedSince \ {origin} : topology_dependencies(s).callees \cap FailedSince # {}
        /\ \A r \in Roots(edges) :
             \A p \in _shortest_path(traces_build_topology, r, origin) :
               \A q \in Paths(edges) : q[1] = r /\ Last(q) = origin => Len(p) <= Len(q)

(* One trace shows what the whole shows: each span of it is in its tree once *)
(* and below its caller, though its caller was not indexed, and lasts no     *)
(* longer than the root; and what fails waits for the service at fault       *)
(* (traces.py:559-616, topology.py:56-125).                                  *)
TracesShowFault ==
  /\ Known \/ Converted => \A t \in {s.trace : s \in index} : TreeIsWhole(t)
  /\ Known => \A s \in index : s.dur <= root_duration(s.trace)
  /\ Known /\ kind \in {"service", "edge"} /\ story.noise # origin =>
       FailedSince \subseteq {origin} \cup upstream(traces_build_topology, origin)

(* A service that became slow is found by its own time, whoever waits for it *)
(* and whoever is slow at any time. No service explains a bad network better *)
(* than the one that has it; when several call it it is the one named, and   *)
(* told from a slow one, unless its own calls are delayed with it. A caller  *)
(* of its own it may tie with and lose to. The slowest operation is always   *)
(* an entry that waits for the slow service (traces.py:128-346, 513-533).    *)
SlownessIsRight ==
  Known =>
    /\ kind = "slow" => traces_latency_origin(Onset) = {origin}
    /\ traces_slowest_operations(Onset) \subseteq Roots(edges)
    /\ kind = "slow" /\ story.heavy = None =>
         \A s \in traces_slowest_operations(Onset) : Reaches(traces_build_topology, s, origin)
    /\ kind = "network" =>
         /\ origin \in Best(Degraded(Onset), Onset)
         /\ Cardinality(Callers(origin)) > 1 =>
              \A answer \in traces_edge_latency_origin(Onset) :
                /\ answer.service = origin
                /\ ~story.outbound => answer.class = "network_edge"

(* No change of its own service lies between the culprit and the first error.*)
Unmistaken == \A c \in changes : c.service = origin /\ Culprit < c.time => c.time >= traces_first_error_time

Truth ==
  [at |-> IF kind = "service" THEN Of("service", None, origin) ELSE Of("edge", origin, story.target),
   accepted |-> {origin}, culprit |-> "culprit", decoys |-> {"late"}]

Suspect(answer) == IF answer.service = None THEN answer.caller ELSE answer.service

(* What is handed in of an answer and a change taken for the culprit. *)
Draft(answer, c, onset) ==
  [at |-> answer, culprit |-> c.id,
   evidence |-> report_build_evidence(Suspect(answer), onset, c.id).evidence,
   ruledOut |-> {d.id : d \in {e \in changes : ChangeRuledOut(e, onset)}}]

(* A report of the answers of the tools is graded correct, where the failing *)
(* call names its callee, and with it the change made too late as no culprit;*)
(* the check of the draft passes exactly those; and the evidence has the     *)
(* errors of a service at fault (grader.py:35-70, report.py:45-113).         *)
ReportIsGraded ==
  Known /\ kind \in {"service", "edge"} /\ story.noise = None /\ Unmistaken =>
    \A answer \in traces_error_origin, c \in changes_rank_culprit(origin, traces_first_error_time) :
      LET report == Draft(answer, c, traces_first_error_time)
          graded == grade(report, Truth)
      IN  /\ graded.culprit /\ graded.decoys
          /\ graded.correct = (kind = "service" \/ story.named)
          /\ graded.correct = (report_self_check(report) = {})
          /\ kind = "service" => "errors" \in report.evidence

(* The tools blame what was at fault, and show it; a report of it is graded so. *)
AttributionIsRight == RecordedFaultIsFound /\ FaultIsShown /\ ReportIsGraded

(* What caused the fault is never eliminated on the way to the report: not   *)
(* its service by a hypothesis test, not its change by the onset taken from  *)
(* the first error, nor by a change elsewhere or one made when the errors    *)
(* had begun (hypothesis.py:57-166, changes.py:32-77).                       *)
CulpritSurvives ==
  Known =>
    /\ kind = "service" =>
         ~ServiceRuledOut(origin, Onset) /\ Supported(Of("service", None, origin), Onset)
    /\ kind = "edge" /\ story.named => Supported(Of("edge", origin, story.target), Onset)
    /\ kind \in {"service", "edge"} /\ story.noise = None =>
         LET onset == traces_first_error_time
         IN  /\ \A c \in changes : c.id = "culprit" => ~ChangeRuledOut(c, onset)
             /\ Unmistaken =>
                  /\ {c.id : c \in changes_rank_culprit(origin, onset)} = {"culprit"}
                  /\ {c.id : c \in NearestBefore(origin, onset)} = {"culprit"}

(* No tool sees a call that was not made, however little was hydrated. With  *)
(* the whole window they see every call, and since onset fail exactly the    *)
(* calls that the error came up, the one that never arrived included if its  *)
(* operation names the callee (traces.py:83-105, topology.py:32-53, 181-195).*)
GraphIsRebuilt ==
  Recorded =>
    /\ traces_build_topology \subseteq edges
    /\ index = remote =>
         /\ traces_build_topology = edges
         /\ topology_compare(Onset) =
              {<<p[Len(p) - 1], p[Len(p)]>> : p \in
                 {s.id[1] : s \in {e \in Errors : e.kind = "client" /\ callee_of(e) # None}}}
         /\ kind = "edge" /\ story.named => <<origin, story.target>> \in topology_compare(Onset)

(* What a report shows beside its verdict is right: the traces, the slow     *)
(* service, which no test rules out, and the culprit before the onset        *)
(* (hypothesis.py:28-63, correlate.py:77-93).                                *)
EvidenceIsRight ==
  /\ TracesShowFault /\ SlownessIsRight
  /\ Known /\ kind = "slow" =>
       ~ServiceRuledOut(origin, Onset) /\ Supported(Of("service", None, origin), Onset)
  /\ Known /\ kind \in {"service", "edge"} /\ story.noise = None /\ Unmistaken =>
       LET line == correlate_timeline(changes, traces_first_error_time).entries
       IN  \E i, j \in DOMAIN line : i < j /\ line[i].id = "culprit" /\ line[j].id = Nothing

(* Series, rows, fixtures, cases and books stand for what they were made of, *)
(* as the conjuncts say where they are defined.                              *)
RowsAreRepresented ==
  /\ TimesAreRight /\ CaseIsRepresented /\ SignalsAgree /\ BackendsAgree /\ QualityIsSound
  /\ ConvertedFaultIsFound /\ ConvertedGraphIsSound
  /\ series.what = "sweep" => SweepIsBooked(series.cases, series.ceiling)
  /\ series.what = "repeats" => RatesAreOrdered(series.runs)

(* What the tools build their answers on is what was there: the index as far *)
(* as pages allow, and the graph of calls and its failures from it           *)
(* (newrelic/store.py:220-254, traces.py:83-105).                            *)
IndexIsFaithful == IndexComplete /\ GraphIsRebuilt
=============================================================================
