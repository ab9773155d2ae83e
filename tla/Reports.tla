------------------------------ MODULE Reports ------------------------------
(***************************************************************************)
(* From what the tools found to the report: looking up the spans that show *)
(* the fault (tools/traces.py), putting the evidence together and checking *)
(* the draft before it is handed in (tools/report.py).                     *)
(***************************************************************************)
EXTENDS TraceTools, Backends

(* A span as the agent sees it: only a call has a callee. *)
_summary(s) == [id |-> s.id, service |-> s.service, kind |-> s.kind, error |-> s.error, time |-> s.time,
                callee |-> IF s.kind = "client" THEN callee_of(s) ELSE None]

traces_get_trace(t) == {_summary(s) : s \in get_trace(t)}

(* traces_find: what may be the earliest of the spans that pass; a filter   *)
(* that is None lets all pass.                                              *)
Passes(want, has) == want = None \/ want = has
traces_find(service, kind, error, callee, start, limit) ==
  LET matched == {s \in all_spans : /\ Passes(service, s.service) /\ Passes(kind, s.kind)
                                    /\ Passes(error, s.error) /\ s.time >= start
                                    /\ callee # None => callee_of(s) = callee}
      total == Cardinality(matched)
      shown == {X \in kSubset(Min({limit, total}), matched) :
                  \A s \in X, t \in matched \ X : s.time <= t.time}
  IN  {[spans |-> {_summary(s) : s \in X}, total |-> total, truncated |-> total > limit] : X \in shown}

(* traces_slowest_operations: the services whose operation may come first.  *)
traces_slowest_operations(start) ==
  LET spans == {s \in all_spans : s.time >= start}
      group(s) == <<s.service, s.rpc, s.kind>>
      p95 == [g \in {group(s) : s \in spans} |-> P95(Durations({s \in spans : group(s) = g}))]
      most == Max({p95[g] : g \in DOMAIN p95})
  IN  {g[1] : g \in {h \in DOMAIN p95 : p95[h] = most}}

topology_dependencies(service) ==
  LET E == traces_build_topology
  IN  [callers |-> {e[1] : e \in {d \in E : d[2] = service}},
       callees |-> {e[2] : e \in {d \in E : d[1] = service}}]
-----------------------------------------------------------------------------
(* report_build_evidence, of the metrics with latency alone. *)
report_build_evidence(service, onset, culprit) ==
  [evidence |-> {e \in {"errors", "latency", "culprit"} :
                   CASE e = "errors"  -> find_spans(service, "server", TRUE) # {}
                     [] e = "latency" -> LatencyRises(service, onset)
                     [] e = "culprit" -> \E c \in changes : c.id = culprit},
   timeline |-> correlate_timeline(changes, onset).entries]

(* report_self_check: what is wrong with a draft. *)
report_self_check(report) ==
  LET at == report.at
      known == {c.id : c \in changes}
  IN  {issue \in {"service", "edge", "culprit", "ruled out", "evidence"} :
         CASE issue = "service"   -> at.class = "service" /\ at.service = None
           [] issue = "edge"      -> at.class = "edge" /\ None \in {at.caller, at.service}
           [] issue = "culprit"   -> report.culprit \notin known
           [] issue = "ruled out" -> report.culprit \in report.ruledOut
           [] issue = "evidence"  -> report.evidence = {}}
=============================================================================
