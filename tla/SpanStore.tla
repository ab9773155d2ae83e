------------------------------ MODULE SpanStore ------------------------------
(***************************************************************************)
(* The telemetry stores as the tools meet them: a span index, hydrated     *)
(* once and on demand from a backend without joins that caps its results   *)
(* (newrelic/store.py), or once from a sample of the traces, each of which *)
(* is fetched by itself (lgtm/store.py), or read from a fixture; and the   *)
(* queries over it (tools/store.py). Hydration holds the store's lock from *)
(* start to end, so one thread stands for all.                             *)
(***************************************************************************)
EXTENDS Integers, Sequences, FiniteSets, FiniteSetsExt

CONSTANTS WindowEnd,    \* the window is 0..WindowEnd, in seconds
          ChunkLen,     \* chunk_ms
          MinChunk,     \* _MIN_CHUNK_MS
          PageLimit,    \* _PAGE_LIMIT: rows of one answer at most
          TraceCap,     \* trace_cap: traces of a sample at most
          MaxFailures,  \* bound on queries that fail for good
          None

ASSUME StoreAssumption ==
  /\ {WindowEnd, ChunkLen, MinChunk, PageLimit, TraceCap} \subseteq Nat \ {0}
  /\ MaxFailures \in Nat

VARIABLES
  remote,     \* the spans the backend has
  index,      \* _spans: None, or the spans of the index
  pending,    \* chunks still to fetch, in order
  raw,        \* spans fetched so far
  failures,
  backend     \* the store in use

store == <<index, pending, raw, failures, backend>>

StoreInit == /\ index = None /\ pending = <<>> /\ raw = {} /\ failures = 0
             /\ backend \in {"newrelic", "lgtm", "fixture"}

(* The chunks of the window, one after the other; neighbours share a bound. *)
Chunks == [i \in 1..((WindowEnd + ChunkLen - 1) \div ChunkLen) |->
             <<(i - 1) * ChunkLen, Min({i * ChunkLen, WindowEnd})>>]

Rows(c) == {s \in remote : c[1] <= s.time /\ s.time <= c[2]}
Full(c) == Cardinality(Rows(c)) >= PageLimit

(* What the backend answers: all rows, or as many as it may, in no order.   *)
Pages(c) == IF Full(c) THEN kSubset(PageLimit, Rows(c)) ELSE {Rows(c)}
-----------------------------------------------------------------------------
(* The first query that needs the index finds none. *)
Hydrate ==
  /\ backend = "newrelic"
  /\ index = None /\ pending = <<>>
  /\ pending' = Chunks /\ raw' = {}
  /\ UNCHANGED <<remote, index, failures, backend>>

(* Where the rest of a full chunk is looked for: in its halves. *)
Halves(c) == LET middle == (c[1] + c[2]) \div 2
             IN  << <<c[1], middle>>, <<middle, c[2]>> >>

(* A full page is thrown away for its two halves, unless it is short.       *)
Split ==
  /\ pending # <<>>
  /\ Full(Head(pending)) /\ Head(pending)[2] - Head(pending)[1] > MinChunk
  /\ pending' = Halves(Head(pending)) \o Tail(pending)
  /\ UNCHANGED <<remote, index, raw, failures, backend>>

(* The rows of the last chunk become the index, once per span id.           *)
Stored(page) ==
  /\ pending' = Tail(pending)
  /\ IF Len(pending) = 1 THEN index' = raw \cup page /\ raw' = {}
                         ELSE raw' = raw \cup page /\ UNCHANGED index
  /\ UNCHANGED <<remote, failures, backend>>

(* Slip for Fetch: a full page is taken for all there is. *)
FetchFirstPage ==
  /\ pending # <<>>
  /\ \E page \in Pages(Head(pending)) : Stored(page)

Fetch ==
  /\ pending # <<>>
  /\ Full(Head(pending)) => Head(pending)[2] - Head(pending)[1] <= MinChunk
  /\ \E page \in Pages(Head(pending)) : Stored(page)

(* A query that fails after its retries fails the tool; nothing is kept and *)
(* the next tool hydrates anew.                                             *)
FetchFails ==
  /\ pending # <<>>
  /\ failures < MaxFailures
  /\ failures' = failures + 1
  /\ pending' = <<>> /\ raw' = {}
  /\ UNCHANGED <<remote, index, backend>>

(* The first trace_cap ids in lexicographic order, which has nothing to do  *)
(* with what is in the traces.                                              *)
Samples == LET ids == {s.trace : s \in remote}
           IN  kSubset(Min({TraceCap, Cardinality(ids)}), ids)

(* Each trace of the sample is fetched whole, or, on an HTTP error, is      *)
(* taken to be empty.                                                       *)
HydrateTraces ==
  /\ backend = "lgtm" /\ index = None
  /\ \E ids \in Samples : \E lost \in SUBSET ids :
       /\ failures + Cardinality(lost) <= MaxFailures
       /\ failures' = failures + Cardinality(lost)
       /\ index' = {s \in remote : s.trace \in ids \ lost}
  /\ UNCHANGED <<remote, pending, raw, backend>>

(* The enumeration, or a connection, fails: the tool does, and nothing is kept. *)
TracesFail ==
  /\ backend = "lgtm" /\ index = None
  /\ failures < MaxFailures
  /\ failures' = failures + 1
  /\ UNCHANGED <<remote, index, pending, raw, backend>>

(* A fixture is read once, when the store is made, and whole. *)
LoadFixture ==
  /\ backend = "fixture" /\ index = None
  /\ index' = remote
  /\ UNCHANGED <<remote, pending, raw, failures, backend>>

StoreNext == LoadFixture \/ Hydrate \/ Split \/ Fetch \/ FetchFails \/ HydrateTraces \/ TracesFail
-----------------------------------------------------------------------------
(* Queries. A span has an id, its parent's id or None, trace, time, service, *)
(* kind, error, dur, and rpc: the callee that its operation names, or None. *)
all_spans == IF index = None THEN {} ELSE index

children_of(id) == {s \in all_spans : s.parent = id}

(* callee_from: the server that took the call, of several any, or what the  *)
(* operation says.                                                          *)
callee_of(s) ==
  LET servers == {c \in children_of(s.id) : c.kind = "server"}
  IN  IF servers # {} THEN (CHOOSE c \in servers : TRUE).service ELSE s.rpc

get_trace(t) == {s \in all_spans : s.trace = t}

(* filter_spans, by service, kind and status. *)
find_spans(service, kind, error) ==
  {s \in all_spans : s.service = service /\ s.kind = kind /\ s.error = error}
-----------------------------------------------------------------------------
(* The index lacks a span of the window only where a shortest chunk is      *)
(* crowded with as many as one answer holds, whatever was split and however *)
(* often hydration failed and began anew (newrelic/store.py:220-254).       *)
IndexComplete ==
  index # None /\ backend = "newrelic" =>
    /\ index \subseteq remote
    /\ \A s \in remote \ index :
         \E lo \in 0..s.time, len \in 0..MinChunk : lo + len >= s.time /\ Full(<<lo, lo + len>>)
=============================================================================
