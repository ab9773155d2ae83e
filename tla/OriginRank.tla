----------------------------- MODULE OriginRank -----------------------------
(***************************************************************************)
(* Where a fault is looked for first: resolve_topology picks a graph and   *)
(* _rank orders its services by the metric steps seen at onset, by rules   *)
(* that depend on the family which stepped most (sentinel/oss/topology.py).*)
(*                                                                         *)
(* Services are 1..N, the number standing for the name's place in          *)
(* alphabetical order. The initial states are incidents: a graph, a fault  *)
(* and the effects which the fault has by the propagation rules that the   *)
(* code states for its family (topology.py:84-95, 146-149).                *)
(***************************************************************************)
EXTENDS Integers, Sequences, FiniteSets, SequencesExt, FiniteSetsExt

CONSTANTS N,          \* number of services
          Synthetic,  \* _SYNTHETIC_ROLES among them
          ZMin,       \* Z_MIN
          Kinds       \* faults considered

ASSUME RankAssumption == /\ N \in Nat \ {0}
                         /\ Synthetic \subseteq 1..N
                         /\ ZMin \in Nat \ {0}
                         /\ Kinds \subseteq {"resource", "latency", "error", "loss", "none"}

Services == 1..N
Families == <<"resource", "latency", "error">>   \* in the order of the dict
FamilySet == {"resource", "latency", "error"}

VARIABLES
  edges,          \* <<caller, callee>> pairs of the chosen graph
  effects,        \* service -> family -> z
  ranked,         \* ranked_services, <<>> until resolved
  kind, origin    \* history: the fault, and the service it is in

incident == <<kind, origin>>
rankVars == <<edges, effects, ranked, incident>>
-----------------------------------------------------------------------------
Nodes      == UNION {{e[1], e[2]} : e \in edges}
Callees(s) == {e[2] : e \in {d \in edges : d[1] = s}}
Callers(s) == {e[1] : e \in {d \in edges : d[2] = s}}
Demoted    == {s \in Nodes : Callers(s) = {}} \cup (Synthetic \cap Nodes)

Z(s, fam)  == effects[s][fam]
MaxZ(s)    == Max({Z(s, fam) : fam \in FamilySet})
Anomalous  == {s \in Nodes : MaxZ(s) >= ZMin}
TopZ       == Max({MaxZ(s) : s \in Nodes})

(* The families that may be found dominant: the services are visited in no  *)
(* fixed order, the families of one service in the order of its dict.       *)
FirstFamily(s) == LET Peaks == {i \in 1..3 : Z(s, Families[i]) = MaxZ(s)}
                  IN  Families[Min(Peaks)]
Dominants == {FirstFamily(s) : s \in {t \in Nodes : MaxZ(t) = TopZ}}

Flag(p) == IF p THEN 0 ELSE 1     \* the better side of a test sorts first

(* Tuples compared from the left; the services' names settle every tie.     *)
Precedes(k, l) ==
  \E i \in 1..Len(k) : k[i] < l[i] /\ \A j \in 1..(i - 1) : k[j] = l[j]

(* The members of S in a total order of them: one after as many as precede  *)
(* it.                                                                      *)
inOrder(S, before) ==
  [k \in 1..Cardinality(S) |->
     CHOOSE s \in S : Cardinality({t \in S : <<t, s>> \in before}) = k - 1]

(* The services that keys end in, in the order of their keys. *)
SortedBy(keys) ==
  LET sorted == inOrder(keys, {p \in keys \X keys : Precedes(p[1], p[2])})
  IN  [i \in DOMAIN sorted |-> Last(sorted[i])]

(* What is in S of an order, as it stands there. *)
Kept(order, S) ==
  LET places == {i \in 1..Len(order) : order[i] \in S}
  IN  [k \in 1..Cardinality(places) |->
         order[CHOOSE i \in places : Cardinality({j \in places : j < i}) = k - 1]]

(* dom_z < Z_MIN: nothing stepped. *)
QuietKey(s) == <<-MaxZ(s), Flag(s \notin Demoted), s>>

ResourceKey(s) == <<-Z(s, "resource"), Flag(s \notin Synthetic), -MaxZ(s), s>>

Stepped(fam) == {s \in Nodes : Z(s, fam) >= ZMin}

(* Latency of the anomalous services within one hop of s: its coverage of   *)
(* the star, not yet divided by the total. A sum is the size of a union.    *)
Mass(S) == Cardinality(UNION {{s} \X (1..Z(s, "latency")) : s \in S})
Cover(s) == IF s \in Stepped("latency")
              THEN Mass(Stepped("latency") \cap ({s} \cup Callees(s) \cup Callers(s)))
              ELSE 0
NearBest(s) == LET best == Max({Cover(t) : t \in Nodes})
               IN  20 * Cover(s) >= 20 * best - Mass(Stepped("latency"))

LatencyKey(s) == <<Flag(s \in Stepped("latency")), Flag(NearBest(s)),
                   Flag(s \notin Demoted), -Cover(s), -MaxZ(s), s>>

(* Slip for ErrorKey: the largest error first, however deep. *)
ErrorKeyLoudest(s) == <<Flag(s \in Stepped("error")), 0, 0, -Z(s, "error"), s>>

ErrorKey(s) == <<Flag(s \in Stepped("error")),
                 Flag(s \in Stepped("error") /\ Callees(s) \cap Stepped("error") = {}),
                 Flag(s \notin Demoted), -Z(s, "error"), s>>

(* The distress of a service that loses requests. *)
Transit(s) == Max({Z(s, "latency"), Z(s, "resource")})

(* Under loss the origin shows transit distress and no errors of its own:   *)
(* descend from the deepest failing service to its callee in distress.      *)
Descended(order) ==
  LET deepest == Head(order)
      lossy   == {c \in Callees(deepest) \ Stepped("error") : Transit(c) >= ZMin}
      worst   == {c \in lossy : \A d \in lossy : Transit(d) <= Transit(c)}
  IN  IF deepest \in Stepped("error") /\ lossy # {}
        THEN {<<c>> \o Kept(order, Nodes \ {c}) : c \in worst}
        ELSE {order}

(* The rankings _rank may return. *)
RankBy(fam) ==
  CASE fam = "resource" -> {SortedBy({ResourceKey(s) : s \in Nodes})}
    [] fam = "latency"  -> {SortedBy({LatencyKey(s) : s \in Nodes})}
    [] fam = "error"    -> Descended(SortedBy({ErrorKey(s) : s \in Nodes}))
Rankings == IF TopZ < ZMin THEN {SortedBy({QuietKey(s) : s \in Nodes})}
            ELSE UNION {RankBy(fam) : fam \in Dominants}
-----------------------------------------------------------------------------
(* The incidents. A graph is any set of calls without cycles that involves  *)
(* every service; a quiet series is at zero or just under the threshold, a  *)
(* stepped one at the threshold or well above it.                           *)
Pairs  == {p \in Services \X Services : p[1] # p[2]}
QuietZ == {0, ZMin - 1}
StepZ  == {ZMin, ZMin + 2}

(* Acyclic: some numbering of the services descends along every call.       *)
Graphs == {G \in SUBSET Pairs :
             /\ UNION {{e[1], e[2]} : e \in G} = Services
             /\ \E depth \in [Services -> Services] : \A e \in G : depth[e[1]] < depth[e[2]]}

Neighbours(G, s) == {t \in Services : <<s, t>> \in G \/ <<t, s>> \in G}

(* The families of one service from the z of one of them and a quiet rest.  *)
Only(fam, z, rest) == [f \in FamilySet |-> IF f = fam THEN z ELSE rest]

(* Host contention lifts everybody's resources a little. *)
ResourceFault(G, o) ==
  {[s \in Services |-> Only("resource", IF s = o THEN ZMin + 4 ELSE z[s], 0)] :
     z \in [Services -> QuietZ \cup {ZMin}]}

(* The delay shows at the service and at some of its neighbours.            *)
LatencyFault(G, o) ==
  UNION {{[s \in Services |-> Only("latency", IF s \in W \cup {o} THEN z[s] ELSE q, 0)] :
            z \in [Services -> StepZ], q \in QuietZ} : W \in SUBSET Neighbours(G, o)}

(* Errors travel from callee to caller only. *)
Failing(G, o, V) == \A v \in V : \E e \in G : e[1] = v /\ e[2] \in V \cup {o}
Reach(G, o) == {V \in SUBSET (Services \ {o}) : Failing(G, o, V)}
ErrorFault(G, o) ==
  UNION {{[s \in Services |-> Only("error", IF s \in V \cup {o} THEN z[s] ELSE q, 0)] :
            z \in [Services -> StepZ], q \in QuietZ} : V \in Reach(G, o)}

(* Callers of a lossy service fail; it shows a step of another family.      *)
LossFault(G, o) ==
  UNION {{[s \in Services |->
             IF s = o THEN Only(fam, ZMin, q)
             ELSE Only("error", IF s \in V THEN z[s] ELSE q, 0)] :
            z \in [Services -> {ZMin + 1, ZMin + 2}], q \in QuietZ,
            fam \in {"latency", "resource"}} : V \in Reach(G, o) \ {{}}}

NoFault(G, o) == {[s \in Services |-> Only("latency", z[s], 0)] : z \in [Services -> QuietZ]}

EffectsOf(k, G, o) == CASE k = "resource" -> ResourceFault(G, o)
                        [] k = "latency"  -> LatencyFault(G, o)
                        [] k = "error"    -> ErrorFault(G, o)
                        [] k = "loss"     -> LossFault(G, o)
                        [] k = "none"     -> NoFault(G, o)

Init ==
  /\ edges \in Graphs
  /\ kind \in Kinds
  /\ origin \in Services
  /\ effects \in EffectsOf(kind, edges, origin)
  /\ ranked = <<>>

(* resolve_topology on the graph it has found. *)
Resolve ==
  /\ ranked = <<>>
  /\ ranked' \in Rankings
  /\ UNCHANGED <<edges, effects, incident>>

Spec == Init /\ [][Resolve]_rankVars
-----------------------------------------------------------------------------
TypeOK ==
  /\ edges \subseteq Pairs
  /\ effects \in [Services -> [FamilySet -> 0..(ZMin + 4)]]
  /\ ranked \in Seq(Services)
  /\ kind \in Kinds /\ origin \in Services

(* A ranking loses no service and repeats none, whatever is moved to the     *)
(* front of it (topology.py:145-158).                                        *)
RanksEveryService == ranked # <<>> => IsInjective(ranked) /\ ToSet(ranked) = Nodes

(* "Origin-first" (topology.py:7-9): by the propagation the code itself      *)
(* states, the service at fault is ranked first when the fault is one of     *)
(* resources, errors or loss, in every acyclic graph.                        *)
OriginFirst ==
  ranked # <<>> /\ kind \in {"resource", "error", "loss"} => Head(ranked) = origin

(* A slow service is ranked first when it is the star's centre: no other     *)
(* service that is not an entry covers as much of the latency as it does.    *)
StarCentreFirst ==
  /\ ranked # <<>> /\ kind = "latency"
  /\ origin \notin Demoted
  /\ \A s \in Nodes \ (Demoted \cup {origin}) : ~NearBest(s) \/ s \notin Stepped("latency")
  => Head(ranked) = origin

(* The ranking is one of all services with the origin first, whatever the    *)
(* family of the fault and however far it spread (topology.py:76-159).       *)
OriginComesFirst == RanksEveryService /\ OriginFirst /\ StarCentreFirst
=============================================================================
