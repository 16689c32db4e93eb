------------------------------- MODULE Detectors -------------------------------
(***************************************************************************)
(* The detectors that propose blocks of a graph (analysis/detectors.py):   *)
(* scopes in the names an exporter left, branch/merge and residual regions *)
(* by dominators, operator motifs, and repeated windows of the dependency  *)
(* order.                                                                  *)
(*                                                                         *)
(* An artifact is a record: nodesOf, the operators of each graph, numbered *)
(* in the order of their declaration; edges; op, the type of an operator;  *)
(* sig, what its attributes and the types of its values add to that;       *)
(* scope, its source name but for the last part; bodies, the graphs inside *)
(* control flow; layered, whether it is a synthesized language model, and  *)
(* stems, the weight layers of its operators in that case.                 *)
(***************************************************************************)
EXTENDS Integers, FiniteSets, SequencesExt

CONSTANTS
  Artifacts,
  Nodes, Graphs,
  Removable,          \* bound: the nodes that graph edits remove and bring back
  KindPriority,       \* the code's table of kinds
  Patterns,           \* the motif library, in order
  MaxDominatorNodes,  \* MAX_EXACT_DOMINATOR_NODES
  MaxRepeatNodes      \* MAX_REPEAT_SCAN_NODES

Ranked(S, Better(_, _)) ==
  LET ranked[T \in SUBSET S] ==
        IF T = {} THEN <<>>
        ELSE LET best == CHOOSE x \in T : \A y \in T : y = x \/ Better(x, y)
             IN  <<best>> \o ranked[T \ {best}]
  IN  ranked[S]

\* The same function, as a table that is evaluated once.
Table(f) == f @@ <<>>

Earlier(m, n) == m < n
Declared(S)   == Ranked(S, Earlier)

\* An operator that is taken out hands its input to its consumers.
Wired(a, here) ==
  {e \in here \X here : \/ e \in a.edges
                        \/ \E n \in Nodes \ here : <<e[1], n>> \in a.edges /\ <<n, e[2]>> \in a.edges}

-----------------------------------------------------------------------------
(* GraphTopology: t.graph, t.nodes and t.edges. *)

Topology(a, here, graph) ==
  LET nodes == a.nodesOf[graph] \cap here
  IN  [graph |-> graph, nodes |-> nodes,
       edges |-> {e \in Wired(a, here) : e[1] \in nodes /\ e[2] \in nodes}]

Successors(t, n)   == {m \in t.nodes : <<n, m>> \in t.edges}
Predecessors(t, n) == {m \in t.nodes : <<m, n>> \in t.edges}
Reversed(t)        == [t EXCEPT !.edges = {<<e[2], e[1]>> : e \in @}]
Entries(t)         == {n \in t.nodes : Predecessors(t, n) = {}}

\* Nothing is looked for beyond the node to stop at.
Reachable(t, starts, stop) ==
  LET grown[seen \in SUBSET t.nodes] ==
        LET more == seen \cup {e[2] : e \in {d \in t.edges : d[1] \in seen \ stop}}
        IN  IF more = seen THEN seen ELSE grown[more]
  IN  grown[starts]

\* A depth-first walk with a stack of its own; roots and successors as declared.
ReversePostorder(t, roots) ==
  LET walk[stack \in Seq(t.nodes), post \in Seq(t.nodes)] ==
        LET seen  == ToSet(stack) \cup ToSet(post)
            fresh == IF stack = <<>> THEN roots \ seen ELSE Successors(t, Last(stack)) \ seen
        IN  IF fresh # {} THEN walk[Append(stack, Min(fresh)), post]
            ELSE IF stack = <<>> THEN Reverse(post)
            ELSE walk[Front(stack), Append(post, Last(stack))]
  IN  walk[<<>>, <<>>]

\* Nodes that only a cycle reaches come last, as declared.
WithRest(t, order) == order \o Declared(t.nodes \ ToSet(order))

-----------------------------------------------------------------------------
(* Structural regions. *)

\* _fixed_point_dominators: the sets shrink, sweep after sweep, until none changes.
Dominators(t) ==
  LET roots == IF Entries(t) = {} THEN t.nodes ELSE Entries(t)
      sweep == WithRest(t, ReversePostorder(t, roots))
      Updated(sets, n) ==
        IF n \in roots THEN sets
        ELSE [sets EXCEPT ![n] =
               {n} \cup {d \in t.nodes : Predecessors(t, n) # {} /\ \A p \in Predecessors(t, n) : d \in sets[p]}]
      settled[sets \in [t.nodes -> SUBSET t.nodes]] ==
        LET swept == FoldLeft(Updated, sets, sweep)
        IN  IF swept = sets THEN sets ELSE settled[swept]
  IN  settled[[n \in t.nodes |-> IF n \in roots THEN {n} ELSE t.nodes]]

\* The shared entry with the largest set; none unless every start reaches it.
NearestCommon(t, starts, sets) ==
  LET common  == {d \in t.nodes : \A s \in starts : d \in sets[s]}
      deepest == {d \in common : \A e \in common : Cardinality(sets[e]) <= Cardinality(sets[d])}
  IN  IF common # {} /\ \A s \in starts : Min(deepest) \in Reachable(t, {s}, {})
      THEN {Min(deepest)} ELSE {}

\* A candidate's id is a digest of these, its order among other ids is as good as any.
Proposed(graph, kind, conf, name, members) ==
  [id |-> 512 * (101 * KindPriority[kind] + conf) + FoldSet(LAMBDA n, b : b + 2 ^ (n - 1), 0, members),
   graph |-> graph, kind |-> kind, conf |-> conf, name |-> name, members |-> members]

\* From a branch to the node where all its paths meet.
BranchRegions(t, post) ==
  LET Region(b, m) == {b, m} \cup (Reachable(t, Successors(t, b), {m}) \cap Reachable(Reversed(t), {m}, {}))
      branches == {n \in t.nodes : Cardinality(Successors(t, n)) >= 2}
      regions  == UNION {{[merge |-> m, members |-> Region(b, m)] :
                            m \in NearestCommon(t, Successors(t, b), post) \ {b}} : b \in branches}
  IN  {Proposed(t.graph, "structural", 86, 300 + x.merge, x.members) :
         x \in {y \in regions : Cardinality(y.members) >= 3}}

\* From the closest dominator of both operands of an Add.
ResidualRegions(a, t, dom) ==
  LET Common(m) == {d \in t.nodes : \A p \in Predecessors(t, m) : d \in dom[p]}
      Closest(S) == Max({d \in S : \A e \in S : Cardinality(dom[e]) <= Cardinality(dom[d])})
      adds == {n \in t.nodes : a.op[n] = "Add" /\ Cardinality(Predecessors(t, n)) = 2}
      regions == {Reachable(t, {Closest(Common(m))}, {}) \cap Reachable(Reversed(t), {m}, {}) :
                    m \in {n \in adds : Common(n) # {}}}
  IN  {Proposed(t.graph, "structural", 90, 301, r) : r \in {x \in regions : Cardinality(x) >= 3}}

StructuralRegions(a, t) ==
  IF Cardinality(t.nodes) > MaxDominatorNodes THEN {}
  ELSE (UNION {BranchRegions(t, post) : post \in {Dominators(Reversed(t))}})
       \cup UNION {ResidualRegions(a, t, dom) : dom \in {Dominators(t)}}

-----------------------------------------------------------------------------
(* Scopes and control flow. *)

SourceScopes(a, t) ==
  LET prefixes == UNION {{SubSeq(a.scope[n], 1, k) : k \in 1..Len(a.scope[n])} : n \in t.nodes}
      Under(p) == {n \in t.nodes : IsPrefix(p, a.scope[n])}
  IN  {Proposed(t.graph, "source", Min({98, 72 + 4 * Len(p)}), Last(p), Under(p)) :
         p \in {q \in prefixes : Cardinality(Under(q)) >= 2}}
      \cup (IF t.graph \in a.bodies /\ t.nodes # {}
            THEN {Proposed(t.graph, "control-flow", 100, 302, t.nodes)} ELSE {})

-----------------------------------------------------------------------------
(* Motifs. *)

\* _advance: from an operator to the next stage across connectors, as long as there is
\* one way to go; nothing where there is none.
Advance(a, t, p, current, stage) ==
  LET hop[bridge \in Seq(t.nodes)] ==
        LET at     == IF bridge = <<>> THEN current ELSE Last(bridge)
            direct == {m \in Successors(t, at) : a.op[m] \in stage}
            hops   == {m \in Successors(t, at) : a.op[m] \in p.connectors}
        IN  CASE Cardinality(direct) = 1 -> bridge \o Declared(direct)
              [] \/ Cardinality(direct) > 1 \/ Cardinality(hops) # 1
                 \/ hops \subseteq ToSet(bridge) \/ Len(bridge) = p.run -> <<>>
              [] OTHER -> hop[bridge \o Declared(hops)]
  IN  hop[<<>>]

\* The operators of a match that starts at one, in order; <<>> if a stage is missing.
Matched(a, t, p, start) ==
  LET Further(walked, stage) ==
        IF walked = <<>> THEN <<>>
        ELSE LET step == Advance(a, t, p, Last(walked), stage)
             IN  IF step = <<>> THEN <<>> ELSE walked \o step
  IN  FoldLeft(Further, IF a.op[start] \in p.stages[1] THEN <<start>> ELSE <<>>, Tail(p.stages))

Motifs(a, t) ==
  UNION {{Proposed(t.graph, "pattern", Patterns[k].conf, 310 + k, ToSet(walked)) :
            walked \in {Matched(a, t, Patterns[k], n) : n \in t.nodes} \ {<<>>}} : k \in DOMAIN Patterns}

-----------------------------------------------------------------------------
(* Repeated windows of the dependency order.  Windows are bucketed by what     *)
(* their nodes look like, as by a hash without collisions, and their edges are *)
(* compared afterwards.                                                        *)

NodeSignature(a, n) == <<a.op[n], a.sig[n]>>
Looks(a, window)    == [i \in DOMAIN window |-> NodeSignature(a, window[i])]

\* A mutant: the edges inside a window are not part of it.
WindowSignatureOfNodes(a, t, window) == [nodes |-> Looks(a, window)]

WindowSignature(a, t, window) ==
  [nodes |-> Looks(a, window),
   edges |-> {e \in (DOMAIN window) \X (DOMAIN window) : <<window[e[1]], window[e[2]]>> \in t.edges}]

\* The windows that are kept of a list: none overlaps one before it, or a node taken.
Disjoint(windows, taken) ==
  LET Keep(kept, w) == IF ToSet(w) \cap (taken \cup UNION {ToSet(k) : k \in ToSet(kept)}) = {}
                       THEN Append(kept, w) ELSE kept
  IN  FoldLeft(Keep, <<>>, windows)

\* _groups_for_size: sequences of windows that are alike, those that explain most first.
GroupsForSize(a, t, order, size, blocked) ==
  LET Window(i) == SubSeq(order, i, i + size - 1)
      open   == {i \in 1..(Len(order) - size + 1) : ToSet(Window(i)) \cap blocked = {}}
      Picked(look) ==
        LET at == Declared({i \in open : Looks(a, Window(i)) = look})
        IN  Disjoint([k \in DOMAIN at |-> Window(at[k])], {})
      Alike(w, v) == WindowSignature(a, t, w) = WindowSignature(a, t, v)
      Confirmed(picked) == SelectSeq(picked, LAMBDA w : Alike(w, picked[1]))
      looks  == {Looks(a, Window(i)) : i \in open}
      groups == {g \in {Confirmed(p) : p \in {Picked(look) : look \in looks}} : Len(g) >= 2}
      Place(n)  == CHOOSE i \in DOMAIN order : order[i] = n
      Sooner(g, h) == \/ Len(g) > Len(h)
                      \/ Len(g) = Len(h) /\ Place(g[1][1]) < Place(h[1][1])
      Select(selected, g) ==
        LET taken == UNION {ToSet(w) : w \in UNION {ToSet(s) : s \in ToSet(selected)}}
            kept  == Disjoint(g, taken)
        IN  IF Len(kept) < 2 THEN selected ELSE Append(selected, kept)
  IN  FoldLeft(Select, <<>>, Ranked(groups, Sooner))

Windows(groups) == UNION {ToSet(g) : g \in ToSet(groups)}

\* The groups of one size, or of the first divisor of it that explains as much with as
\* few groups.
ChosenGroups(a, t, order, size, blocked) ==
  LET tried == {[by |-> d, groups |-> GroupsForSize(a, t, order, d, blocked)] :
                  d \in {e \in 2..size : size % e = 0}}
      Explains(x) == Cardinality(Windows(x.groups)) * x.by
      AsGood(x, y) == /\ x.groups # <<>> /\ Len(x.groups) <= Len(y.groups)
                      /\ Explains(x) >= Explains(y)
      good == {x \in tried : x.by = size \/ \E y \in tried : y.by = size /\ AsGood(x, y)}
  IN  (CHOOSE x \in good : \A y \in good : x.by <= y.by).groups

\* Sizes from the largest down; nodes of what was found are blocked from then on.
RepeatedGroups(a, t) ==
  LET roots   == IF Entries(t) = {} THEN t.nodes ELSE Entries(t)
      largest == Min({96, Cardinality(t.nodes) \div 2})
      sizes   == [k \in 1..(largest - 1) |-> largest + 1 - k]
      Found(order) ==
        LET Scan(found, size) ==
              found \o ChosenGroups(a, t, order, size, UNION {ToSet(w) : w \in Windows(found)})
        IN  FoldLeft(Scan, <<>>, sizes)
  IN  IF Cardinality(t.nodes) < 4 \/ Cardinality(t.nodes) > MaxRepeatNodes THEN <<>>
      ELSE CHOOSE found \in {Found(order) : order \in {WithRest(t, ReversePostorder(t, roots))}} : TRUE

\* The label is told by the first operators of the first window.
RepeatedBlocks(a, t) ==
  UNION {LET like == Min({n \in t.nodes : a.op[n] = a.op[g[1][1]]})
         IN  {Proposed(t.graph, "repeated", Min({98, 84 + Len(w)}), 400 + like, ToSet(w)) : w \in ToSet(g)} :
         g \in ToSet(RepeatedGroups(a, t))}

-----------------------------------------------------------------------------
\* pipeline_for_document and DetectionPipeline: a language model is not scanned for what
\* its synthesis has put into the names.
Detected(a, here) ==
  UNION {SourceScopes(a, t) \cup
           (IF a.layered THEN {} ELSE StructuralRegions(a, t) \cup Motifs(a, t) \cup RepeatedBlocks(a, t)) :
         t \in {Topology(a, here, graph) : graph \in Graphs}}

\* What is proposed for every artifact at each of its revisions.
Detections ==
  [a \in Artifacts |-> [here \in {Nodes \ gone : gone \in SUBSET Removable} |-> Detected(a, here)]]

-----------------------------------------------------------------------------
(* What the detectors promise, against definitions of their own. *)

\* n is on every path from an entry to m.
OnEveryPath(t, n, m) ==
  n = m \/ m \notin Reachable([t EXCEPT !.edges = {e \in @ : e[1] # n /\ e[2] # n}], Entries(t) \ {n}, {})

\* In an acyclic graph the fixed point is the dominator relation.
DominatorsExact(t) ==
  \A dom \in {Dominators(t)} : \A m \in t.nodes : dom[m] = {n \in t.nodes : OnEveryPath(t, n, m)}

\* A block is as connected as it looks: what is drawn as occurrences of one block has the
\* same operators joined by the same edges, and no operator is in two of them.
RepeatsAlike(a, t) ==
  LET groups == RepeatedGroups(a, t)
      Same(v, w) == /\ Looks(a, v) = Looks(a, w)
                    /\ \A i, j \in DOMAIN v : <<v[i], v[j]>> \in t.edges <=> <<w[i], w[j]>> \in t.edges
  IN  /\ \A g \in ToSet(groups) : \A v, w \in ToSet(g) : Same(v, w)
      /\ \A v, w \in Windows(groups) : v # w => ToSet(v) \cap ToSet(w) = {}

\* A region is left through its merge: no operator inside feeds one outside otherwise.
RegionsClosed(t) ==
  \A c \in BranchRegions(t, Dominators(Reversed(t))) :
    Cardinality({n \in c.members : \E m \in Successors(t, n) : m \notin c.members}) <= 1
=============================================================================
