------------------------------ MODULE SceneSlices ------------------------------
(***************************************************************************)
(* What the renderer is given (application/slices.py, analysis/lod.py,     *)
(* analysis/llm_layers.py, analysis/layout.py): the operators of one graph *)
(* collapsed to the groups of a hierarchy at one of four levels of detail, *)
(* and the cache that keeps such slices for every session of the service.  *)
(*                                                                         *)
(* Geometry is reduced to the rows of the layered layout: barycenters,     *)
(* sizes and coordinates only move glyphs within and between rows.         *)
(***************************************************************************)
EXTENDS HierarchyController

CONSTANTS
  MaxOverview,  \* max_architecture_nodes
  SliceCapacity \* cache_capacity of the slicer

Levels == <<"architecture", "block", "layer", "operator">>

Dataflow(here) == Wired(artifact, here)
Feeders == {n \in Nodes : artifact.op[n] \in {"Constant", "ConstantOfShape"}}
StemsOf == artifact.stems

-----------------------------------------------------------------------------
(* layered_order: longest paths from the sources; whatever Kahn's pass cannot  *)
(* place goes below everything else.                                           *)

Rows(ids, edges) ==
  LET Preds(n) == {m \in ids : <<m, n>> \in edges}
      pass[k \in 0..Cardinality(ids), rows \in [ids -> -1..Cardinality(ids)]] ==
        LET ready == {n \in ids : rows[n] < 0 /\ \A m \in Preds(n) : rows[m] >= 0}
        IN  IF ready = {} THEN rows
            ELSE pass[k + 1, Table([n \in ids |-> IF n \in ready THEN k ELSE rows[n]])]
      placed == pass[0, [n \in ids |-> -1]]
      Sure   == {n \in ids : placed[n] >= 0}
      Bottom == 1 + Max({0} \cup {placed[n] : n \in Sure}
                        \cup {1 + placed[e[1]] : e \in {d \in edges : d[1] \in Sure /\ d[2] \in ids \ Sure}})
  IN  Table([n \in ids |-> IF n \in Sure THEN placed[n] ELSE Bottom])

-----------------------------------------------------------------------------
(* Groups of one graph, as the forest orders them. *)

InGraph(v, graph)  == {g \in v : g.graph = graph}
Smaller(g, h)      == Before(<<Cardinality(g.members), IdOrder(g.id)>>,
                             <<Cardinality(h.members), IdOrder(h.id)>>)
Biggest(S)            == CHOOSE g \in S : \A h \in S : h = g \/ Smaller(h, g)
Supersets(v, g)    == {h \in v : h.graph = g.graph /\ g.members # h.members /\ g.members \subseteq h.members}
IsParent(v, h, g)  == h \in Supersets(v, g) /\ \A o \in Supersets(v, g) : o = h \/ Smaller(h, o)
Children(v, g)     == {c \in v : IsParent(v, g, c)}
RootsOf(v, graph)  == {g \in InGraph(v, graph) : Supersets(v, g) = {}}

-----------------------------------------------------------------------------
(* semantic_scene *)

KindsAt == [block |-> {"manual", "repeated", "structural", "source", "control-flow"},
            layer |-> {"manual", "pattern"}]

\* _selected_groups: an antichain, the user's groups and stronger evidence first.
SelectedGroups(v, graph, detail, allowed, root) ==
  LET Fit(g)   == g.members \subseteq allowed /\ Cardinality(g.members) >= 2
      pool     == IF detail = "architecture"
                  THEN IF root = NoRoot THEN RootsOf(v, graph) ELSE Children(v, Find(v, root))
                  ELSE {g \in InGraph(v, graph) : g.kind \in KindsAt[detail]
                          /\ (root = NoRoot \/ g.members # allowed)}
      size(g)  == IF detail = "architecture" THEN Cardinality(g.members) ELSE -Cardinality(g.members)
      rank(g)  == <<Flag(g.kind = "manual"), KindPriority[g.kind], size(g), g.conf, IdOrder(g.id)>>
      Better(g, h) == Before(rank(h), rank(g))
      Take(kept, g) == IF \E h \in kept : h.members \cap g.members # {} THEN kept ELSE kept \cup {g}
  IN  FoldLeft(Take, {}, Ranked({g \in pool : Fit(g)}, Better))

\* _drill_into_dominant: descend through groups that swallow the whole view.
Drilled(v, selected, allowed) ==
  LET Inside(g)   == {c \in Children(v, g) : Cardinality(c.members) >= 2 /\ c.members \subseteq allowed}
      Step(S) == IF S = {} THEN S
                 ELSE LET g == Biggest(S) IN
                      IF 10 * Cardinality(g.members) <= 8 * Cardinality(allowed) \/ Inside(g) = {}
                      THEN S ELSE (S \ {g}) \cup Inside(g)
      at[k \in 0..Cardinality(v)] == IF k = 0 THEN selected ELSE Step(at[k - 1])
  IN  at[Cardinality(v)]

Op(n) == <<"op", n>>

\* _fold_pure_feeders: an operator without producers in the whole graph, in no group,
\* that feeds one glyph is drawn as part of it.
Fold(rep, edges, scoped) ==
  LET Fed(n)    == {rep[e[2]] : e \in {d \in scoped : d[1] = n}}
      Folds(n)  == /\ n \in Feeders /\ rep[n] = Op(n)
                   /\ \A e \in edges : e[2] # n
                   /\ Cardinality(Fed(n)) = 1 /\ Op(n) \notin Fed(n)
  IN  Table([n \in DOMAIN rep |-> IF Folds(n) THEN CHOOSE t \in Fed(n) : TRUE ELSE rep[n]])

\* _overview: regions of neighbours in layout order.
Regions(glyphs, rank) ==
  LET Sooner(a, b) == Before(rank[a], rank[b])
      order == Ranked(glyphs, Sooner)
      chunk == Max({2, (Len(order) + MaxOverview - 1) \div MaxOverview})
  IN  Table([g \in glyphs |->
        LET i == CHOOSE j \in DOMAIN order : order[j] = g
        IN  {order[j] : j \in {k \in DOMAIN order : (k - 1) \div chunk = (i - 1) \div chunk}}])

Joined(edges, glyphOf) ==
  {e \in {<<glyphOf[d[1]], glyphOf[d[2]]>> : d \in edges} : e[1] # e[2]}

\* What is asked for: the operators in scope and the dataflow between them.
Asked(v, here, graph, detail, root) ==
  LET nodes   == NodesOf[graph] \cap here
      edges   == {e \in Dataflow(here) : e[1] \in nodes /\ e[2] \in nodes}
      allowed == IF root = NoRoot THEN nodes ELSE Find(v, root).members
  IN  [v |-> v, graph |-> graph, detail |-> detail, root |-> root, nodes |-> nodes, edges |-> edges,
       allowed |-> allowed, scoped |-> {e \in edges : {e[1], e[2]} \subseteq allowed}]

\* The groups it is collapsed to.
Grouped(q) ==
  LET first == IF q.detail = "operator" THEN {}
               ELSE SelectedGroups(q.v, q.graph, q.detail, q.allowed, q.root)
  IN  q @@ [groups |-> IF q.detail = "architecture" THEN Drilled(q.v, first, q.allowed) ELSE first]

\* The glyph that stands for each operator.
Assigned(q) ==
  LET Owners(n) == {g \in q.groups : n \in g.members}
      plain == Table([n \in q.nodes \cap q.allowed |-> IF Owners(n) # {} THEN Biggest(Owners(n)).id ELSE Op(n)])
  IN  q @@ [rep |-> IF q.detail \in {"architecture", "block"} THEN Fold(plain, q.edges, q.scoped) ELSE plain]

\* The operators each glyph stands for, the aggregated edges, and the order of the glyphs.
Gathered(q) ==
  LET glyphs == {q.rep[n] : n \in DOMAIN q.rep}
      rows   == Rows(q.nodes, q.edges)
      Of(i)  == {n \in DOMAIN q.rep : q.rep[n] = i}
  IN  [members |-> Table([i \in glyphs |-> Of(i) \cup UNION {g.members : g \in {h \in q.groups : h.id = i}}]),
       edges |-> Joined(q.scoped, q.rep),
       rank  |-> Table([i \in glyphs |-> <<Min({1000 * rows[n] + n : n \in Of(i)})>>])]

\* _overview, if there is more than it may show.
Pictured(p, detail) ==
  LET region == Regions(DOMAIN p.members, p.rank)
      id == Table([i \in DOMAIN p.members |-> <<"region", UNION {p.members[j] : j \in region[i]}>>])
  IN  IF detail = "architecture" /\ Cardinality(DOMAIN p.members) > MaxOverview
      THEN [members |-> Table([r \in {id[i] : i \in DOMAIN id} |-> r[2]]), edges |-> Joined(p.edges, id)]
      ELSE [members |-> p.members, edges |-> p.edges]

SemanticScene(v, here, graph, detail, root) ==
  {Pictured(p, detail) : p \in {Gathered(q) : q \in {Assigned(g) : g \in {Grouped(a) :
     a \in {Asked(v, here, graph, detail, root)}}}}}

\* At layer detail an operator of a language model is drawn as its weight layers.
Opens(scene, detail, i) ==
  /\ detail = "layer" /\ i[1] = "op" /\ scene.members[i] = {i[2]}
  /\ Len(StemsOf[i[2]]) >= 2

Part(i, k)  == <<"layer", i[2], StemsOf[i[2]][k]>>
LastPart(i) == Part(i, Len(StemsOf[i[2]]))
Parts(i)    == {Part(i, k) : k \in DOMAIN StemsOf[i[2]]}
ChainOf(i)  == {<<Part(i, k), Part(i, k + 1)>> : k \in 1..(Len(StemsOf[i[2]]) - 1)}

\* expand_llm_layers: the layers follow one another; edges enter the first and leave the last.
Opened(scene, detail) ==
  LET ids  == DOMAIN scene.members
      open == {i \in ids : Opens(scene, detail, i)}
      Into(i)  == IF i \in open THEN Part(i, 1) ELSE i
      OutOf(i) == IF i \in open THEN LastPart(i) ELSE i
  IN  [members |-> Table([p \in (ids \ open) \cup UNION {Parts(i) : i \in open} |->
                            IF p \in ids THEN scene.members[p] ELSE {p[2]}]),
       edges   |-> {<<OutOf(e[1]), Into(e[2])>> : e \in scene.edges} \cup UNION {ChainOf(i) : i \in open}]

\* The slice of one graph, before it is cached.
SliceOf(v, here, graph, detail, root) ==
  CHOOSE drawn \in {Opened(scene, detail) : scene \in SemanticScene(v, here, graph, detail, root)} : TRUE

\* _finest_detail and _capped_detail.
Finest == IF Layered THEN "layer" ELSE "operator"
Capped(detail) == IF detail = "operator" THEN Finest ELSE detail

\* representative_for: the first glyph that stands for the operator.
Representatives(slice, n) == {i \in DOMAIN slice.members : n \in slice.members[i]}

-----------------------------------------------------------------------------
(* GraphSlicer.slice_graph: one critical section, one cache for all sessions. *)

\* A mutant: corrections of the hierarchy do not change the key.
SliceKeyOfDocument(v, here, graph, detail, root) ==
  [revision |-> here, graph |-> graph, hierarchy |-> {}, detail |-> detail, root |-> root]

\* A revision id stands for the contents of its document, and a hierarchy's revision
\* is a digest of all its groups.
SliceKey(v, here, graph, detail, root) ==
  [revision |-> here, graph |-> graph, hierarchy |-> InGraph(v, graph), detail |-> detail, root |-> root]

Hit(cache, key)  == \E i \in DOMAIN cache : cache[i].key = key

\* What is answered when the slice would be computed as fresh, and the cache after it,
\* most recently used last.
Answered(cache, key, fresh) ==
  LET slice == IF Hit(cache, key) THEN (CHOOSE e \in ToSet(cache) : e.key = key).slice ELSE fresh
      Other(e) == e.key # key
      all   == Append(SelectSeq(cache, Other), [key |-> key, slice |-> slice])
  IN  [slice |-> slice, fresh |-> slice = fresh,
       cache |-> IF Len(all) > SliceCapacity THEN Tail(all) ELSE all]

\* The outcome of one request.
Serve(cache, v, here, graph, detail, root) ==
  {Answered(cache, SliceKey(v, here, graph, Capped(detail), root), fresh) :
     fresh \in {SliceOf(v, here, graph, Capped(detail), root)}}
=============================================================================
