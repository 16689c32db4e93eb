---------------------------- MODULE ShellNavigation ----------------------------
(***************************************************************************)
(* Navigating a model in the shell's window (ui/app.py): levels of detail, *)
(* drilling into groups and back, switching graphs, the pane of blocks and *)
(* jumps to search results, composed with the corrections of the hierarchy *)
(* and the edits of the graph that go on underneath.  Slices come from one *)
(* slicer for all sessions, which a background job warms after the open.   *)
(*                                                                         *)
(* The handlers run one at a time on the event loop.  What a scale or a    *)
(* point of the canvas shows is open: any level a zoom can resolve to, any *)
(* glyph under the pointer.                                                *)
(***************************************************************************)
EXTENDS SceneSlices

CONSTANTS
  Entry,       \* the entry graph
  BlockNames,  \* labels of the form block-NNN
  Days         \* bound: what may happen in a behaviour, as [artifacts, corrections, by, moves,
               \* edits, warm, others, auto, search]

VARIABLES
  nav,     \* graph, detail level, auto detail, the picture, the pane's rows, search results
  slicer,  \* the cache, and the warm-up under way
  day

nvars == <<hierarchy, nav, slicer, day>>

NoWarmUp == [left |-> <<>>, here |-> {}, groups |-> {}, begun |-> FALSE]
Root     == window[Shown].root
PaneOf(v, graph) == {g.id : g \in InGraph(v, graph)}
IsBlock(g) == g.label[1] \in BlockNames /\ g.label[2] = 0

-----------------------------------------------------------------------------
(* A handler is followed as the set of its outcomes, each a record of what the *)
(* handler sees and changes: the hierarchy and the document of the session,    *)
(* the window's fields, its root and the cache.                                *)

Seen(v, here) == [v |-> v, here |-> here, n |-> nav, cache |-> slicer.cache, root |-> Root]
Now  == Seen(view[Shown], present[Shown])
Then == [Seen(view'[Shown], present'[Shown]) EXCEPT !.root = window'[Shown].root]

Exists(st, root) == root = NoRoot \/ Has(st.v, root)

Cached(st, served) == [st EXCEPT !.cache = served.cache, !.n.stale = @ \/ ~served.fresh]

\* session.scene: what it returns, and the cache it leaves.
Scene(st, graph, root, detail) ==
  {[slice |-> served.slice, st |-> Cached(st, served)] :
     served \in Serve(st.cache, st.v, st.here, graph, detail, root)}

\* The window is told graph, root and level, then the picture is put up.  A root that the
\* hierarchy does not have raises: the old picture stays on the canvas.
Displayed(st, graph, root, detail) ==
  LET told == [st EXCEPT !.root = root, !.n.graph = graph, !.n.detail = detail]
      scope == NodesOf[graph] \cap st.here \cap (IF root = NoRoot THEN Nodes ELSE Find(st.v, root).members)
  IN  IF ~Exists(st, root) THEN {[told EXCEPT !.n.lost = TRUE]}
      ELSE {[s.st EXCEPT
              !.n.lost = FALSE,
              !.n.pic = [graph |-> graph, root |-> root, detail |-> Capped(detail),
                         slice |-> s.slice, scope |-> scope, edges |-> Dataflow(st.here)]] :
            s \in Scene(told, graph, root, detail)}

PaneBuilt(st) == IF st.n.lost THEN st ELSE [st EXCEPT !.n.pane = PaneOf(st.v, st.n.graph)]

\* _replace_current_representation: level and pane follow the picture.
Represented(st, root, detail) ==
  {IF x.n.lost THEN x ELSE PaneBuilt([x EXCEPT !.n.detail = Capped(detail)]) :
     x \in Displayed(st, st.n.graph, root, detail)}

\* With auto detail, the level that fits the canvas is told from the whole graph first.
Fits(st) == IF st.n.auto THEN ToSet(Levels) ELSE {st.n.detail}

\* _show_graph.
ShownGraph(st, graph) ==
  UNION {{PaneBuilt(x) : x \in Displayed(s.st, graph, NoRoot, fit)} :
         s \in Scene(st, graph, NoRoot, st.n.detail), fit \in Fits(st)}

\* show_group.
ShownGroup(st, root, detail) == Displayed(st, st.n.graph, root, detail)

Manually(st) == [st EXCEPT !.n.auto = FALSE]

Becomes(outcomes) ==
  \E st \in outcomes : /\ nav' = st.n
                       /\ slicer' = [slicer EXCEPT !.cache = st.cache]

\* A handler of the navigation runs to its end.
Handled(outcomes) ==
  /\ window[Shown].at = "idle"
  /\ \E st \in outcomes :
       /\ Becomes({st})
       /\ window' = [window EXCEPT ![Shown].root = st.root]
  /\ UNCHANGED <<artifact, overrides, present, candidates, view, saver, file, account, day>>

NoPicture == [graph |-> Entry, root |-> NoRoot, detail |-> "architecture", edges |-> {},
              slice |-> [members |-> <<>>, edges |-> {}], scope |-> {}]

NavInit ==
  /\ day \in Days /\ HierarchyInit /\ artifact \in day.artifacts
  /\ nav = [graph |-> Entry, detail |-> "architecture", auto |-> FALSE, pic |-> NoPicture,
            pane |-> {}, hits |-> {}, after |-> "", lost |-> FALSE, stale |-> FALSE, missed |-> {},
            shown |-> FALSE]
  /\ slicer = [cache |-> <<>>, warm |-> NoWarmUp]

\* show_session.
Present ==
  /\ Becomes({[PaneBuilt(st) EXCEPT !.n.shown = TRUE] : st \in Displayed(Now, Entry, NoRoot, "architecture")})
  /\ UNCHANGED <<hierarchy, day>>

-----------------------------------------------------------------------------
(* Levels of detail. *)

\* A zoom with auto detail, or the recovery of an empty canvas: another level in place.
Zoom ==
  /\ nav.auto
  /\ \E level \in ToSet(Levels) \ {nav.detail} : Handled(Represented(Now, Root, level))

\* containing_block: the most specific block around an operator.
BlockOf(v, graph, n) ==
  LET around == {g \in InGraph(v, graph) : n \in g.members /\ IsBlock(g)}
  IN  IF around = {} THEN NoRoot ELSE (CHOOSE g \in around : \A h \in around : h = g \/ Smaller(g, h)).id

\* _selected_block_group, for the one glyph that is selected.
SelectedBlock(i) ==
  IF Has(view[Shown], i) /\ IsBlock(Find(view[Shown], i)) THEN i
  ELSE IF i[1] = "op" THEN BlockOf(view[Shown], nav.graph, i[2]) ELSE NoRoot

\* _on_detail_segment_changed: layers of a language model are those of one block.
ChooseDetail ==
  \E auto \in IF day.auto THEN BOOLEAN ELSE {FALSE}, level \in ToSet(Levels) :
    LET st == [Now EXCEPT !.n.auto = auto]
        ofOneBlock == level = "layer" /\ Root = NoRoot /\ Layered
    IN  \/ ~ofOneBlock /\ Handled(Represented(st, Root, level))
        \/ ofOneBlock /\ Handled({Manually(Now)})
        \/ /\ ofOneBlock
           /\ \E i \in DOMAIN nav.pic.slice.members :
                /\ SelectedBlock(i) # NoRoot
                /\ Handled(ShownGroup(st, SelectedBlock(i), level))

-----------------------------------------------------------------------------
(* Into a group and back. *)

NextLevel(detail) ==
  CASE detail = "architecture" -> "block" [] detail = "block" -> "layer" [] OTHER -> Finest

\* _opens_interior: whether the next picture shows more of what was clicked.
OpensInterior(i, prospective) ==
  LET clicked == nav.pic.slice.members[i]
      owned   == {j \in DOMAIN prospective.members :
                    IF Cardinality(clicked) <= 1
                    THEN prospective.members[j] = clicked \/ (i[1] = "op" /\ j[1] = "layer" /\ j[2] = i[2])
                    ELSE prospective.members[j] # {} /\ prospective.members[j] \subseteq clicked}
  IN  i[1] # "layer" /\ Cardinality(owned) > 1

\* _drill_into_selection.
OpenSelected ==
  \E i \in DOMAIN nav.pic.slice.members :
    LET level == NextLevel(nav.detail)
        group == Has(InGraph(view[Shown], nav.graph), i)
        root  == IF group THEN i ELSE Root
    IN  /\ Exists(Now, root)
        /\ \E next \in Scene(Now, nav.graph, root, level) :
             /\ OpensInterior(i, next.slice)
             /\ Handled(IF group THEN ShownGroup(Manually(next.st), i, Capped(level))
                        ELSE Represented(Manually(next.st), Root, level))

\* _on_back_to_parent: out of the layers of a block first, then to the parent group.
BackToParent ==
  /\ Root # NoRoot /\ Has(view[Shown], Root)
  /\ LET g == Find(view[Shown], Root)
         parents == {h \in view[Shown] : IsParent(view[Shown], h, g)}
         inLayers == nav.detail = "layer" /\ IsBlock(g)
     IN  \/ inLayers /\ Handled(ShownGroup(Manually(Now), Root, "block"))
         \/ ~inLayers /\ parents = {} /\ Handled(ShownGraph(Now, nav.graph))
         \/ ~inLayers /\ \E h \in parents : Handled(ShownGroup(Now, h.id, nav.detail))

\* A row of the blocks pane, as the pane was last built.
ClickPane == \E id \in nav.pane : Handled(ShownGroup(Now, id, nav.detail))

\* A tap that moves the highlight builds the pane again.
Tap == Handled({[Now EXCEPT !.n.pane = PaneOf(view[Shown], nav.graph)]})

\* A row of the graph list.
SwitchGraph == \E graph \in Graphs : Handled(ShownGraph(Now, graph))

-----------------------------------------------------------------------------
(* Search and jump. *)

\* One of the results of a search is about to be used.
Search ==
  /\ day.search
  /\ \E graph \in Graphs :
     \E n \in NodesOf[graph] \cap present[Shown], layer \in BOOLEAN :
       /\ layer => Len(StemsOf[n]) >= 1
       /\ Handled({[Now EXCEPT !.n.hits = {[graph |-> graph, node |-> n, layer |-> layer]}]})

Drawn(slice, n)    == Op(n) \in DOMAIN slice.members
LayersDrawn(slice, n) == \E i \in DOMAIN slice.members : i[1] = "layer" /\ i[2] = n

\* A miss is remembered until the next jump, with what could explain it.
Missed(st, hit, found) ==
  [st EXCEPT !.n.missed =
     IF found THEN {}
     ELSE {[node |-> hit.node, there |-> hit.node \in st.here,
            grouped |-> \E g \in st.v : ~g.automatic /\ hit.node \in g.members]}]

\* focus_node for an operator in a block of a language model.
FocusedInBlock(st, hit, block) ==
  {Missed(shown, hit, \/ Drawn(shown.n.pic.slice, hit.node)
                      \/ hit.layer /\ LayersDrawn(shown.n.pic.slice, hit.node)) :
     shown \in Represented(Manually(st), block, IF hit.layer THEN "layer" ELSE "block")}

\* focus_node: the operators of the root, or of the whole graph if the root does not show
\* the one that is looked for.  A miss has changed level and root, and leaves the picture.
Focused(st, hit) ==
  LET graph  == st.n.graph
      level  == [st EXCEPT !.n.detail = "operator",
                           !.n.auto = IF st.n.detail = "operator" THEN @ ELSE FALSE]
      Wide(s) == IF st.root # NoRoot /\ ~Drawn(s.slice, hit.node)
                 THEN Scene([s.st EXCEPT !.root = NoRoot], graph, NoRoot, "operator") ELSE {s}
      AsNew(x) == st.n.detail # "operator" \/ x.root # st.root
      Ends(s)  == IF ~Drawn(s.slice, hit.node)
                  THEN {Missed([s.st EXCEPT !.n.lost = @ \/ AsNew(s.st)], hit, FALSE)}
                  ELSE {Missed(x, hit, TRUE) :
                          x \in IF AsNew(s.st) THEN Represented(s.st, s.st.root, "operator") ELSE {s.st}}
  IN  IF ~Exists(st, st.root) THEN {[level EXCEPT !.n.lost = TRUE]}
      ELSE UNION {Ends(s) : s \in UNION {Wide(x) : x \in Scene(level, graph, st.root, "operator")}}

\* A result of another graph brings that graph up first.
Jump ==
  \E hit \in nav.hits :
  \E st \in IF hit.graph = nav.graph THEN {Now} ELSE ShownGraph(Now, hit.graph) :
    LET block == BlockOf(view[Shown], hit.graph, hit.node)
    IN  Handled(IF block # NoRoot /\ (hit.layer \/ Layered)
                THEN FocusedInBlock(st, hit, block) ELSE Focused(st, hit))

-----------------------------------------------------------------------------
(* The slicer's other callers. *)

\* Another session of the artifact is drawn, at a revision and a hierarchy of its own.
ServeOther ==
  /\ day.others
  /\ \E s \in Sessions \ {Shown}, level \in {"block", Finest} :
     \E served \in Serve(slicer.cache, view[s], present[s], Entry, level, NoRoot) :
       /\ slicer' = [slicer EXCEPT !.cache = served.cache]
       /\ nav' = [nav EXCEPT !.stale = @ \/ ~served.fresh]
  /\ UNCHANGED <<hierarchy, day>>

\* _schedule_layout_prewarm: the job captures document and hierarchy, then walks the levels.
WarmCapture ==
  /\ day.warm /\ ~slicer.warm.begun
  /\ slicer' = [slicer EXCEPT !.warm =
       [left |-> IF Layered THEN <<"block", "layer">> ELSE <<"block", "layer", "operator">>,
        here |-> present[Shown], groups |-> InGraph(view[Shown], Entry), begun |-> TRUE]]
  /\ UNCHANGED <<hierarchy, nav, day>>

WarmLevel ==
  /\ slicer.warm.left # <<>>
  /\ \E served \in Serve(slicer.cache, slicer.warm.groups, slicer.warm.here, Entry,
                         Head(slicer.warm.left), NoRoot) :
       slicer' = [slicer EXCEPT !.cache = served.cache, !.warm.left = Tail(@)]
  /\ UNCHANGED <<hierarchy, nav, day>>

-----------------------------------------------------------------------------
(* Corrections and edits underneath. *)

Begins(s) == Split(s) \/ Merge(s) \/ Rename(s) \/ Lock(s) \/ Reject(s) \/ Reset(s) \/ CycleMode(s)

Correction(s) ==
  /\ count.made < day.corrections /\ s \in day.by
  /\ Begins(s)
  /\ UNCHANGED <<nav, slicer, day>>

\* _on_group_selected goes to the blocks once the group is saved.
Grouping(s) ==
  /\ count.made < day.corrections /\ s \in day.by
  /\ Group(s)
  /\ nav' = IF s = Shown /\ window'[s].at = "saving" THEN [nav EXCEPT !.after = "block"] ELSE nav
  /\ UNCHANGED <<slicer, day>>

ModeBack(s) ==
  /\ TakeModeBack(s)
  /\ nav' = IF s = Shown THEN [nav EXCEPT !.after = "kept"] ELSE nav
  /\ UNCHANGED <<slicer, day>>

Saving(s) == TakeStore(s) /\ UNCHANGED <<nav, slicer, day>>

\* _after_hierarchy_edit, unless the mode was taken back: then the picture stays.
Saved(s) ==
  /\ ReplaceFile(s)
  /\ UNCHANGED day
  /\ LET st == [Then EXCEPT !.n.after = ""]
         ends == s = Shown /\ window'[s].at = "idle"
     IN  IF ~ends THEN UNCHANGED <<nav, slicer>>
         ELSE Becomes(IF nav.after = "kept" THEN {st}
                      ELSE IF nav.after = "block" THEN Represented(Manually(st), st.root, "block")
                      ELSE Represented(st, st.root, nav.detail))

NotSaved(s) ==
  /\ SaveFails(s)
  /\ nav' = IF s = Shown THEN [nav EXCEPT !.after = ""] ELSE nav
  /\ UNCHANGED <<slicer, day>>

\* A committed, undone or redone edit shows the whole graph again.
Edited(s) ==
  /\ day.edits /\ EditGraph(s) /\ UNCHANGED day /\ s \in day.by
  /\ IF s = Shown THEN Becomes(ShownGraph(Then, nav.graph))
     ELSE UNCHANGED <<nav, slicer>>

\* The artifact is opened again: an empty slicer, and the graph it was left at.
Reopen ==
  /\ Restart /\ UNCHANGED day
  /\ \E graph \in Graphs :
     \E st \in ShownGraph([Manually(Then) EXCEPT !.cache = <<>>, !.n.detail = "architecture",
                             !.n.hits = {}, !.n.after = ""], graph) :
       nav' = st.n /\ slicer' = [cache |-> st.cache, warm |-> NoWarmUp]

Moves ==
  \/ Zoom
  \/ ChooseDetail
  \/ OpenSelected
  \/ BackToParent
  \/ ClickPane
  \/ Tap
  \/ SwitchGraph

Shows ==
  \/ day.moves /\ Moves
  \/ Search
  \/ Jump
  \/ ServeOther
  \/ WarmCapture
  \/ WarmLevel
  \/ Reopen
  \/ \E s \in Sessions :
       \/ Correction(s)
       \/ Grouping(s)
       \/ ModeBack(s)
       \/ Saving(s)
       \/ Saved(s)
       \/ NotSaved(s)
       \/ Edited(s)

NavNext == (~nav.shown /\ Present) \/ (nav.shown /\ Shows)

NavSpec == NavInit /\ [][NavNext]_nvars

-----------------------------------------------------------------------------
\* Every operator in scope is drawn, by one glyph or by the layers of its own; no two
\* glyphs share operators otherwise; and dataflow between glyphs is drawn as an edge
\* between glyphs that are there.
DrawnOnce ==
  LET p == nav.pic
      s == p.slice
      ids == DOMAIN s.members
  IN  /\ p.scope \subseteq UNION {s.members[i] : i \in ids}
      /\ \A i, j \in ids : i # j =>
           \/ s.members[i] \cap s.members[j] = {}
           \/ s.members[i] = s.members[j] /\ i[1] = "layer" /\ j[1] = "layer"
      /\ \A e \in s.edges : e[1] \in ids /\ e[2] \in ids
      /\ \A e \in p.edges :
           e[1] \in p.scope /\ e[2] \in p.scope =>
             \E i \in Representatives(s, e[1]), j \in Representatives(s, e[2]) :
               i = j \/ <<i, j>> \in s.edges

\* A slice from the cache is the one that would be computed now, whichever session asks
\* and whatever was corrected, edited or warmed in between.
ServedIsFresh == ~nav.stale

\* The picture is of the graph, the root and the level the window believes it shows,
\* unless a jump missed or the root was gone when the picture was asked for.
PictureIsCurrent ==
  ~nav.lost =>
    /\ nav.pic.graph = nav.graph
    /\ nav.pic.root = Root
    /\ nav.pic.detail = Capped(nav.detail)

\* A jump misses an operator of the working graph only if it is drawn as its layers
\* outside every block, or inside a group of the user.
JumpFinds ==
  \A m \in nav.missed : m.there => m.grouped \/ Len(StemsOf[m.node]) >= 2

\* What is proposed as a block when a model is opened is one: regions are those between a
\* branch and the node all its paths meet at, whatever order the fixed point is computed
\* in, and the occurrences of a repeated block are alike down to their edges.
BlocksAreReal ==
  ~nav.shown => \A t \in {Topology(artifact, present[Shown], graph) : graph \in Graphs} :
    /\ DominatorsExact(t) /\ DominatorsExact(Reversed(t))
    /\ RegionsClosed(t)
    /\ RepeatsAlike(artifact, t)

\* The picture is that of the graph: every operator inside the frame is drawn once, a
\* cached slice is what would be built now, the canvas shows what the window says it shows,
\* and jumping to an operator brings it into the picture.
PictureSound == DrawnOnce /\ ServedIsFresh /\ PictureIsCurrent /\ JumpFinds
=============================================================================
