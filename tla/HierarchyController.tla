-------------------------- MODULE HierarchyController --------------------------
(***************************************************************************)
(* Block hierarchies of one artifact (analysis/hierarchy.py,               *)
(* application/hierarchy.py): detector candidates reconciled into a nested *)
(* forest, the user's corrections laid over it, and the view sidecar.      *)
(*                                                                         *)
(* Sessions on the same artifact share the corrections (HierarchyOverrides)*)
(* but each derives a forest of its own.  One session is driven by the     *)
(* handlers of the shell (ui/app.py), whose window may be drilled into one *)
(* of the groups; the others by callers of the service.                    *)
(* A correction is one critical section; the save that follows it is not.  *)
(***************************************************************************)
EXTENDS Detectors

CONSTANTS
  Sessions,       \* open sessions of the artifact, each with a controller of its own
  Shown,          \* the session in the shell's window; the others are used through the service
  Modes, KindsOf, \* organization modes in toolbar order, and the kinds each one pools
  Names,          \* labels a user types
  MaxCorrections  \* bound: corrections, over all sessions

ASSUME HierarchyAssumption ==
  /\ Shown \in Sessions
  /\ IsFiniteSet(Nodes) /\ Removable \subseteq Nodes
  /\ Modes \in Seq(DOMAIN KindsOf) /\ Modes # <<>>
  /\ Names \subseteq Nat /\ MaxCorrections \in Nat

\* What the detectors return: a list of candidates, whose ids are digests and do not collide.
ASSUME DetectionsAssumption ==
  \A a \in Artifacts, gone \in SUBSET Removable :
    \A proposed \in {Detections[a][Nodes \ gone]} :
      /\ IsFiniteSet(proposed)
      /\ \A c \in proposed : /\ c.id \in Nat /\ c.graph \in Graphs /\ c.conf \in Nat
                             /\ c.name \in Nat /\ KindPriority[c.kind] \in Nat
                             /\ c.members \subseteq Nodes /\ c.members # {}
      /\ \A c, d \in proposed : c.id = d.id => c = d

NoRoot  == <<"none">>
NoMode  == "none"
Fresh   == [manual |-> {}, rejected |-> {}, renames |-> {}, locked |-> {}, mode |-> Modes[1]]
Idle    == [at |-> "idle", root |-> NoRoot, then |-> NoRoot, back |-> NoMode]
NoChange == [kept |-> {}, gone |-> {}]

VARIABLES
  artifact,   \* the model that is open
  overrides,  \* corrections in memory: manual, rejected, renames, locked, mode
  present,    \* per session: nodes of its working document
  candidates, \* per session: what its controller was proposed for that document
  view,       \* per session: the groups of its controller's forests
  window,     \* per session: its window's drilled-in root and the handler under way
  saver,      \* the session that holds the store's lock, with its snapshot
  file,       \* the view sidecar
  count,      \* history: corrections made, resets among them
  change,     \* history: per session, what its correction changed, not yet reported
  reported,   \* history: what corrections reported as done changed and none changed back
  unread      \* history: the program has started without the corrections of its sidecar

account == <<count, change, reported, unread>>
hierarchy == <<artifact, overrides, present, candidates, view, window, saver, file, account>>

NodesOf == artifact.nodesOf
Layered == artifact.layered  \* whether the finest picture is made of layers

-----------------------------------------------------------------------------
(* Groups. *)

Partial(A, B) == A \cap B # {} /\ ~(A \subseteq B) /\ ~(B \subseteq A)

\* Ids and labels are compared as the code compares their strings.
AutoId(c)           == <<"auto", c.id>>
UserId(graph, label) == <<"user", graph, label>>
IdOrder(id) == IF id[1] = "auto" THEN id[2] ELSE 1000000 + 10 * id[3][1] + id[3][2]
Label(name)       == <<name, 0>>
Derived(label, i) == <<label[1], i>>

\* Lexicographic comparison of equally long tuples of integers.
Before(p, q) == \E i \in DOMAIN p : p[i] < q[i] /\ \A j \in 1..(i - 1) : p[j] = q[j]

\* The greedy choice of reconcile_candidates and _nest: best first, a group that
\* partially overlaps an accepted one is dropped.
Worst(left)      == CHOOSE x \in left : \A y \in left : ~Before(y.rank, x.rank)
Taking(kept, g) == IF \E o \in kept : Partial(g.members, o.members) THEN kept ELSE kept \cup {g}

Greedy(ranked) ==
  LET taken[left \in SUBSET ranked] ==
        IF left = {} THEN {}
        ELSE LET worst == Worst(left) IN Taking(taken[left \ {worst}], worst.group)
  IN  taken[ranked]

CandidateRank(c) == <<c.conf, KindPriority[c.kind], Cardinality(c.members), c.id>>

\* Of candidates with the same members the best stands for all of them.
Pooled(S) == {c \in S : \A d \in S : d.members = c.members /\ d.graph = c.graph =>
                                     ~Before(CandidateRank(c), CandidateRank(d))}

Valid(proposed, graph, mode) ==
  {c \in proposed :
     /\ c.graph = graph /\ c.kind \in KindsOf[mode]
     /\ Cardinality(c.members) >= 2 \/ c.kind = "control-flow"}

Reconciled(valid) == Greedy({[rank |-> CandidateRank(c), group |-> c] : c \in Pooled(valid)})

AsGroup(c, o) == [id |-> AutoId(c), graph |-> c.graph, members |-> c.members,
                  label |-> IF \E r \in o.renames : r.id = AutoId(c)
                            THEN (CHOOSE r \in o.renames : r.id = AutoId(c)).label
                            ELSE Label(c.name),
                  locked |-> AutoId(c) \in o.locked, automatic |-> TRUE, conf |-> c.conf,
                  kind |-> c.kind]

ManualAsGroup(m) == [id |-> m.id, graph |-> m.graph, members |-> m.members, label |-> m.label,
                     locked |-> m.locked, automatic |-> FALSE, conf |-> 100,
                     kind |-> "manual"]

Flag(b) == IF b THEN 1 ELSE 0
GroupRank(g) == <<Flag(~g.automatic), Flag(g.locked), g.conf, Cardinality(g.members), IdOrder(g.id)>>

\* Of the groups of one graph those that the user has not rejected, and the user's own.
Kept(proposed, graph, o) ==
  {AsGroup(c, o) : c \in {d \in UNION {Reconciled(valid) : valid \in {Valid(proposed, graph, o.mode)}} :
                             AutoId(d) \notin o.rejected}}
  \cup {ManualAsGroup(m) : m \in {n \in o.manual : n.graph = graph}}

Nest(kept) == Greedy({[rank |-> GroupRank(g), group |-> g] : g \in kept})

\* The controller's forests, one per graph.
Recomputed(proposed, o) == UNION {Nest(kept) : kept \in {Kept(proposed, g, o) : g \in Graphs}}

Has(v, id)   == \E g \in v : g.id = id
Find(v, id)  == CHOOSE g \in v : g.id = id
Manual(o, id) == {m \in o.manual : m.id = id}

HierarchyInit ==
  /\ artifact \in Artifacts
  /\ overrides = Fresh
  /\ present = [s \in Sessions |-> Nodes]
  /\ candidates = [s \in Sessions |-> Detections[artifact][Nodes]]
  /\ view = [s \in Sessions |-> Recomputed(candidates[s], Fresh)]
  /\ window = [s \in Sessions |-> Idle]
  /\ saver = {}
  /\ file = Fresh
  /\ count = [made |-> 0, resets |-> 0]
  /\ change = [s \in Sessions |-> NoChange] /\ reported = NoChange /\ unread = FALSE

-----------------------------------------------------------------------------
(* A correction: the overrides and the session's own forests change in one     *)
(* critical section.  The method then looks its result up in the new forest    *)
(* and raises if it is not there; only a method that returns is followed by a  *)
(* save.                                                                       *)

\* What overrides say, as a set; and the difference a correction makes to it.
Said(o) == ({"manual"} \X o.manual) \cup ({"rejected"} \X o.rejected)
           \cup ({"renames"} \X o.renames) \cup ({"locked"} \X o.locked) \cup {<<"mode", o.mode>>}

Difference(o, n) == [kept |-> Said(n) \ Said(o), gone |-> Said(o) \ Said(n)]
Without(d, e)    == [kept |-> d.kept \ e.gone, gone |-> d.gone \ e.kept]
Agrees(d, o)     == d.kept \subseteq Said(o) /\ d.gone \cap Said(o) = {}

\* A correction is yet to be reported if it will be, and undoes what it contradicts.
Recorded(s, o, returns) ==
  LET d == Difference(overrides, o) IN
  /\ change' = [t \in Sessions |-> IF t # s THEN Without(change[t], d)
                                   ELSE IF returns THEN d ELSE NoChange]
  /\ reported' = Without(reported, d)
  /\ UNCHANGED unread

\* _repair_missing_root_group.
Repaired(v, root) == IF Has(v, root) THEN root ELSE NoRoot

Correct(s, corrected, results, root, repairs, back) ==
  \E o \in {corrected} : \E v \in {Recomputed(candidates[s], o)} :
  /\ overrides' = o
  /\ view' = [view EXCEPT ![s] = v]
  /\ window' = [window EXCEPT ![s] =
       IF \A id \in results : Has(v, id)
       THEN [at |-> "saving", root |-> window[s].root, back |-> back,
             then |-> IF repairs THEN Repaired(v, root) ELSE root]
       ELSE [Idle EXCEPT !.root = window[s].root]]
  /\ Recorded(s, o, \A id \in results : Has(v, id))
  /\ UNCHANGED <<artifact, present, candidates, saver, file>>

Ready(s) == window[s].at = "idle" /\ count.made < MaxCorrections
Counted  == count' = [count EXCEPT !.made = @ + 1]

\* _remove_group_override, for each of a set of groups.
Removed(o, G) ==
  LET ids == {g.id : g \in G}
      auto == {g.id : g \in {h \in G : h.automatic}}
  IN  [o EXCEPT !.manual = {m \in @ : m.id \notin ids \ auto},
                !.rejected = @ \cup auto,
                !.renames = {r \in @ : r.id \notin auto},
                !.locked = @ \ auto]

NewManual(graph, label, members) ==
  [id |-> UserId(graph, label), graph |-> graph, label |-> label,
   members |-> members, locked |-> FALSE]

\* _on_group_selected; a caller of the service may lock the group at once.
Group(s) ==
  /\ Ready(s) /\ Counted
  /\ \E graph \in Graphs, name \in Names :
     \E M \in SUBSET (NodesOf[graph] \cap present[s]) :
     \E locked \in IF s = Shown THEN {FALSE} ELSE BOOLEAN :
       LET m == [NewManual(graph, Label(name), M) EXCEPT !.locked = locked]
           o == [overrides EXCEPT !.manual = @ \cup {m}]
       IN  /\ Cardinality(M) >= 2
           /\ Manual(overrides, m.id) = {}
           /\ \A other \in overrides.manual : ~Partial(M, other.members)
           /\ Correct(s, o, {m.id}, window[s].root, TRUE, NoMode)

\* _on_split_selected, and split() with an explicit pair of partitions.
Split(s) ==
  /\ Ready(s) /\ Counted
  /\ \E g \in view[s] :
     \E parts \in {<<>>} \cup {<<A, g.members \ A>> : A \in (SUBSET g.members) \ {{}, g.members}} :
       LET planned == {NewManual(g.graph, Derived(g.label, i), parts[i]) :
                         i \in {j \in DOMAIN parts : Cardinality(parts[j]) >= 2}}
           o == [Removed(overrides, {g}) EXCEPT !.manual = @ \cup planned]
       IN  /\ ~g.locked
           /\ g.label[2] = 0
           /\ \A m \in planned : Manual(overrides, m.id) = {}
           /\ Correct(s, o, {m.id : m \in planned},
                      IF window[s].root = g.id THEN NoRoot ELSE window[s].root, FALSE, NoMode)

\* _on_merge_selected.
Merge(s) ==
  /\ Ready(s) /\ Counted
  /\ \E graph \in Graphs, name \in Names :
     \E G \in SUBSET {g \in view[s] : g.graph = graph} :
       LET m == NewManual(graph, Label(name), UNION {g.members : g \in G})
           o == [Removed(overrides, G) EXCEPT !.manual = {n \in @ : n.id # m.id} \cup {m}]
           root == IF \E g \in G : g.id = window[s].root THEN m.id ELSE window[s].root
       IN  /\ Cardinality(G) >= 2
           /\ \A g \in G : ~g.locked
           /\ Manual(overrides, m.id) = {} \/ \E g \in G : g.id = m.id
           /\ Correct(s, o, {m.id}, root, TRUE, NoMode)

\* _on_rename_selected: a manual group gets another id, an automatic one keeps its own.
Rename(s) ==
  /\ Ready(s) /\ Counted
  /\ \E g \in view[s], name \in Names :
       \/ \E m \in Manual(overrides, g.id) :
            LET n == [m EXCEPT !.id = UserId(m.graph, Label(name)), !.label = Label(name)]
                o == [overrides EXCEPT !.manual = (@ \ {m}) \cup {n}, !.locked = @ \ {g.id}]
            IN  /\ n.id = g.id \/ Manual(overrides, n.id) = {}
                /\ Correct(s, o, {n.id}, IF window[s].root = g.id THEN n.id ELSE window[s].root, FALSE, NoMode)
       \/ LET o == [overrides EXCEPT !.renames = {r \in @ : r.id # g.id}
                                        \cup {[id |-> g.id, label |-> Label(name)]}]
          IN  /\ Manual(overrides, g.id) = {} /\ g.automatic
              /\ Correct(s, o, {g.id}, window[s].root, FALSE, NoMode)

\* _on_lock_selected.
Lock(s) ==
  /\ Ready(s) /\ Counted
  /\ \E g \in view[s] :
       LET own == Manual(overrides, g.id)
           o == IF own # {}
                THEN [overrides EXCEPT !.manual =
                        (@ \ own) \cup {[m EXCEPT !.locked = ~g.locked] : m \in own}]
                ELSE [overrides EXCEPT !.locked = IF g.locked THEN @ \ {g.id} ELSE @ \cup {g.id}]
       IN  Correct(s, o, {g.id}, window[s].root, FALSE, NoMode)

\* A mutant: a locked group is rejected.
RejectAnyhow(s) ==
  /\ Ready(s) /\ Counted
  /\ \E g \in view[s] :
       Correct(s, Removed(overrides, {g}), {},
               IF window[s].root = g.id THEN NoRoot ELSE window[s].root, FALSE, NoMode)

\* _on_reject_selected.
Reject(s) ==
  /\ Ready(s) /\ Counted
  /\ \E g \in view[s] :
       /\ ~g.locked
       /\ Correct(s, Removed(overrides, {g}), {},
                  IF window[s].root = g.id THEN NoRoot ELSE window[s].root, FALSE, NoMode)

\* _on_reset_groups: corrections of one graph, made under whatever mode.
Reset(s) ==
  /\ Ready(s)
  /\ count' = [count EXCEPT !.made = @ + 1, !.resets = @ + 1]
  /\ \E graph \in Graphs :
       LET auto == {AutoId(c) : c \in {d \in candidates[s] : d.graph = graph}}
           o == [overrides EXCEPT !.manual = {m \in @ : m.graph # graph},
                                  !.rejected = @ \ auto,
                                  !.renames = {r \in @ : r.id \notin auto},
                                  !.locked = @ \ auto]
       IN  Correct(s, o, {}, NoRoot, FALSE, NoMode)

\* _on_cycle_organization: where the finest picture is made of layers, a mode that
\* finds no group is taken back once it is saved, and the root stays as it is.
CycleMode(s) ==
  /\ Ready(s) /\ Counted
  /\ LET i == CHOOSE j \in DOMAIN Modes : Modes[j] = overrides.mode
         o == [overrides EXCEPT !.mode = Modes[(i % Len(Modes)) + 1]]
         finds == ~Layered \/ Recomputed(candidates[s], o) # {}
     IN  Correct(s, o, {}, window[s].root, finds, IF finds THEN NoMode ELSE overrides.mode)

\* set_mode of the previous mode: nothing to recompute if another session set it already.
TakeModeBack(s) ==
  LET w == window[s]
      o == [overrides EXCEPT !.mode = w.back]
  IN  /\ w.at = "reverting"
      /\ overrides' = o
      /\ view' = IF o = overrides THEN view
                 ELSE [view EXCEPT ![s] = Recomputed(candidates[s], o)]
      /\ Counted
      /\ window' = [window EXCEPT ![s] = [w EXCEPT !.at = "saving", !.back = NoMode]]
      /\ Recorded(s, o, TRUE)
      /\ UNCHANGED <<artifact, present, candidates, saver, file>>

-----------------------------------------------------------------------------
(* HierarchySidecarStore.save: a snapshot of all corrections is written while  *)
(* the store's lock is held, whoever made them.                                *)

Snapshot(s) == saver \cup {[by |-> s, overrides |-> overrides]}

\* A mutant: snapshots are taken before the store's lock.
TakeStoreAnyhow(s) ==
  /\ window[s].at = "saving" /\ \A x \in saver : x.by # s
  /\ saver' = Snapshot(s)
  /\ UNCHANGED <<artifact, overrides, present, candidates, view, window, file, account>>

TakeStore(s) ==
  /\ window[s].at = "saving" /\ saver = {}
  /\ saver' = Snapshot(s)
  /\ UNCHANGED <<artifact, overrides, present, candidates, view, window, file, account>>

And(d, e)       == [kept |-> d.kept \cup e.kept, gone |-> d.gone \cup e.gone]
Surviving(d, o) == [kept |-> d.kept \cap Said(o), gone |-> d.gone \ Said(o)]

\* The file is replaced, the method returns and the handler goes on: it reports the
\* correction, or takes the mode back.
ReplaceFile(s) ==
  \E x \in saver :
    LET w == window[s] IN
    /\ x.by = s
    /\ saver' = saver \ {x}
    /\ file' = x.overrides
    /\ window' = [window EXCEPT ![s] = IF w.back # NoMode THEN [w EXCEPT !.at = "reverting"]
                                       ELSE [Idle EXCEPT !.root = w.then]]
    /\ reported' = And(IF unread THEN Surviving(reported, file') ELSE reported, change[s])
    /\ change' = [change EXCEPT ![s] = NoChange] /\ unread' = FALSE
    /\ UNCHANGED <<artifact, overrides, present, candidates, view, count>>

\* The disk is full: the exception leaves the handler before it has looked at the root.
SaveFails(s) ==
  \E x \in saver :
    /\ x.by = s
    /\ saver' = saver \ {x}
    /\ window' = [window EXCEPT ![s] = [Idle EXCEPT !.root = window[s].root]]
    /\ change' = [change EXCEPT ![s] = NoChange]
    /\ UNCHANGED <<artifact, overrides, present, candidates, view, file, count, reported, unread>>

-----------------------------------------------------------------------------
(* The rest of a window's life. *)

\* show_group, _on_back_to_parent and _show_graph.
Navigate ==
  /\ window[Shown].at = "idle"
  /\ \E root \in {NoRoot} \cup {g.id : g \in view[Shown]} :
       window' = [window EXCEPT ![Shown].root = root]
  /\ UNCHANGED <<artifact, overrides, present, candidates, view, saver, file, account>>

\* A graph edit is committed, undone or redone: a new controller for the working
\* document, and the whole graph in the window.
EditGraph(s) ==
  /\ window[s].at = "idle"
  /\ \E n \in Removable :
       LET here == IF n \in present[s] THEN present[s] \ {n} ELSE present[s] \cup {n} IN
       /\ present' = [present EXCEPT ![s] = here]
       /\ candidates' = [candidates EXCEPT ![s] = Detections[artifact][here]]
       /\ view' = [view EXCEPT ![s] = Recomputed(candidates'[s], overrides)]
  /\ window' = [window EXCEPT ![s] = Idle]
  /\ UNCHANGED <<artifact, overrides, saver, file, account>>

\* The program ends at any moment and starts again on the sidecar it left.  A sidecar that
\* cannot be read, is no JSON or of another version, or has one entry of any artifact that
\* does not parse, is as good as none: the corrections of all artifacts are left out.
Restart ==
  /\ overrides' \in {file, Fresh}
  /\ view' = [s \in Sessions |-> Recomputed(candidates[s], overrides')]
  /\ window' = [s \in Sessions |-> Idle]
  /\ saver' = {}
  /\ change' = [s \in Sessions |-> NoChange] /\ unread' = (overrides' # file)
  /\ UNCHANGED <<artifact, present, candidates, file, count, reported>>

HierarchyNext ==
  \/ Navigate
  \/ Restart
  \/ \E s \in Sessions :
       \/ Group(s)
       \/ Split(s)
       \/ Merge(s)
       \/ Rename(s)
       \/ Lock(s)
       \/ Reject(s)
       \/ Reset(s)
       \/ CycleMode(s)
       \/ TakeModeBack(s)
       \/ TakeStore(s)
       \/ ReplaceFile(s)
       \/ SaveFails(s)
       \/ EditGraph(s)

HierarchySpec == HierarchyInit /\ [][HierarchyNext]_hierarchy

-----------------------------------------------------------------------------
Laminar(v) == \A g, h \in v : g.graph = h.graph => ~Partial(g.members, h.members)

\* Corrections name nodes there can be, one group per id; one store lock is held at most;
\* and every derived hierarchy is a forest of groups with ids of their own: Hierarchy's
\* constructor refuses anything else, and would leave the window without a picture.
HierarchyTypeOK ==
  /\ \A o \in {overrides, file} :
       /\ \A m \in o.manual : m.graph \in Graphs /\ m.members \subseteq Nodes /\ Cardinality(m.members) >= 2
       /\ \A m, n \in o.manual : m.id = n.id => m = n
       /\ \E j \in DOMAIN Modes : o.mode = Modes[j]
  /\ Cardinality(saver) <= 1
  /\ \A s \in Sessions :
       /\ window[s].at \in {"idle", "saving", "reverting"}
       /\ Laminar(view[s])
       /\ \A g, h \in view[s] : g.id = h.id => g = h

\* In a hierarchy that is up to date, a group of the user is missing only if another
\* group of the user overlaps it: no detector, mode, lock or rejection hides it.
UserWins ==
  \A s \in Sessions :
    view[s] = Recomputed(candidates[s], overrides) =>
      \A m \in overrides.manual :
        Has(view[s], m.id) \/ \E n \in overrides.manual : Partial(m.members, n.members)

\* What a correction that was reported as done has added, renamed, rejected, locked or
\* taken away is so in the sidecar, until another correction changes it back: whichever
\* session saved last, whatever was being saved meanwhile, through failing saves and
\* restarts.  The one exception is the first save after a start that could not read the
\* sidecar, which replaces it by what has been corrected since.
ReportedOnDisk == Agrees(reported, file)

\* As long as every session sees that a group of the user is locked, no correction but the
\* reset of its graph takes its members apart; nor does anything else but a restart, on the
\* sidecar or without it.
LockedKept ==
  [][\A m \in overrides.manual :
       (\A s \in Sessions : \E g \in view[s] : g.id = m.id /\ g.locked) =>
         \/ \E n \in overrides'.manual : n.graph = m.graph /\ n.members = m.members
         \/ count'.resets # count.resets
         \/ count'.made = count.made /\ overrides' \in {file, Fresh}]_hierarchy

\* A handler that goes on after its correction shows a group that exists, or the whole
\* graph: _repair_missing_root_group says that this is what the split and reject handlers
\* already do.
RootRepaired ==
  window[Shown].at = "saving" =>
    window[Shown].then = NoRoot \/ Has(view[Shown], window[Shown].then)

\* Corrections last: what the user drew decides over every detector, and once reported as
\* saved it is in the sidecar, until a save that follows an unreadable one.
CorrectionsKept == HierarchyTypeOK /\ UserWins /\ ReportedOnDisk
=============================================================================
