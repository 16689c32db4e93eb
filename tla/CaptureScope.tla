---------------------------- MODULE CaptureScope ----------------------------
(***************************************************************************)
(* What a trace captures: the scope the trace panel offers and counts      *)
(* (ui/trace_panel.py) and the targets the runner derives from the request *)
(* (tracing/runner.py).  Both walk the same graph, each with its own code. *)
(* A graph is a record: inputs and outputs are sets of values, nodes maps  *)
(* a node to the set of its outputs, initializers is a set of tensors,     *)
(* named the values with a serialized name, and bytes the size of the      *)
(* values that declare one (0 for the others).                             *)
(***************************************************************************)
EXTENDS Integers, FiniteSets, FiniteSetsExt, Functions

CONSTANTS PreviewValueCount,  \* _PREVIEW_DEFAULT_VALUE_COUNT
          AdvisoryBytes       \* _FULL_CAPTURE_ADVISORY_BYTES

ScopeChoices == {"default", "boundaries", "preview", "everything"}

\* A value and a tensor never have the same id: ids carry their kind.
ValueId(name) == <<"v", name>>
TensorId(name) == <<"t", name>>

NodeOutputs(graph) == UNION Range(graph.nodes)

\* The filter on initializers compares ids of values with ids of tensors, so
\* it keeps every input.
FreeInputs(graph) == {v \in graph.inputs : v \notin graph.initializers}

------------------------------------------------------------------------------
(* The panel. *)

Capturable(graph) ==
  (FreeInputs(graph) \union NodeOutputs(graph)) \intersect graph.named

BoundaryUnnamed(graph) == FreeInputs(graph) \union graph.outputs

Boundary(graph) ==
  (FreeInputs(graph) \union graph.outputs) \intersect graph.named

SelectedValues(graph, selection) ==
  (UNION {graph.nodes[n] : n \in selection \intersect DOMAIN graph.nodes})
    \intersect graph.named

EstimatedBytes(graph, values) == MapThenSumSet(LAMBDA v : graph.bytes[v], values)

EffectiveScope(graph, choice) ==
  IF choice # "default" THEN choice
  ELSE IF \/ Cardinality(Capturable(graph)) > PreviewValueCount
          \/ EstimatedBytes(graph, Capturable(graph)) > AdvisoryBytes
       THEN "preview"
       ELSE "everything"

\* The empty set asks for everything.
CaptureValueIds(graph, form) ==
  IF form.selectedOnly THEN SelectedValues(graph, form.selection)
  ELSE IF EffectiveScope(graph, form.choice) = "boundaries"
       THEN Boundary(graph) \union SelectedValues(graph, form.selection)
       ELSE {}

CapturePolicy(graph, form) ==
  IF ~form.selectedOnly /\ EffectiveScope(graph, form.choice) = "preview"
  THEN "preview" ELSE "greedy"

\* The values whose number the panel states before the user approves.
Promised(graph, form) ==
  LET asked == CaptureValueIds(graph, form)
  IN  IF asked = {} THEN Capturable(graph) ELSE asked

------------------------------------------------------------------------------
(* The runner. *)

Roles(graph) == FreeInputs(graph) \union NodeOutputs(graph)

\* _targets refuses an unnamed value that was selected, and a selection that
\* leaves nothing.
Targets(graph, asked) ==
  IF asked = {} THEN Roles(graph) \intersect graph.named
                ELSE Roles(graph) \intersect asked

Refused(graph, asked) ==
  \/ Targets(graph, asked) = {}
  \/ asked # {} /\ ~(Targets(graph, asked) \subseteq graph.named)
=============================================================================
