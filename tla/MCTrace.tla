------------------------------- MODULE MCTrace -------------------------------
(***************************************************************************)
(* Traces of up to three targets over a model of two nodes.                *)
(***************************************************************************)
EXTENDS TraceRunner

Kind(role, declared, size, item, object, node) ==
  [role |-> role, declared |-> declared, size |-> size, item |-> item,
   object |-> object, node |-> node]

\* An input; an output; inner values: of one unit, of two-unit elements, of
\* unknown size, larger than declared, empty, and one that holds objects.
MCKinds ==
  {Kind("input", 1, 1, 1, FALSE, 0), Kind("output", 2, 2, 1, FALSE, 1),
   Kind("inner", 1, 1, 1, FALSE, 0), Kind("inner", 4, 4, 2, FALSE, 1),
   Kind("inner", Unknown, 1, 1, FALSE, 0), Kind("inner", 1, 2, 1, FALSE, 1)}

MCOddKinds == {Kind("inner", 0, 0, 1, FALSE, 0), Kind("inner", Unknown, 1, 1, TRUE, 0),
               Kind("output", 1, 1, 1, FALSE, 0)}

Request(w, b, d, p, pool, targets) ==
  [worker |-> w, backend |-> b, device |-> d, policy |-> p, pool |-> pool, targets |-> targets]

Triples == {<<a, b, c>> : a \in MCKinds, b \in MCKinds, c \in MCKinds}
Pairs == {<<a, b>> : a \in MCKinds, b \in MCOddKinds}

MCRequests ==
  {Request("onnx", "auto", "auto", p, n, t) : p \in {"greedy", "preview"}, n \in {1, 3}, t \in Triples}
  \cup {Request("onnx", b, d, "greedy", 3, t) :
          b \in Backends, d \in {"auto", "gpu"}, t \in Pairs}
  \cup {Request("tracer", "auto", "auto", p, 3, t) : p \in {"greedy", "preview"}, t \in Pairs}

Machine(installed, accepts, reference, breaks) ==
  [installed |-> installed, accepts |-> accepts, reference |-> reference, breaks |-> breaks]

MCMachines ==
  {Machine({"CUDA", "CPU"}, {"CPU"}, "whole", 2), Machine({"QNN"}, {}, "whole", 2),
   Machine({}, {}, "build", 1), Machine({}, {}, "evaluate", 2), Machine({"CPU"}, {}, "memory", 2)}
==============================================================================
