------------------------------ MODULE MCHierarchy ------------------------------
(* A plain model whose proposals overlap, with the body of a loop; one with a   *)
(* residual and one with interleaved repeats; a synthesized language model; and *)
(* every dataflow graph of four operators, for the detectors alone.             *)
EXTENDS ShellNavigation

MCNodes  == 1..9
MCGraphs == {"main", "body"}
MCKindPriority == ("manual" :> 6) @@ ("repeated" :> 5) @@ ("pattern" :> 4) @@ ("structural" :> 3)
                  @@ ("source" :> 2) @@ ("control-flow" :> 1)
MCModes   == <<"auto", "repeated", "structural">>
MCKindsOf == [auto |-> {"repeated", "pattern", "structural", "source", "control-flow"},
              repeated |-> {"repeated", "control-flow"}, structural |-> {"structural", "control-flow"}]

Linear == {"MatMul", "Gemm"}
Acts   == {"Relu", "Gelu"}
MCPatterns == <<[stages |-> <<Linear, {"Softmax"}, Linear>>, conf |-> 94, run |-> 4,
                 connectors |-> {"Div", "Add", "Reshape"}],
                [stages |-> <<Linear, Acts, Linear>>, conf |-> 94, run |-> 2,
                 connectors |-> {"Mul", "Reshape"}]>>

Model(ops, edges, body) ==
  [op |-> [n \in MCNodes |-> IF n \in DOMAIN ops THEN ops[n] ELSE "none"],
   sig |-> [n \in MCNodes |-> 1], edges |-> edges, scope |-> [n \in MCNodes |-> <<>>],
   nodesOf |-> [main |-> (DOMAIN ops) \ body, body |-> body],
   bodies |-> {"body"}, layered |-> FALSE, stems |-> [n \in MCNodes |-> <<>>]]
Chain(n) == {<<i, i + 1>> : i \in 1..(n - 1)}

\* The motif {1, 2, 3} hides the second of the repeated blocks {1, 2} and {3, 4}; node 5
\* is a constant that feeds the last operator; node 6 is the body of a loop.
Plain == [Model(<<"MatMul", "Relu", "MatMul", "Relu", "Constant", "Relu">>,
                Chain(4) \cup {<<5, 4>>}, {6})
          EXCEPT !.scope[3] = <<7>>, !.scope[4] = <<7>>]

\* One layer of it.
Layer == [Model(<<"MatMul", "Relu", "MatMul">>, Chain(3), {})
          EXCEPT !.scope[2] = <<7>>, !.scope[3] = <<7>>]

\* Two blocks of an attention whose operators were declared in turns.
Turns == Model(<<"MatMul", "MatMul", "Div", "Div", "Softmax", "Softmax", "MatMul", "MatMul">>,
               {<<i, i + 2>> : i \in 1..6}, {})

\* A residual around two layers, and a branch that never meets again.
Residual == Model(<<"Relu", "MatMul", "Relu", "Add", "Gelu", "Relu">>,
                  {<<1, 2>>, <<2, 3>>, <<3, 4>>, <<1, 4>>, <<4, 5>>, <<4, 6>>}, {})

\* Two layers of two operators: one window of four is two of two.
Periodic == Model([n \in 1..8 |-> IF n % 2 = 1 THEN "MatMul" ELSE "Relu"], Chain(8), {})

\* An embedding, a block with attention (two weights) and its other half, and a head of
\* two weights outside every block.
LanguageModel ==
  [Model(<<"Embed", "Attention", "FeedForward", "Head">>, Chain(4), {})
   EXCEPT !.layered = TRUE, !.scope = [n \in MCNodes |-> IF n \in {2, 3} THEN <<1, 3>> ELSE <<1>>],
          !.stems[2] = <<"q", "k">>, !.stems[3] = <<"up">>, !.stems[4] = <<"norm", "out">>]

Forward(n) == {e \in (1..n) \X (1..n) : e[1] < e[2]}
Small == {Model(<<"Relu", "Add", "Relu", "Add">>, edges, {}) : edges \in SUBSET Forward(4)}
MCArtifacts == {Plain, Layer, Turns, Residual, Periodic, LanguageModel} \cup Small

Day(artifacts, corrections, by, features) ==
  [artifacts |-> artifacts, corrections |-> corrections, by |-> by, moves |-> "moves" \in features,
   edits |-> "edits" \in features, warm |-> "warm" \in features, others |-> "others" \in features,
   auto |-> "auto" \in features, search |-> "search" \in features]

\* Corrections in two sessions; the window's own while it is navigated; levels that follow
\* the zoom; searches among edits; the slicer's other callers; and the opening alone.
MCDays == {Day({Layer}, 2, Sessions, {}), Day({LanguageModel}, 1, {Shown}, {"moves"}),
           Day({Layer}, 1, {Shown}, {"moves"}), Day({Plain, Residual, LanguageModel}, 0, {}, {"moves", "auto"}),
           Day({Plain}, 0, {Shown}, {"moves", "edits", "search"}),
           Day({LanguageModel}, 1, {Shown}, {"search"}),
           Day({Layer}, 1, Sessions \ {Shown}, {"edits", "warm", "others"}),
           Day({Turns, Periodic} \cup Small, 0, {}, {"warm"})}
=============================================================================
