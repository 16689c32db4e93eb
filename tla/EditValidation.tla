--------------------------- MODULE EditValidation ---------------------------
(***************************************************************************)
(* From a user's request to a command: the handlers of                     *)
(* editing/validation.py, which either raise EditError (the guard is       *)
(* false) or return one command, the schema findings on the node whose     *)
(* contract the command changed, and the transformations of                *)
(* transformations/engine.py that change a tensor or the graph.            *)
(***************************************************************************)
EXTENDS OnnxImport

CONSTANTS
    EscapedNames,   \* names with a character encode_segment escapes: the handlers that look a
                    \* weight up by the end of its id (engine.py:849) do not find them
    Schemas     \* operator -> [arity, outs, attrs, required, types]: external, the ONNX schemas of the model's opset

\* _SHAPE_PRESERVING_UNARY and the other family of _COMPATIBLE_OPERATOR_FAMILIES,
\* cut down to the operators the model's requests use.
ShapePreservingUnary == {"Relu", "LeakyRelu"}
ElementwiseFamily    == {"Add", "Mean"}
Families == {ShapePreservingUnary, ElementwiseFamily}

---------------------------------------------------------------------------
(* Helpers of the handlers *)

\* _compatible_values: may a value take the place of another?
Compatible(old, new, allowUnresolved) ==
    /\ old.type = new.type \/ NoType \in {old.type, new.type}
    /\ \/ /\ NoType \in {old.type, new.type}
          /\ allowUnresolved
       \/ /\ NoType \notin {old.type, new.type}
          /\ \/ NoShape \in {old.shape, new.shape} /\ allowUnresolved
             \/ /\ NoShape \notin {old.shape, new.shape}
                /\ Len(old.shape) = Len(new.shape)
                /\ \A d \in DOMAIN old.shape :
                      \/ old.shape[d] = new.shape[d]
                      \/ (old.shape[d] < 0 \/ new.shape[d] < 0) /\ allowUnresolved

\* The ids of the nodes that read, directly or not, what n produces, n among them.
Downstream(g, n) ==
    LET next(S) == S \cup {m \in NodeIds(g) :
                       \E s \in S : Range(NodeOf(g, m).ins) \cap Range(NodeOf(g, s).outs) # {}}
        reach[k \in 0..Len(g.nodes)] == IF k = 0 THEN {n} ELSE next(reach[k - 1])
    IN  reach[Len(g.nodes)]

\* _would_create_cycle: is the producer of v downstream of the node that would read it?
WouldCreateCycle(g, n, v) == Producers(g, v) \cap Downstream(g, n) # {}

\* _schema_findings: is there an error on this node?
SchemaAccepts(g, n) ==
    /\ n.op \in DOMAIN Schemas
    /\ LET schema == Schemas[n.op]
       IN  /\ Len(n.ins) \in schema.arity /\ Len(n.outs) \in schema.outs
           /\ \A i \in DOMAIN n.attrs :
                 /\ n.attrs[i].name \in DOMAIN schema.attrs
                 /\ n.attrs[i].kind = schema.attrs[n.attrs[i].name]
           /\ schema.required \subseteq AttrNames(n)
           /\ \A v \in Range(n.ins) \cup Range(n.outs) :
                 g.values[v].type \in schema.types \cup {NoType}

---------------------------------------------------------------------------
(* The handlers: the commands a request can become, one or none *)

RenameHandler(g, r) ==
    IF \A i \in DOMAIN g.nodes : g.nodes[i].name # r.name
    THEN {[kind |-> "rename", node |-> r.node, before |-> NodeOf(g, r.node).name, after |-> r.name]}
    ELSE {}

AttributeHandler(g, r) ==
    LET before == AttrOf(NodeOf(g, r.node), r.name)
        after  == IF r.remove THEN << >>
                  ELSE <<[name |-> r.name, kind |-> r.attrKind, value |-> r.value]>>
    IN  IF after = before THEN {}
        ELSE {[kind |-> "attribute", node |-> r.node, name |-> r.name,
               before |-> before, after |-> after]}

ReplaceOperatorHandler(g, r) ==
    LET old == NodeOf(g, r.node).op
    IN  IF old # r.op /\ \E family \in Families : {old, r.op} \subseteq family
        THEN {[kind |-> "operator", node |-> r.node, before |-> old, after |-> r.op]}
        ELSE {}

\* Mutant: the stored order is not looked at; the cycle check alone is kept.
ReconnectHandlerUnordered(g, r) ==
    IF /\ r.port \in DOMAIN NodeOf(g, r.node).ins
       /\ HasValue(g, r.value)
       /\ NodeOf(g, r.node).ins[r.port] # r.value
       /\ ~WouldCreateCycle(g, r.node, r.value)
       /\ Compatible(g.values[NodeOf(g, r.node).ins[r.port]], g.values[r.value], FALSE)
    THEN {[kind |-> "reconnect", node |-> r.node, port |-> r.port,
           before |-> NodeOf(g, r.node).ins[r.port], after |-> r.value]}
    ELSE {}

\* The new producer must precede the reader in stored order, too: exports keep that order.
ReconnectHandler(g, r) ==
    IF /\ r.port \in DOMAIN NodeOf(g, r.node).ins
       /\ HasValue(g, r.value)
       /\ NodeOf(g, r.node).ins[r.port] # r.value
       /\ ~WouldCreateCycle(g, r.node, r.value)
       /\ \A p \in Producers(g, r.value) : Position(g, p) < Position(g, r.node)
       /\ Compatible(g.values[NodeOf(g, r.node).ins[r.port]], g.values[r.value], FALSE)
    THEN {[kind |-> "reconnect", node |-> r.node, port |-> r.port,
           before |-> NodeOf(g, r.node).ins[r.port], after |-> r.value]}
    ELSE {}

\* The digest names the revision, the port and the operator; the id comes from the name.
InsertUnaryHandler(g, r, revision) ==
    LET source == NodeOf(g, r.node).ins[r.port]
        digest == <<revision>> \o r.node \o <<r.port, r.op>>
        name   == IF r.name = NoName THEN <<"auto">> \o digest ELSE r.name
        output == <<"out">> \o digest
        node   == [id |-> name, op |-> r.op, name |-> name, ins |-> <<source>>,
                   outs |-> <<output>>, attrs |-> << >>, captured |-> {}]
    IN  IF r.port \in DOMAIN NodeOf(g, r.node).ins /\ r.op \in ShapePreservingUnary
        THEN {[kind |-> "insert", node |-> node, output |-> output,
               values |-> [v \in {output} |-> [g.values[source] EXCEPT !.name = output]],
               target |-> r.node, port |-> r.port, source |-> source]}
        ELSE {}

\* Only consumers in the entry graph are counted: values captured by nested graphs have none in the IR.
RemoveUnaryHandler(g, r) ==
    LET node == NodeOf(g, r.node)
        output == node.outs[1]
    IN  IF /\ Len(node.ins) = 1 /\ Len(node.outs) = 1
           /\ node.captured = {}
           /\ node.op \in ShapePreservingUnary
           /\ output \notin g.outputs
           /\ Cardinality(Consumers(g, output)) = 1
           /\ Compatible(g.values[output], g.values[node.ins[1]], TRUE)
        THEN {[kind |-> "remove", node |-> node, output |-> output, source |-> node.ins[1],
               target |-> port[1], port |-> port[2]] : port \in Consumers(g, output)}
        ELSE {}

Command(g, r, revision) ==
    CASE r.kind = "rename"    -> RenameHandler(g, r)
      [] r.kind = "attribute" -> AttributeHandler(g, r)
      [] r.kind = "operator"  -> ReplaceOperatorHandler(g, r)
      [] r.kind = "reconnect" -> ReconnectHandler(g, r)
      [] r.kind = "insert"    -> InsertUnaryHandler(g, r, revision)
      [] r.kind = "remove"    -> RemoveUnaryHandler(g, r)

\* ValidationPipeline.prepare: the commands of the transactions that are ok.  A graph
\* the constructors refuse is a failed precondition.
Prepare(g, r, revision) ==
    {c \in Command(g, r, revision) :
        LET candidate == Apply(g, c)
        IN  /\ Precondition(g, c)
            /\ GraphAccepted(candidate)
            /\ SchemaAccepts(candidate, NodeOf(candidate, Touched(c)))}

---------------------------------------------------------------------------
(* transformations/engine.py *)

\* _float_tensor: the transformations read float tensors of the current document only.
FloatTensor(g, t) ==
    /\ t \in DOMAIN g.tensors /\ g.tensors[t].type = "float32"
    /\ g.tensors[t].bytes = 4 * ElementCount(g.tensors[t].dims)

\* A hex edit (any tensor) or a weight quantization or logical pruning that changes
\* some value: bytes of the same tensor, in place.
Replacement(g, t, transform) ==
    IF /\ t \in DOMAIN g.tensors /\ g.tensors[t].bytes >= 0
       /\ transform => FloatTensor(g, t)
    THEN {[kind |-> "replace", tensor |-> t, transform |-> transform]}
    ELSE {}

\* _graph_quantization: a QuantizeLinear/DequantizeLinear pair between an initializer and its readers.
GraphQuantization(g, t, revision) ==
    LET id(part) == <<part, revision>> \o t
        param(part, type) == [type |-> type, shape |-> << >>, name |-> id(part)]
        full(part, type)  == [type |-> type, shape |-> g.values[t].shape, name |-> id(part)]
        node(part, op, in, out) ==
            [id |-> id(part), op |-> op, name |-> id(part),
             ins |-> <<in, id("scale"), id("zero")>>, outs |-> <<id(out)>>,
             attrs |-> << >>, captured |-> {}]
    IN  IF /\ FloatTensor(g, t) /\ t \in g.inits \ EscapedNames /\ HasValue(g, t)
           /\ Consumers(g, t) # {}
           /\ \A port \in Consumers(g, t) : NodeOf(g, port[1]).op # "QuantizeLinear"
        THEN {[kind |-> "quantize", tensor |-> t, source |-> t, ports |-> Consumers(g, t),
               tensors |-> [s \in {id("scale"), id("zero")} |->
                   [type |-> IF s = id("scale") THEN "float32" ELSE "int8",
                    dims |-> << >>, storage |-> "generated", name |-> s, bytes |-> 1,
                    file |-> "", walked |-> TRUE]],
               values |-> [v \in {id("scale"), id("zero"), id("quantized"), id("dequantized")} |->
                   CASE v = id("scale")       -> param("scale", "float32")
                     [] v = id("zero")        -> param("zero", "int8")
                     [] v = id("quantized")   -> full("quantized", "int8")
                     [] v = id("dequantized") -> full("dequantized", "float32")],
               quant   |-> node("QuantizeLinear", "QuantizeLinear", t, "quantized"),
               dequant |-> node("DequantizeLinear", "DequantizeLinear", id("quantized"), "dequantized")]}
        ELSE {}

\* _structured_pruning: keep some of the output channels of a terminal MatMul.
StructuredPruning(g, n, keep) ==
    LET node == NodeOf(g, n)
        weight == node.ins[2]
        out  == node.outs[1]
        inShape == g.values[node.ins[1]].shape
        outShape == g.values[out].shape
        dims == g.tensors[weight].dims
        narrowed(v) == [g.values[v] EXCEPT !.shape = Front(@) \o <<keep>>]
    IN  IF /\ node.op = "MatMul" /\ Len(node.ins) = 2 /\ Len(node.outs) = 1
           /\ Consumers(g, weight) = {<<n, 2>>}
           /\ weight \notin g.outputs
           /\ weight \in g.inits \ EscapedNames /\ FloatTensor(g, weight)
           /\ Len(dims) = 2
           /\ NoShape \notin {inShape, outShape} /\ inShape # << >> /\ outShape # << >>
           /\ Last(inShape) = dims[1] /\ Last(outShape) = dims[2]
           /\ g.values[weight].shape = dims
           /\ \A d \in DOMAIN outShape : outShape[d] >= 0
           /\ Consumers(g, out) = {} /\ out \in g.outputs
           /\ keep \in 1..(dims[2] - 1)
        THEN {[kind |-> "resize", tensor |-> weight, before |-> g.tensors[weight],
               after |-> [g.tensors[weight] EXCEPT !.dims = <<dims[1], keep>>, !.storage = "generated",
                             !.bytes = (@ \div dims[2]) * keep, !.file = ""],
               values |-> [v \in {weight, out} |-> narrowed(v)]]}
        ELSE {}

\* TransformationEngine.prepare: the candidate must satisfy the preconditions and the constructors.
PrepareTransformation(g, commands) ==
    {c \in commands : Precondition(g, c) /\ GraphAccepted(Apply(g, c))}

=============================================================================
