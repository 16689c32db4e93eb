----------------------------- MODULE OnnxImport -----------------------------
(***************************************************************************)
(* Opening an ONNX file.  adapters/onnx/indexer.py walks the messages of   *)
(* the file and locates tensors without reading them; to_ir.py makes the   *)
(* index a document, whose constructors may refuse it; checks.py reports   *)
(* what is inconsistent and repairs nothing.                               *)
(*                                                                         *)
(* A file is the nesting of its messages.  A graph is identified by the    *)
(* path of its attachment, a sequence of <<node id, attribute, index>>     *)
(* that starts at the entry graph or at a function.                        *)
(***************************************************************************)
EXTENDS EditCommands

CONSTANTS
    Bits,              \* dtypes.py: element type -> bits, for the types of a fixed width
    FileSizes,         \* external: location -> size of the file there
    UnsafeLocations,   \* external: locations resolve_within refuses
    MaxDepth,          \* ScanLimits.max_depth
    MaxElements        \* _MAX_ELEMENT_COUNT

NoLength    == -1     \* a length that is not given, or not known
NegativeDim == -50    \* a dim_value below 0; other negative dimensions are symbols
Invalid     == -2     \* an offset or length that is no number, or a negative one
Served      == {"raw", "external"}

EntryGraph == << <<NoName, "main", 0>> >>

---------------------------------------------------------------------------
(* Tensors: located, never read *)

ElementCount(dims) == FoldLeft(LAMBDA n, d : n * d, 1, dims)

ExpectedBytes(type, dims) ==
    LET count == ElementCount(dims)
    IN  IF type \in DOMAIN Bits /\ count \in 0..MaxElements
        THEN (count * Bits[type] + 7) \div 8 ELSE NoLength

StorageOf(t) ==
    IF t.external # << >> THEN "external"
    ELSE IF t.raw # NoLength THEN "raw"
    ELSE IF t.typed # NoLength THEN "typed" ELSE "absent"

\* _external_reference: where the bytes are said to lie, and the first thing wrong with it.
ExternalReference(e, type, dims) ==
    LET length == IF e.length = NoLength THEN FileSizes[e.location] - e.offset ELSE e.length
        refused(error, offset, given) == [offset |-> offset, length |-> given, error |-> error]
    IN  IF e.offset = Invalid THEN refused("metadata", 0, e.length)
        ELSE IF e.length = Invalid THEN refused("metadata", e.offset, NoLength)
        ELSE IF e.location \in UnsafeLocations THEN refused("unsafe path", e.offset, e.length)
        ELSE IF e.location \notin DOMAIN FileSizes THEN refused("missing file", e.offset, e.length)
        ELSE IF length < 0 \/ e.offset + length > FileSizes[e.location]
             THEN refused("out of bounds", e.offset, e.length)
        ELSE IF ExpectedBytes(type, dims) \notin {NoLength, length}
             THEN refused("wrong length", e.offset, length)
        ELSE refused("", e.offset, length)

\* _tensor: the index of one TensorProto.  The first error found is the one it keeps.
TensorIndex(t, id) ==
    LET storage == StorageOf(t)
        located == CASE storage = "external" -> ExternalReference(t.external[1], t.type, t.dims)
                     [] storage = "raw" ->
                          [offset |-> 0, length |-> t.raw,
                           error  |-> IF ExpectedBytes(t.type, t.dims) \notin {NoLength, t.raw}
                                      THEN "wrong length" ELSE ""]
                     [] OTHER -> [offset |-> 0, length |-> NoLength, error |-> ""]
        shape == IF \E d \in DOMAIN t.dims : t.dims[d] < 0 THEN "negative dimension"
                 ELSE IF ElementCount(t.dims) > MaxElements THEN "implausible shape" ELSE ""
    IN  [id |-> id, name |-> t.name, type |-> t.type, dims |-> t.dims, storage |-> storage,
         location |-> IF storage = "external" THEN t.external[1].location ELSE "",
         offset |-> located.offset, length |-> located.length, typed |-> t.typed,
         error |-> IF shape # "" THEN shape ELSE located.error]

\* TensorIndex.is_readable.
Readable(x) == x.error = "" /\ x.storage \in Served

---------------------------------------------------------------------------
(* Nodes and attributes *)

\* identity.node_id: the name, else the first output, else the place.
OwnId(nodes, i) ==
    LET outs == SelectSeq(nodes[i].outs, LAMBDA o : o # NoName)
    IN  IF nodes[i].name # NoName THEN nodes[i].name
        ELSE IF outs # << >> THEN <<"out">> \o outs[1] ELSE <<"idx", i>>

\* The later of two nodes that derive one id falls back to its place.
DerivedId(nodes, i) ==
    IF \E j \in 1..(i - 1) : OwnId(nodes, j) = OwnId(nodes, i) THEN <<"idx", i>>
    ELSE OwnId(nodes, i)

Positional(nodes, i) == DerivedId(nodes, i) = <<"idx", i>>

\* The order in which the kind of an attribute without a declared type is guessed.
Guesses == <<"tensors", "tensor", "graphs", "graph", "float", "int", "string",
             "floats", "ints", "strings">>

KindOf(a) ==
    LET seen == SelectSeq(Guesses, LAMBDA kind : kind \in a.fields)
    IN  IF a.type \in Range(Guesses) THEN a.type ELSE IF seen # << >> THEN seen[1] ELSE "unknown"

\* Why the value of an attribute is not imported; "" when it is.
Unsupported(a) ==
    IF a.name = "" THEN "onnx.nameless-attribute"
    ELSE IF "large" \in a.fields THEN "onnx.attribute-too-large"
    ELSE IF "foreign" \in a.fields THEN "onnx.unsupported-attribute"
    ELSE IF KindOf(a) = "unknown" THEN "onnx.unknown-attribute-type"
    ELSE IF \/ KindOf(a) = "tensor" /\ a.tensors = << >>
            \/ KindOf(a) = "graph" /\ a.graphs = << >> THEN "onnx.malformed-attribute"
    ELSE ""

\* Attribute(...): a value whose field is not there is the default of its kind.
AttributesOf(n) ==
    LET kept == SelectSeq(n.attrs, LAMBDA a : Unsupported(a) = "")
    IN  [i \in DOMAIN kept |-> [name |-> kept[i].name, kind |-> KindOf(kept[i]),
            value |-> IF KindOf(kept[i]) \in kept[i].fields THEN kept[i].value ELSE 0]]

---------------------------------------------------------------------------
(* Graphs *)

\* attribute_subgraph_id for every graph attached to a node of e.  Where two attributes
\* of a node have one name, the later one's graphs take the place of the earlier one's.
Nested(e) ==
    LET nodes == e.msg.nodes
        last(i, a) == \A b \in DOMAIN nodes[i].attrs :
                         b > a /\ nodes[i].attrs[b].name = nodes[i].attrs[a].name =>
                             nodes[i].attrs[b].graphs = << >>
        of(i, a) == LET attr == nodes[i].attrs[a]
                    IN  {[id  |-> Append(e.id, <<DerivedId(nodes, i), attr.name,
                                     IF "graphs" \in attr.fields THEN k ELSE 0>>),
                          msg |-> attr.graphs[k], level |-> e.level + 1] :
                             k \in DOMAIN attr.graphs}
    IN  UNION {UNION {of(i, a) : a \in {b \in DOMAIN nodes[i].attrs : last(i, b)}} :
                  i \in DOMAIN nodes}

\* _function: a graph without declarations; the later of two functions with one id wins.
FunctionEntries(file) ==
    {[id    |-> << <<file.functions[i].name, "fn", 0>> >>, level |-> 0,
      msg   |-> [nodes |-> file.functions[i].nodes, inits |-> << >>, inputs |-> << >>,
                 outputs |-> << >>, infos |-> << >>, sparse |-> 0]] :
        i \in {j \in DOMAIN file.functions :
                  \A k \in (j + 1)..Len(file.functions) :
                      file.functions[k].name # file.functions[j].name}}

GraphEntries(file) ==
    LET level[k \in 0..MaxDepth \div 3] ==
            IF k = 0
            THEN {[id |-> EntryGraph, msg |-> file.graph[1], level |-> 0]} \cup FunctionEntries(file)
            ELSE UNION {Nested(e) : e \in level[k - 1]}
    IN  UNION {level[k] : k \in 0..MaxDepth \div 3}

\* MessageCursor: the depth of the deepest message the walk opens in a graph.
DeepestMessage(e) ==
    LET m == e.msg
        values == m.inputs \o m.outputs \o m.infos
        attrs == UNION {Range(m.nodes[i].attrs) : i \in DOMAIN m.nodes}
        below == {0} \cup {1 : i \in DOMAIN m.nodes} \cup {2 : a \in attrs}
                     \cup {3 : a \in {b \in attrs : b.tensors # << >>}}
                     \cup {IF values[i].shape = NoShape THEN 3
                           ELSE IF values[i].shape = << >> THEN 4 ELSE 5 : i \in DOMAIN values}
    IN  1 + 3 * e.level + CHOOSE d \in below : \A o \in below : o <= d

\* The tensors of a graph with their places: initializers, then attribute tensors.
PlacedTensors(e) ==
    LET init(i) ==
            TensorIndex(e.msg.inits[i],
                <<e.id, "init", IF e.msg.inits[i].name = NoName THEN <<"initializer", i>>
                                ELSE e.msg.inits[i].name>>)
        attr(i, a, k) ==
            LET n == e.msg.nodes[i]
                t == n.attrs[a].tensors[k]
            IN  TensorIndex(t, <<e.id, "attr", IF t.name # NoName THEN t.name
                                               ELSE DerivedId(e.msg.nodes, i) \o <<n.attrs[a].name>> >>)
    IN       {<<"init", i, 0, 0, init(i)>> : i \in DOMAIN e.msg.inits}
        \cup UNION {UNION {{<<"attr", i, a, k, attr(i, a, k)>> :
                        k \in DOMAIN e.msg.nodes[i].attrs[a].tensors} :
                    a \in DOMAIN e.msg.nodes[i].attrs} : i \in DOMAIN e.msg.nodes}

\* index_model: the index, or the reason why the file is no readable model.
Index(file) ==
    IF ~file.whole \/ file.graph = << >>
    THEN [raised |-> "not a model", graphs |-> {}, tensors |-> {}]
    ELSE LET entries == GraphEntries(file)
         IN  IF \E e \in entries : DeepestMessage(e) >= MaxDepth
             THEN [raised |-> "nested too deep", graphs |-> {}, tensors |-> {}]
             ELSE [raised |-> "", graphs |-> entries,
                   tensors |-> UNION {{<<e.id, p>> : p \in PlacedTensors(e)} : e \in entries}]

TensorsOf(ix) == {t[2][5] : t \in ix.tensors}

---------------------------------------------------------------------------
(* Reading what was located *)

\* TensorStore._locate and typed_data.materialize_typed_tensor: how many bytes a read of a
\* tensor of the document returns, or NoLength when it raises.
BytesServed(x) ==
    CASE x.storage = "raw" -> x.length
      [] x.storage = "external" ->
            IF x.location \in UnsafeLocations \cup {""} \/ x.location \notin DOMAIN FileSizes
            THEN NoLength
            ELSE LET length == IF x.length # NoLength THEN x.length
                               ELSE FileSizes[x.location] - x.offset
                 IN  IF length < 0 \/ x.offset + length > FileSizes[x.location]
                     THEN NoLength ELSE length
      [] x.storage = "typed" ->
            IF x.type \in DOMAIN Bits /\ Bits[x.type] % 8 = 0 /\ x.typed = ElementCount(x.dims)
            THEN x.typed * (Bits[x.type] \div 8) ELSE NoLength
      [] x.storage = "absent" -> NoLength

---------------------------------------------------------------------------
(* to_ir.py *)

Entries(m) == m.inputs \o m.outputs \o m.infos

NamesOf(values) == {values[i].name : i \in DOMAIN values}

FirstOf(seq, name) == seq[CHOOSE i \in DOMAIN seq :
    seq[i].name = name /\ \A j \in 1..(i - 1) : seq[j].name # name]

\* _GraphBuilder.declare and declare_initializer: the first declaration of a name counts.
ValueNamed(m, name) ==
    IF name \in NamesOf(Entries(m))
    THEN [type |-> FirstOf(Entries(m), name).type, shape |-> FirstOf(Entries(m), name).shape,
          name |-> name]
    ELSE IF name \in NamesOf(m.inits)
    THEN [type |-> FirstOf(m.inits, name).type, shape |-> FirstOf(m.inits, name).dims, name |-> name]
    ELSE [type |-> NoType, shape |-> NoShape, name |-> name]

\* _GraphBuilder.port: an omitted port keeps its place by a placeholder.
Port(id, name, p) == IF name # NoName THEN name ELSE <<"empty">> \o id \o <<p>>

\* Names the graphs attached to a node read from outside.
Captured(e, id, entries) ==
    LET inside == {h \in entries : /\ Len(h.id) > Len(e.id)
                                   /\ SubSeq(h.id, 1, Len(e.id)) = e.id
                                   /\ h.id[Len(e.id) + 1][1] = id}
        reads(h)   == UNION {Range(h.msg.nodes[i].ins) : i \in DOMAIN h.msg.nodes}
        defines(h) == NamesOf(h.msg.inputs) \cup NamesOf(h.msg.inits)
                          \cup UNION {Range(h.msg.nodes[i].outs) : i \in DOMAIN h.msg.nodes}
    IN  (UNION {reads(h) : h \in inside}) \ (UNION {defines(h) : h \in inside} \cup {NoName})

\* _convert_node.
ConvertedNode(e, i, entries) ==
    LET n == e.msg.nodes[i]
        id == DerivedId(e.msg.nodes, i)
    IN  [id |-> id, op |-> n.op, name |-> n.name,
         ins  |-> [p \in DOMAIN n.ins  |-> Port(id, n.ins[p], p)],
         outs |-> [p \in DOMAIN n.outs |-> Port(id, n.outs[p], Len(n.ins) + p)],
         attrs |-> AttributesOf(n), captured |-> Captured(e, id, entries)]

\* _convert_graph; io are the parameter names of a function.
ConvertedGraph(e, io, entries) ==
    LET m == e.msg
        nodes == [i \in DOMAIN m.nodes |-> ConvertedNode(e, i, entries)]
        ports == UNION {Range(nodes[i].ins) \cup Range(nodes[i].outs) : i \in DOMAIN nodes}
        named == NamesOf(Entries(m)) \cup NamesOf(m.inits) \cup io.ins \cup io.outs
                     \cup UNION {Range(m.nodes[i].ins) \cup Range(m.nodes[i].outs) : i \in DOMAIN m.nodes}
    IN  [nodes |-> nodes,
         values |-> [v \in (named \ {NoName}) \cup ports |->
                        IF v \in named THEN ValueNamed(m, v)
                        ELSE [type |-> NoType, shape |-> NoShape, name |-> NoName]],
         inputs  |-> NamesOf(m.inputs)  \cup io.ins,
         outputs |-> NamesOf(m.outputs) \cup io.outs,
         inits   |-> {IF m.inits[i].name = NoName THEN <<"initializer", i>> ELSE m.inits[i].name :
                         i \in DOMAIN m.inits}]

IoOf(file, id) ==
    LET own == {i \in DOMAIN file.functions : id = << <<file.functions[i].name, "fn", 0>> >>}
    IN  [ins  |-> UNION {Range(file.functions[i].ins)  : i \in own},
         outs |-> UNION {Range(file.functions[i].outs) : i \in own}]

\* The identity of a tensor in the document the commands edit.
LocalId(id) ==
    IF id[1] = EntryGraph /\ id[2] = "init" THEN id[3]
    ELSE IF id[1] = EntryGraph THEN <<"attr">> \o id[3] ELSE <<"nested", id[1], id[2]>> \o id[3]

\* _tensor_ref: only what has no location at all becomes absent.  file is the resolved
\* location, or "" when there is none.
TensorRef(x) ==
    [type |-> x.type, dims |-> x.dims, name |-> x.name,
     storage |-> IF x.storage = "external" /\ x.location = "" THEN "absent"
                 ELSE IF x.storage \in {"raw", "typed"} THEN "embedded" ELSE x.storage,
     bytes   |-> BytesServed(x),
     file    |-> IF x.storage # "external" \/ x.error \in {"metadata", "unsafe path", "missing file"}
                 THEN "" ELSE x.location,
     walked  |-> x.id[2] = "init" /\ x.id[1][1] = EntryGraph[1]]

\* What the constructors of ir/core.py refuse: Value, TensorRef, Node, Graph, Document.
Refusals(ix, graphs) ==
    LET negative(shape) == \E d \in DOMAIN shape : shape[d] = NegativeDim
    IN       {"negative dimension" : t \in {u \in TensorsOf(ix) : negative(u.dims)}}
        \cup {"negative dimension" : e \in {f \in ix.graphs :
                 \E i \in DOMAIN Entries(f.msg) : negative(Entries(f.msg)[i].shape)}}
        \cup {"no operator" : e \in {f \in ix.graphs : \E i \in DOMAIN f.msg.nodes : f.msg.nodes[i].op = ""}}
        \cup {"graph" : g \in {h \in graphs : ~GraphAccepted(h)}}
        \cup {"tensor twice" : t \in {<<a, b>> \in ix.tensors \X ix.tensors :
                 a # b /\ a[2][5].id = b[2][5].id}}

\* index_to_document: the document of the entry graph, or why there is none.
ToDocument(file, ix) ==
    IF ix.raised # "" THEN [raised |-> {ix.raised}, document |-> << >>]
    ELSE LET graphs == {<<e.id, ConvertedGraph(e, IoOf(file, e.id), ix.graphs)>> : e \in ix.graphs}
             main == (CHOOSE g \in graphs : g[1] = EntryGraph)[2]
             local(t) == LocalId(t.id)
         IN  [raised |-> Refusals(ix, {g[2] : g \in graphs}),
              document |-> [nodes |-> main.nodes, values |-> main.values, inputs |-> main.inputs,
                            outputs |-> main.outputs, inits |-> main.inits,
                            tensors |-> [t \in {local(x) : x \in TensorsOf(ix)} |->
                                TensorRef(CHOOSE x \in TensorsOf(ix) : local(x) = t)]]]

\* _narrow_capabilities: the tensors that get a note that their bytes cannot be had.
Noted(ix) == {x \in TensorsOf(ix) : x.storage \in Served /\ ~Readable(x)}

---------------------------------------------------------------------------
(* checks.py *)

\* _visible_names: the names of a graph and of the graphs it is attached within.
VisibleNames(ix, id) ==
    UNION {NamesOf(e.msg.inputs) \cup NamesOf(e.msg.inits)
               \cup UNION {Range(e.msg.nodes[i].outs) \ {NoName} : i \in DOMAIN e.msg.nodes} :
           e \in {f \in ix.graphs : \E k \in DOMAIN id : f.id = SubSeq(id, 1, k)}}

UnresolvedInputs(ix) ==
    UNION {{<<e.id, i>> : i \in {j \in DOMAIN e.msg.nodes :
               ~(Range(e.msg.nodes[j].ins) \ {NoName} \subseteq VisibleNames(ix, e.id))}} :
           e \in ix.graphs}

\* An annotation of a name contradicts the initializer that has it.
AnnotationConflicts(ix) ==
    UNION {{<<e.id, i>> : i \in {j \in DOMAIN e.msg.inits :
               LET t == e.msg.inits[j]
                   declared == ValueNamed(e.msg, t.name)
               IN  \/ declared.type \notin {NoType, t.type}
                   \/ /\ declared.shape # NoShape
                      /\ \/ Len(declared.shape) # Len(t.dims)
                         \/ \E d \in DOMAIN t.dims \cap DOMAIN declared.shape :
                               declared.shape[d] >= 0 /\ declared.shape[d] # t.dims[d]}} :
           e \in ix.graphs}

DuplicateInitializers(ix) ==
    UNION {{<<e.id, i>> : i \in {j \in DOMAIN e.msg.inits :
               \E k \in 1..(j - 1) : e.msg.inits[k].name = e.msg.inits[j].name}} : e \in ix.graphs}

=============================================================================
