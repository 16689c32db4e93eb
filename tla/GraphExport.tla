----------------------------- MODULE GraphExport -----------------------------
(***************************************************************************)
(* The second reading of the commands: adapters/onnx/exporter.py does not  *)
(* write the edited document, it replays the commands of the applied       *)
(* revisions on the protobuf of the source file, by names where the IR     *)
(* uses ids, and then rewrites tensors and their files.  A proto here is   *)
(* the node list, the initializers, whose bytes lie where, the declared    *)
(* shapes of outputs and weights and, beside it, the exporter's table of   *)
(* value names.                                                            *)
(***************************************************************************)
EXTENDS EditValidation

---------------------------------------------------------------------------
(* The protobuf of a document: what index_to_document read it from *)

NameOf(g, v) == g.values[v].name

ProtoNode(g, n) ==
    [id |-> n.id, op |-> n.op, name |-> n.name, attrs |-> n.attrs, captured |-> n.captured,
     ins  |-> [p \in DOMAIN n.ins  |-> NameOf(g, n.ins[p])],
     outs |-> [p \in DOMAIN n.outs |-> NameOf(g, n.outs[p])]]

ProtoOf(g) ==
    [nodes |-> [i \in DOMAIN g.nodes |-> ProtoNode(g, g.nodes[i])],
     inits |-> [t \in g.inits |-> [type |-> g.tensors[t].type, dims |-> g.tensors[t].dims]],
     bytes |-> [t \in DOMAIN g.tensors |-> t],
     info  |-> [v \in g.outputs \cup (g.inits \cap DOMAIN g.values) |-> g.values[v].shape]]

\* _value_names: ids to names, for the values that have one.
ValueNames(g) == [v \in {u \in DOMAIN g.values : NameOf(g, u) # NoName} |-> NameOf(g, v)]

---------------------------------------------------------------------------
(* _apply_graph_commands: one branch per class of command *)

Placed(order, n) == CHOOSE i \in DOMAIN order : order[i].id = n

OnNode(order, n, F(_)) == [i \in DOMAIN order |-> IF order[i].id = n THEN F(order[i]) ELSE order[i]]

SetInput(order, n, p, name) ==
    [i \in DOMAIN order |-> IF order[i].id = n THEN [order[i] EXCEPT !.ins[p] = name] ELSE order[i]]

Extended(f, h) == [x \in DOMAIN f \cup DOMAIN h |-> IF x \in DOMAIN h THEN h[x] ELSE f[x]]

Without(f, v) == [x \in DOMAIN f \ {v} |-> f[x]]

\* ResizeTensor: the declared shapes here, the tensor itself later.
ExportResize(x, c) ==
    [x EXCEPT !.proto.info = Extended(@, [v \in DOMAIN @ \cap DOMAIN c.values |-> c.values[v].shape])]

\* Mutant: the attribute it replaces stays.
ExportAttributeTwice(x, c) ==
    [x EXCEPT !.proto.nodes = OnNode(@, c.node, LAMBDA n :
        [n EXCEPT !.attrs = @ \o c.after])]

ExportAttribute(x, c) ==
    [x EXCEPT !.proto.nodes = OnNode(@, c.node, LAMBDA n :
        [n EXCEPT !.attrs = SelectSeq(@, LAMBDA a : a.name # c.name) \o c.after])]

ExportReconnect(x, c) ==
    IF c.after \notin DOMAIN x.names THEN [x EXCEPT !.raised = "unnamed"]
    ELSE [x EXCEPT !.proto.nodes = SetInput(@, c.node, c.port, x.names[c.after])]

ExportInsert(x, c) ==
    IF c.source \notin DOMAIN x.names THEN [x EXCEPT !.raised = "unnamed"]
    ELSE LET made == [id |-> c.node.id, op |-> c.node.op, name |-> c.node.name,
                      attrs |-> << >>, captured |-> {},
                      ins |-> <<x.names[c.source]>>, outs |-> <<c.output>>]
         IN  [x EXCEPT !.proto.nodes =
                  InsertAt(SetInput(@, c.target, c.port, c.output), Placed(@, c.target), made),
                       !.names = Extended(@, [v \in {c.output} |-> c.output])]

ExportRemove(x, c) ==
    IF c.source \notin DOMAIN x.names THEN [x EXCEPT !.raised = "unnamed"]
    ELSE [x EXCEPT !.proto.nodes =
              SelectSeq(SetInput(@, c.target, c.port, x.names[c.source]), LAMBDA n : n.id # c.node.id),
                   !.names = Without(@, c.output)]

ExportQuantize(x, c) ==
    LET names == Extended(x.names, [v \in DOMAIN c.values |-> c.values[v].name])
        made(n) == [id |-> n.id, op |-> n.op, name |-> n.name, attrs |-> n.attrs, captured |-> {},
                    ins  |-> [p \in DOMAIN n.ins  |-> names[n.ins[p]]],
                    outs |-> [p \in DOMAIN n.outs |-> names[n.outs[p]]]]
        order == x.proto.nodes
        consumers == {port[1] : port \in c.ports}
        first == CHOOSE i \in DOMAIN order :
                    order[i].id \in consumers /\ \A j \in 1..(i - 1) : order[j].id \notin consumers
        wired == [i \in DOMAIN order |-> [order[i] EXCEPT !.ins = [p \in DOMAIN @ |->
                     IF <<order[i].id, p>> \in c.ports THEN names[c.dequant.outs[1]] ELSE @[p]]]]
    IN  [x EXCEPT !.names = names,
                  !.proto.nodes = SubSeq(wired, 1, first - 1) \o <<made(c.quant), made(c.dequant)>>
                                      \o SubSeq(wired, first, Len(wired)),
                  !.proto.bytes = Extended(@, [t \in DOMAIN c.tensors |-> t]),
                  !.proto.info  = Extended(@, [t \in DOMAIN c.tensors |-> c.values[t].shape]),
                  !.proto.inits = Extended(@, [t \in DOMAIN c.tensors |->
                      [type |-> c.tensors[t].type, dims |-> c.tensors[t].dims]])]

ExportCommand(x, c) ==
    IF x.raised # "" THEN x
    ELSE CASE c.kind = "replace"   -> x
           [] c.kind = "resize"    -> ExportResize(x, c)
           [] c.kind = "rename"    -> [x EXCEPT !.proto.nodes =
                                          OnNode(@, c.node, LAMBDA n : [n EXCEPT !.name = c.after])]
           [] c.kind = "attribute" -> ExportAttribute(x, c)
           [] c.kind = "operator"  -> [x EXCEPT !.proto.nodes =
                                          OnNode(@, c.node, LAMBDA n : [n EXCEPT !.op = c.after])]
           [] c.kind = "reconnect" -> ExportReconnect(x, c)
           [] c.kind = "insert"    -> ExportInsert(x, c)
           [] c.kind = "remove"    -> ExportRemove(x, c)
           [] c.kind = "quantize"  -> ExportQuantize(x, c)

ApplyGraphCommands(base, commands) ==
    FoldLeft(ExportCommand,
             [proto |-> ProtoOf(base), names |-> ValueNames(base), raised |-> ""], commands)

---------------------------------------------------------------------------
(* Tensors *)

Replaced(commands) == {commands[i].tensor : i \in {j \in DOMAIN commands : commands[j].kind = "replace"}}
Resized(commands)  == {commands[i].tensor : i \in {j \in DOMAIN commands : commands[j].kind = "resize"}}

Embedded(base, t) == base.tensors[t].storage = "embedded"

LastResize(commands, t) ==
    commands[CHOOSE i \in DOMAIN commands :
        /\ commands[i].kind = "resize" /\ commands[i].tensor = t
        /\ \A j \in (i + 1)..Len(commands) :
              ~(commands[j].kind = "resize" /\ commands[j].tensor = t)]

\* Where _tensor_proto finds the tensor to write: the entry graph's initializer of that name.
PlaceOf(base, t) == base.tensors[t].name

\* The bytes of a tensor as the working revision reads them.
CurrentLength(base, commands, t) ==
    IF t \in Resized(commands) THEN LastResize(commands, t).after.bytes ELSE base.tensors[t].bytes

\* _embedded_tensor_edits: the edited tensors are looked up in the index of the source file,
\* and their bytes must have the length the source's shape implies; the resized ones take the
\* dimensions of the last resize.  Both are written to the initializer that has their name.
EmbeddedTensorEdits(x, base, commands) ==
    LET edited == {t \in Replaced(commands) : Embedded(base, t)}
        written == edited \cup Resized(commands)
        expected(t) == ExpectedBytes(base.tensors[t].type, base.tensors[t].dims)
    IN  IF x.raised # "" THEN x
        ELSE IF ~(Replaced(commands) \subseteq DOMAIN base.tensors)
             THEN [x EXCEPT !.raised = "not in the source"]
        ELSE IF \E t \in written : PlaceOf(base, t) \notin DOMAIN x.proto.inits
             THEN [x EXCEPT !.raised = "no initializer"]
        ELSE IF \E t \in edited : expected(t) \notin {NoLength, CurrentLength(base, commands, t)}
             THEN [x EXCEPT !.raised = "length"]
        ELSE [x EXCEPT !.proto.bytes = Extended(@, [p \in {PlaceOf(base, t) : t \in written} |->
                           CHOOSE t \in written : PlaceOf(base, t) = p]),
                       !.proto.inits = Extended(@, [t \in Resized(commands) |->
                           [type |-> LastResize(commands, t).after.type,
                            dims |-> LastResize(commands, t).after.dims]])]

Materialized(base, commands) ==
    EmbeddedTensorEdits(ApplyGraphCommands(base, commands), base, commands)

---------------------------------------------------------------------------
(* External files *)

ExternalTensors(base, commands) ==
    {t \in DOMAIN base.tensors \ Resized(commands) : base.tensors[t].storage = "external"}

\* _external_targets: the files that the tensors that were not resized lie in.  A file that
\* would be written onto itself is relocated: beside says that the destination lies in the
\* directory of the source.
NeededFiles(base, commands) ==
    {base.tensors[t].file : t \in ExternalTensors(base, commands)} \ {""}

Relocated(base, commands, beside) == beside /\ NeededFiles(base, commands) # {}

\* _stage_external_files: the files that go with the model, as <<directory, name>>.
StagedFiles(base, commands, beside) ==
    {<<IF Relocated(base, commands, beside) THEN "moved" ELSE "kept", f>> :
        f \in NeededFiles(base, commands)}

\* Mutant: the initializers of the entry graph alone are rewritten.
ReferenceOfEntryGraph(base, commands, beside, t) ==
    IF Relocated(base, commands, beside) /\ t \in base.inits /\ base.tensors[t].file # ""
    THEN <<"moved", base.tensors[t].file>> ELSE <<"kept", base.tensors[t].file>>

\* _relocate_external_references: the initializers of the entry graph and of the graphs
\* nested in it follow their file; tensors of attributes and of functions do not.
Reference(base, commands, beside, t) ==
    IF Relocated(base, commands, beside) /\ base.tensors[t].walked /\ base.tensors[t].file # ""
    THEN <<"moved", base.tensors[t].file>> ELSE <<"kept", base.tensors[t].file>>

\* The external tensors of the exported model whose file is not there.
Dangling(base, commands, beside) ==
    {t \in ExternalTensors(base, commands) :
        Reference(base, commands, beside, t) \notin StagedFiles(base, commands, beside)}

---------------------------------------------------------------------------
(* onnx.checker (external): names defined before use, in nested graphs too; one definition *)
(* of each; required inputs present; known operators with known attributes.                *)
CheckerAccepts(proto, inputs) ==
    LET before(i) == inputs \cup DOMAIN proto.inits
                       \cup UNION {Range(proto.nodes[j].outs) : j \in 1..(i - 1)}
    IN  /\ \A i \in DOMAIN proto.nodes :
              LET n == proto.nodes[i]
              IN  /\ n.op \in DOMAIN Schemas
                  /\ AttrNames(n) \subseteq DOMAIN Schemas[n.op].attrs
                  /\ \A p \in DOMAIN n.ins :
                        IF n.ins[p] = NoName THEN p \in Schemas[n.op].optional
                        ELSE n.ins[p] \in before(i)
                  /\ n.captured \subseteq before(i)
                  /\ Range(n.outs) \cap before(i) = {}
        /\ DOMAIN proto.info \subseteq before(Len(proto.nodes) + 1)

\* export_revision up to the check of the staged model: what it would publish, or the
\* reason it refuses to.  The checker looks for the external files beside the staged model.
Export(base, commands, beside) ==
    LET x == Materialized(base, commands)
    IN  IF x.raised # "" THEN x
        ELSE IF Dangling(base, commands, beside) # {} THEN [x EXCEPT !.raised = "dangling"]
        ELSE IF ~CheckerAccepts(x.proto, base.inputs) THEN [x EXCEPT !.raised = "checker"]
        ELSE x

---------------------------------------------------------------------------
(* The report *)

Transforms(commands) ==
    \E i \in DOMAIN commands :
        commands[i].kind \in {"resize", "quantize"} \/ (commands[i].kind = "replace" /\ commands[i].transform)

\* The grade the report gives, from what the commands are and whether files moved.
Fidelity(base, commands, beside) ==
    LET graphChanged == \E i \in DOMAIN commands : commands[i].kind # "replace"
        weightsChanged == (Replaced(commands) \cup Resized(commands)) \cap DOMAIN base.tensors # {}
    IN  IF Transforms(commands) THEN "lossy"
        ELSE IF graphChanged \/ weightsChanged \/ Relocated(base, commands, beside)
             THEN "semantically-equivalent"
        ELSE "lossless"

\* _dtype_layout_changes: the tensors the report lists as added or changed.
DtypeLayoutChanges(base, g) ==
    {t \in DOMAIN g.tensors :
        \/ t \notin DOMAIN base.tensors
        \/ \E f \in {"type", "dims", "storage"} : base.tensors[t][f] # g.tensors[t][f]}

\* _unsupported_operators and _unresolved_shapes of the document.
UnsupportedOperators(g) == {g.nodes[i].op : i \in DOMAIN g.nodes} \ DOMAIN Schemas

UnresolvedShapes(g) ==
    {v \in DOMAIN g.values : \E d \in DOMAIN g.values[v].shape : g.values[v].shape[d] < 0}

Report(base, commands, g, beside) ==
    [fidelity |-> Fidelity(base, commands, beside),
     dtypeLayoutChanges |-> DtypeLayoutChanges(base, g),
     unsupportedOperators |-> UnsupportedOperators(g),
     unresolvedShapes |-> UnresolvedShapes(g)]

=============================================================================
