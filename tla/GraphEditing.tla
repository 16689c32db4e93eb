---------------------------- MODULE GraphEditing ----------------------------
(***************************************************************************)
(* A session on one ONNX file: it is opened, or refused; requests are      *)
(* prepared against the current document, committed and undone.  In every  *)
(* state the history can be exported, the exported file opened again, and  *)
(* the history written to the sidecar and replayed from it.  The revision  *)
(* chain and its concurrency are the subject of EditingController; this    *)
(* module is about what the commands do to the graph and to the files.     *)
(***************************************************************************)
EXTENDS GraphExport

CONSTANTS
    Files,           \* files a session may be opened on
    EditedFiles,     \* bound: those with histories of more than one command
    NewNames,        \* names the user types
    AttrChoices,     \* attributes the user sets: [name, kind, value]
    Operators,       \* operators the user names
    MaxCommands      \* bound: length of a history

NaN     == -1000   \* an attribute value that is no number
NaNRead == -1001   \* the same parsed from a sidecar: it equals no other

VARIABLES
    file,       \* the file of the session
    stage,      \* "closed", "open" or "refused"
    report,     \* what the import found wrong
    base,       \* the document as opened
    document,   \* the working document
    applied     \* the commands applied, in order

vars == <<file, stage, report, base, document, applied>>

NoReport == [raised |-> {}, findings |-> {}, noted |-> {}]

Init ==
    /\ file \in Files /\ stage = "closed" /\ report = NoReport
    /\ base = << >> /\ document = << >> /\ applied = << >>

\* check_model_index and the notes of _narrow_capabilities.
ImportReport(ix, raised) ==
    [raised   |-> raised,
     findings |->      {"unresolved input"      : u \in UnresolvedInputs(ix)}
                  \cup {"annotation"            : c \in AnnotationConflicts(ix)}
                  \cup {"duplicate initializer" : d \in DuplicateInitializers(ix)},
     noted    |-> {LocalId(x.id) : x \in Noted(ix)}]

\* import_onnx: index, document, findings.
Open ==
    /\ stage = "closed"
    /\ \E ix \in {Index(file)} : \E made \in {ToDocument(file, ix)} :
          /\ report' = ImportReport(ix, made.raised)
          /\ IF made.raised # {}
             THEN stage' = "refused" /\ UNCHANGED <<base, document>>
             ELSE stage' = "open" /\ base' = made.document /\ document' = made.document
    /\ UNCHANGED <<file, applied>>

\* current_revision_id: revisions on one line of history differ in their length.
Revision == Len(applied)

\* The requests of the edit panel: every node, port and value of the document shown.
Requests ==
    LET nodes == NodeIds(document)
        ports == UNION {{<<n, p>> : p \in DOMAIN NodeOf(document, n).ins} : n \in nodes}
    IN       [kind : {"rename"}, node : nodes, name : NewNames]
        \cup {[kind |-> "attribute", node |-> n, name |-> a.name, attrKind |-> a.kind,
               value |-> a.value, remove |-> remove] :
                   n \in nodes, a \in AttrChoices, remove \in BOOLEAN}
        \cup [kind : {"operator"}, node : nodes, op : Operators]
        \cup {[kind |-> "reconnect", node |-> port[1], port |-> port[2], value |-> v] :
                   port \in ports, v \in DOMAIN document.values}
        \cup {[kind |-> "insert", node |-> port[1], port |-> port[2], op |-> "Relu", name |-> name] :
                   port \in ports, name \in NewNames \cup {NoName}}
        \cup [kind : {"remove"}, node : nodes]

CanEdit ==
    /\ stage = "open"
    /\ Len(applied) < IF file \in EditedFiles THEN MaxCommands ELSE 1

\* RevisionChain.apply_commands: the candidate becomes the document.
Record(c) ==
    /\ document' = Apply(document, c)
    /\ applied' = Append(applied, c)
    /\ UNCHANGED <<file, stage, report, base>>

\* prepare_edit, then commit_edit of a transaction that is ok.
CommitEdit ==
    /\ CanEdit
    /\ \E r \in Requests : \E c \in Prepare(document, r, Revision) : Record(c)

\* prepare_transformation, then commit_transformation; or a page of the hex editor.
CommitTransformation ==
    /\ CanEdit
    /\ \E c \in PrepareTransformation(document,
                UNION {     Replacement(document, t, TRUE) \cup Replacement(document, t, FALSE)
                       \cup GraphQuantization(document, t, Revision) : t \in DOMAIN document.tensors}
                \cup UNION {StructuredPruning(document, n, 1) : n \in NodeIds(document)}) : Record(c)

\* RevisionChain.undo: the document is replayed from the base.  What is redone is
\* prepared from the same document again: the chain's redo is in EditingController.
UndoEdit ==
    /\ applied # << >>
    /\ document' = FoldLeft(Apply, base, Front(applied))
    /\ applied' = Front(applied)
    /\ UNCHANGED <<file, stage, report, base>>

Next == Open \/ CommitEdit \/ CommitTransformation \/ UndoEdit

Spec == Init /\ [][Next]_vars

---------------------------------------------------------------------------
(* The sidecar: the codecs of the commands, read back *)

\* _attribute_from_json(_attribute_to_json(a)): a value that is not equal to itself
\* comes back as another object, which no longer compares equal.
RereadAttribute(a) == IF a.value = NaN THEN [a EXCEPT !.value = NaNRead] ELSE a

RereadNode(n) == [n EXCEPT !.attrs = [i \in DOMAIN @ |-> RereadAttribute(@[i])]]

\* Mutant: the codec forgets where the bytes of a tensor lie.
RereadTensorUnplaced(t) == [t EXCEPT !.bytes = NoLength, !.file = ""]

\* _tensor_from_json(_tensor_to_json(t)): spans and external reference come back.
RereadTensor(t) == t

RereadResize(c) == [c EXCEPT !.before = RereadTensor(@), !.after = RereadTensor(@)]

RereadQuantize(c) ==
    [c EXCEPT !.tensors = [t \in DOMAIN @ |-> RereadTensor(@[t])],
              !.quant = RereadNode(@), !.dequant = RereadNode(@)]

\* command_from_json(command_to_json(c)), one codec per class of command.
Reread(c) ==
    CASE c.kind = "attribute" ->
            [c EXCEPT !.before = [i \in DOMAIN @ |-> RereadAttribute(@[i])],
                      !.after  = [i \in DOMAIN @ |-> RereadAttribute(@[i])]]
      [] c.kind \in {"insert", "remove"} -> [c EXCEPT !.node = RereadNode(@)]
      [] c.kind = "resize"   -> RereadResize(c)
      [] c.kind = "quantize" -> RereadQuantize(c)
      [] OTHER -> c

\* apply_commands over a history read from a sidecar: the document and whether every
\* command found what it expects.
Replay(commands) ==
    FoldLeft(LAMBDA x, c :
                 IF x.ok /\ Precondition(x.document, c)
                 THEN [x EXCEPT !.document = Apply(x.document, c)] ELSE [x EXCEPT !.ok = FALSE],
             [ok |-> TRUE, document |-> base], commands)

---------------------------------------------------------------------------
(* The exported file, as messages *)

\* The attribute messages of a node: graphs and tensors are those of the source node.
AttributeMessages(n, nodes) ==
    LET kept(a) == {b \in UNION {Range(nodes[i].attrs) :
                                   i \in {j \in DOMAIN nodes : DerivedId(nodes, j) = n.id}} :
                       /\ b.name = a.name /\ KindOf(b) = a.kind
                       /\ b.graphs # << >> \/ b.tensors # << >>}
    IN  [i \in DOMAIN n.attrs |->
            LET a == n.attrs[i]
            IN  IF kept(a) # {} THEN CHOOSE b \in kept(a) : TRUE
                ELSE [name |-> a.name, type |-> a.kind, fields |-> {a.kind}, value |-> a.value,
                      graphs |-> << >>, tensors |-> << >>]]

\* The initializers of the source, then those the commands generated.
InitMessages(proto, inits) ==
    LET known == {inits[i].name : i \in DOMAIN inits}
        raw(p) == ExpectedBytes(proto.inits[p].type, proto.inits[p].dims)
        kept(m) == IF m.name \in DOMAIN proto.inits /\ m.dims # proto.inits[m.name].dims
                   THEN [m EXCEPT !.dims = proto.inits[m.name].dims, !.raw = raw(m.name),
                                  !.typed = NoLength, !.external = << >>]
                   ELSE m
        new == SetToSeq({p \in DOMAIN proto.inits : p[1] \in {"scale", "zero"}} \ known)
    IN  [i \in DOMAIN inits |-> kept(inits[i])]
            \o [i \in DOMAIN new |->
                   [name |-> new[i], type |-> proto.inits[new[i]].type,
                    dims |-> proto.inits[new[i]].dims, raw |-> raw(new[i]),
                    typed |-> NoLength, external |-> << >>]]

\* Attributes the import skipped are left out: nothing reads them back.
Written(proto) ==
    LET m == file.graph[1]
        shown(values) == [i \in DOMAIN values |->
            IF values[i].name \in DOMAIN proto.info
            THEN [values[i] EXCEPT !.shape = proto.info[values[i].name]] ELSE values[i]]
        node(n) == [name |-> n.name, op |-> n.op, ins |-> n.ins, outs |-> n.outs,
                    attrs |-> AttributeMessages(n, m.nodes)]
    IN  [file EXCEPT !.graph = <<[m EXCEPT
            !.nodes = [i \in DOMAIN proto.nodes |-> node(proto.nodes[i])],
            !.inits = InitMessages(proto, @), !.inputs = shown(@),
            !.outputs = shown(@), !.infos = shown(@)]>>]

---------------------------------------------------------------------------
(* Well-formed files: the checker's view of the messages (external) *)

\* Names defined before node i of a graph message.
DefinedBefore(m, i) ==
    NamesOf(m.inputs) \cup NamesOf(m.inits) \cup UNION {Range(m.nodes[j].outs) : j \in 1..(i - 1)}

\* Names a graph may read of the graphs it lies in: what they define before the node it is attached to.
Scope(ix, id) ==
    UNION {LET host == CHOOSE e \in ix.graphs : e.id = SubSeq(id, 1, k)
               at == CHOOSE i \in DOMAIN host.msg.nodes : DerivedId(host.msg.nodes, i) = id[k + 1][1]
           IN  DefinedBefore(host.msg, at) : k \in 1..(Len(id) - 1)}

\* The depth, the attribute tensors of one name, the bodies of functions and sparse
\* tensors are the known exceptions: see the README.
WellFormed ==
    /\ file.whole /\ file.graph # << >> /\ file.functions = << >>
    /\ \A ix \in {Index(file)} :
          /\ ix.raised = ""
          /\ \A x, y \in ix.tensors : x[2][5].id = y[2][5].id => x = y
          /\ \A x \in TensorsOf(ix) : x.error \notin {"negative dimension"}
          /\ \A e \in ix.graphs :
                /\ e.msg.sparse = 0
                /\ \A v \in Range(Entries(e.msg)) : NegativeDim \notin Range(v.shape)
                /\ \A i, j \in DOMAIN Entries(e.msg) :
                      Entries(e.msg)[i].name = Entries(e.msg)[j].name => i = j
                /\ \A t \in Range(e.msg.inits) : \A v \in Range(Entries(e.msg)) :
                      v.name = t.name => v.type = t.type /\ v.shape = t.dims
                /\ \A i \in DOMAIN e.msg.nodes :
                      LET n == e.msg.nodes[i]
                          before == Scope(ix, e.id) \cup DefinedBefore(e.msg, i)
                      IN  /\ n.op # ""
                          /\ Range(n.ins) \ {NoName} \subseteq before
                          /\ Range(n.outs) \cap (before \ {NoName}) = {}
                          /\ \A p, q \in DOMAIN n.outs : n.outs[p] = n.outs[q] => p = q \/ n.outs[p] = NoName
                          /\ \A k, l \in DOMAIN n.attrs :
                                n.attrs[k].name # "" /\ (n.attrs[k].name = n.attrs[l].name => k = l)

---------------------------------------------------------------------------
(* Properties *)

Opened == stage = "open"

\* The stored order stays a topological order, whatever was inserted, removed,
\* quantized and reconnected: no node reads a value of a node at or behind its place
\* (validation.py:576-586 says the export would fail otherwise).
OrderIsTopological ==
    Opened /\ WellFormed =>
        \A n \in NodeIds(document) : \A v \in Range(NodeOf(document, n).ins) :
            \A p \in Producers(document, v) : Position(document, p) < Position(document, n)

\* A tensor of an attribute whose bytes were edited has the name of an initializer: the
\* exporter writes the initializer (exporter.py:454-458).
AttributeTwin ==
    \E t \in Replaced(applied) \cap DOMAIN base.tensors :
        t \notin base.inits /\ base.tensors[t].name \in base.inits

\* The reopened document is the working document: nodes in the same order, with the same
\* operators, names, attributes and wiring, inputs, outputs and initializers alike; a node
\* that was not renamed and shares its name with no other keeps its id.
SameDocument(again) ==
    /\ Len(again.nodes) = Len(document.nodes)
    /\ \A i \in DOMAIN document.nodes :
          LET old == ProtoNode(document, document.nodes[i])
              new == ProtoNode(again, again.nodes[i])
          IN  /\ [new EXCEPT !.id = old.id] = old
              /\ (old.name = old.id /\ \A j \in DOMAIN document.nodes \ {i} : document.nodes[j].name # old.name)
                     => new.id = old.id
    /\ again.inputs = document.inputs /\ again.outputs = document.outputs
    /\ again.inits = document.inits
    /\ \A v \in again.outputs \cup again.inits :
          v \in DOMAIN document.values => again.values[v].shape = document.values[v].shape

\* The exporter replays the commands on the protobuf of the source, by name.  If it gets
\* through, it has written the document the user sees, with every tensor's bytes in the
\* tensor they belong to; and the file it wrote opens again as that document.
ReopensAsTheDocument ==
    Opened /\ WellFormed =>
        \A x \in {Export(base, applied, FALSE)} :
            x.raised = "" /\ ~AttributeTwin =>
                /\ x.proto = ProtoOf(document)
                /\ \A made \in {ToDocument(f, Index(f)) : f \in {Written(x.proto)}} :
                      made.raised = {} /\ SameDocument(made.document)

\* Known reasons for a committed history to be refused by the exporter:
\*  - bytes of a tensor changed that the transformations generated;
\*  - bytes of an embedded tensor changed and the tensor resized, or bytes of a tensor whose
\*    length is not the one its shape implies (the length of the source's shape is expected);
\*  - bytes changed of an embedded tensor that is no initializer of the entry graph;
\*  - a node inserted at an omitted optional input (it has no name);
\*  - a unary node removed whose output a nested graph captures;
\*  - an external file that could not be resolved, or, beside the source, the file of a
\*    tensor of an attribute or of a function.
GeneratedEdited == ~(Replaced(applied) \subseteq DOMAIN base.tensors)
EditedAndResized ==
    \E t \in Replaced(applied) : t \in Resized(applied) \cup report.noted /\ Embedded(base, t)
NestedEdited ==
    \E t \in Replaced(applied) : Embedded(base, t) /\ base.tensors[t].name \notin base.inits
InsertedAtOmitted ==
    \E i \in DOMAIN applied :
        /\ applied[i].kind = "insert" /\ applied[i].source \in DOMAIN base.values
        /\ NameOf(base, applied[i].source) = NoName
CaptureLost ==
    \E n \in NodeIds(base) : \E v \in NodeOf(base, n).captured :
        v \in DOMAIN base.values /\ ~HasValue(document, v)
FileMissing(beside) ==
    \E t \in DOMAIN base.tensors :
        /\ base.tensors[t].storage = "external"
        /\ base.tensors[t].file = "" \/ (beside /\ ~base.tensors[t].walked)

\* Every committed history can be exported, but for the known reasons: validation
\* promises as much ("IR invariants, ONNX schema/opset, arity, dtype, shape, and export
\* capability checks passed", validation.py:852).
ExportFailsForKnownReasons ==
    Opened /\ WellFormed =>
        \A beside \in BOOLEAN :
            Export(base, applied, beside).raised # "" =>
                \/ ~CheckerAccepts(ProtoOf(base), base.inputs)
                \/ GeneratedEdited \/ EditedAndResized \/ NestedEdited
                \/ InsertedAtOmitted \/ CaptureLost \/ FileMissing(beside)

\* A report that says lossless is about a file equal to the source, and lists no change
\* of a tensor's type or layout.
LosslessIsTheSource ==
    Opened => \A beside \in BOOLEAN :
        \A x \in {Export(base, applied, beside)} : \A r \in {Report(base, applied, document, beside)} :
            x.raised = "" /\ r.fidelity = "lossless" =>
                /\ x.proto = ProtoOf(base) /\ Replaced(applied) \cup Resized(applied) = {}
                /\ r.dtypeLayoutChanges = {} /\ ~Relocated(base, applied, beside)

\* A tensor without a note is served with exactly the bytes its type and shape imply: what
\* the indexer located without reading is what the store reads, raw or in a file.
ServedAsDeclared ==
    Opened /\ applied = << >> =>
        \A t \in DOMAIN base.tensors \ report.noted :
            LET ref == base.tensors[t]
            IN  ref.storage # "absent" /\ ref.bytes >= 0 =>
                    ExpectedBytes(ref.type, ref.dims) \in {NoLength, ref.bytes}

\* A file the ONNX checker has nothing against opens, and the import reports no unresolved
\* input, no contradicting annotation and no duplicate initializer.
WellFormedOpens ==
    stage # "closed" /\ WellFormed => report.raised = {} /\ report.findings = {}

\* What the sidecar holds replays to the document that was saved, so that the session can
\* be reopened.  An attribute that is not equal to itself is the exception.
ReloadReplays ==
    Opened /\ (\A i \in DOMAIN base.nodes : \A a \in Range(base.nodes[i].attrs) : a.value # NaN) =>
        \A x \in {Replay([i \in DOMAIN applied |-> Reread(applied[i])])} :
            x.ok /\ x.document = document

\* An export says the truth about itself: it fails only for a reason the document gives,
\* and a file called lossless is the source.
ExportsHonest == ExportFailsForKnownReasons /\ LosslessIsTheSource
=============================================================================
