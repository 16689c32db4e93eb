--------------------------- MODULE ArtifactSession ---------------------------
(***************************************************************************)
(* A session on any artifact: the kind is detected from the content, the   *)
(* reader of that kind opens it or refuses it, tensors are edited, and     *)
(* what holds weights only is exported as a new safetensors file.  An ONNX *)
(* file is opened, edited and exported as in GraphEditing; the other       *)
(* readers make a document of the tensors they located and of the graph    *)
(* they derive.                                                            *)
(***************************************************************************)
EXTENDS GraphEditing, GraphFormats

CONSTANTS
    Artifacts,           \* artifacts that are no ONNX file
    MaxReplacements      \* bound: length of a history on one of them

---------------------------------------------------------------------------
(* registry.py: one reader per kind *)

NamesIn(tensors) == [i \in DOMAIN tensors |-> tensors[i].name]

\* The family of a configuration: a GGUF file of a media architecture has that of its names.
FamilyOf(names, c, prefixed) ==
    IF c.family # "media" THEN c.family
    ELSE IF prefixed THEN MediaFamily(Range(names)) ELSE "none"

\* modality_graph, diffusion_graph or media_graph of the configuration, and the chain of
\* layers when there is none or it cannot be built.
DerivedGraph(names, c, prefixed) ==
    LET family == FamilyOf(names, c, prefixed)
        own == IF family = "unet" THEN Unet(c)
               ELSE IF family \in ModelFamilies THEN FamilyGraph([c EXCEPT !.family = family])
               ELSE Refused("no family")
    IN  IF own.raised = "" THEN GraphOf(own, names, IF c.family = "media" THEN StateNames(names) ELSE OwnNames(names))
        ELSE GraphOf(ChainGraph(PlanLayers(Range(names), c, prefixed)), names, {})

\* _open_checkpoint_or_fx.
OpenPickle(a) ==
    LET weights == OpenCheckpoint(a.checkpoint)
    IN  IF weights.raised = "" THEN Opening("", weights.tensors, NoGraph)
        ELSE IF ~a.forward.walked THEN Opening("neither", << >>, NoGraph)
        ELSE Opening("", << >>, IF a.forward.found THEN GraphOf(ForwardGraph(a.forward), << >>, {}) ELSE NoGraph)

\* The kinds whose readers are modelled; "unknown" is refused before any reader.
ReaderKinds ==
    {"safetensors", "gguf_model", "huggingface_model", "pytorch_state_dict", "pytorch_exported_program",
     "qualcomm_dlc", "jax_stablehlo", "coreml_package", "unknown"}

\* ArtifactAdapterRegistry.open: the reader of the kind, given what the file holds.
OpenAs(kind, a) ==
    CASE kind = "safetensors" ->
            LET x == OpenSafetensors(a.safetensors) IN Opening(x.raised, x.tensors, NoGraph)
      [] kind = "gguf_model" ->
            LET x == OpenGguf(a.gguf)
            IN  Opening(x.raised, x.tensors, DerivedGraph(NamesIn(x.tensors), a.config, TRUE))
      [] kind = "huggingface_model" ->
            LET x == OpenSnapshot(a.snapshot)
            IN  Opening(x.raised, x.tensors, DerivedGraph(NamesIn(x.tensors), a.config, FALSE))
      [] kind = "pytorch_state_dict"       -> OpenPickle(a)
      [] kind = "pytorch_exported_program" -> OpenPt2(a.program)
      [] kind = "qualcomm_dlc"             -> OpenDlc(a.container)
      [] kind = "jax_stablehlo"            -> OpenStablehlo(a.module)
      [] kind = "coreml_package"           -> OpenPackage(a.package)
      [] OTHER -> Opening("unknown", << >>, NoGraph)

\* The kind of the document: a refused checkpoint is shown as a graph module.
KindOfDocument(kind, a) ==
    IF kind = "pytorch_state_dict" /\ OpenCheckpoint(a.checkpoint).raised # ""
    THEN "pytorch_fx_graph_module" ELSE kind

\* Document.__init__ and Graph.__init__: one tensor per id, and graphs that hang together.
Accepted(x) ==
    /\ \A g \in {x.graph} \cup Range(x.others) : GraphAccepted(g)
    /\ \A i, j \in DOMAIN x.tensors : x.tensors[i].name = x.tensors[j].name => i = j

\* The document of a reader, at its entry graph.
DocumentOf(kind, x) ==
    LET graph == x.graph
        readable == SelectSeq(x.tensors, LAMBDA t : t.storage # "absent")
    IN  [kind |-> kind, statuses |-> Narrowed(kind, Len(x.tensors), Len(readable)),
         order |-> x.tensors, nodes |-> graph.nodes, values |-> graph.values,
         inputs |-> graph.inputs, outputs |-> graph.outputs, inits |-> {},
         tensors |-> [n \in {x.tensors[i].name : i \in DOMAIN x.tensors} |->
                         x.tensors[CHOOSE i \in DOMAIN x.tensors : x.tensors[i].name = n]]]

---------------------------------------------------------------------------
(* The weights-only export: session.export_weights_only, write_safetensors_stream *)

LastEdit(commands, t) ==
    LET edits == {i \in DOMAIN commands : commands[i].tensor = t}
    IN  IF edits = {} THEN 0 ELSE CHOOSE i \in edits : \A j \in edits : j <= i

\* What a read of a tensor through the editing controller returns.
ContentOf(t, commands) ==
    IF LastEdit(commands, t.name) = 0 THEN <<t.file, t.offset>>
    ELSE <<"edit", LastEdit(commands, t.name)>>

\* The readable tensors in the order of the document; one is named by the last part of its
\* id, which is the encoded name.
Sources(g, commands) ==
    LET readable == SelectSeq(g.order, LAMBDA t : t.storage # "absent")
    IN  [i \in DOMAIN readable |->
            LET t == readable[i]
            IN  [name |-> EncodeSegment(t.name), type |-> t.type, dims |-> t.dims,
                 length |-> t.bytes, content |-> ContentOf(t, commands)]]

\* Mutant: the cursor advances by the elements, not by their bytes.
CursorByElements(sources, i) ==
    FoldLeft(LAMBDA n, s : n + ElementCount(s.dims), 0, SubSeq(sources, 1, i))

\* Where source i ends.
Cursor(sources, i) == FoldLeft(LAMBDA n, s : n + s.length, 0, SubSeq(sources, 1, i))

\* _prepare_safetensor_header: why the file cannot be written, or "".  The map of metadata
\* is there before the first tensor.
HeaderRefused(sources) ==
    IF sources = << >> THEN "no readable tensors"
    ELSE IF \E i \in DOMAIN sources : sources[i].type \notin SafeTypes THEN "type"
    ELSE IF \E i \in DOMAIN sources : \/ sources[i].name = Metadata
                                      \/ \E j \in 1..(i - 1) : sources[j].name = sources[i].name THEN "name"
    ELSE IF \E i \in DOMAIN sources : ExpectedBytes(sources[i].type, sources[i].dims) # sources[i].length
         THEN "length"
    ELSE ""

HeaderSize == 64

\* The written file, and what lies where behind its header.
WeightsFile(sources) ==
    LET range(i) == <<Cursor(sources, i - 1), Cursor(sources, i)>>
    IN  [raised |-> HeaderRefused(sources),
         chunks |-> {<<HeaderSize + range(i)[1], sources[i].length, sources[i].content>> : i \in DOMAIN sources},
         file |-> [whole |-> TRUE, start |-> HeaderSize, size |-> HeaderSize + Cursor(sources, Len(sources)),
                   entries |-> <<[name |-> Metadata, type |-> "none", dims |-> NoShape, offsets |-> NoRange]>>
                       \o [i \in DOMAIN sources |-> [name |-> sources[i].name, type |-> sources[i].type,
                              dims |-> sources[i].dims, offsets |-> range(i)]]]]

---------------------------------------------------------------------------

ArtifactInit ==
    /\ file \in Artifacts /\ stage = "closed" /\ report = NoReport
    /\ base = << >> /\ document = << >> /\ applied = << >>

IsOnnx == file.format = "onnx"

\* open_model of what is no ONNX file.
OpenArtifact ==
    /\ stage = "closed" /\ ~IsOnnx
    /\ \E kind \in {DetectArtifactKind(file.probe)} \cap ReaderKinds : \E x \in {OpenAs(kind, file)} :
          \/ /\ x.raised = "" /\ Accepted(x)
             /\ \E g \in {DocumentOf(KindOfDocument(kind, file), x)} : base' = g /\ document' = g
             /\ stage' = "showing"
          \/ /\ x.raised # "" \/ ~Accepted(x)
             /\ stage' = "refused" /\ UNCHANGED <<base, document>>
    /\ UNCHANGED <<file, report, applied>>

\* commit_transformation, or a page of the hex editor: the contract of the kind is not asked.
CommitReplacement ==
    /\ stage = "showing" /\ Len(applied) < MaxReplacements
    /\ \E t \in DOMAIN document.tensors : \E transform \in BOOLEAN :
          \E c \in Replacement(document, t, transform) : Record(c)

\* Opening and editing one artifact; the file decides which reader it is.
ArtifactNext == (IsOnnx /\ Next) \/ OpenArtifact \/ CommitReplacement \/ (~IsOnnx /\ UndoEdit)

ArtifactSpec == (Init \/ ArtifactInit) /\ [][ArtifactNext]_vars

---------------------------------------------------------------------------
(* Properties *)

Showing == stage = "showing"

\* A file that was written whole by the program of its format opens, and as that format,
\* whatever its first bytes look like (detect.py:62-123).
OpensAsWritten ==
    file.made # "" =>
        /\ DetectArtifactKind(file.probe) = file.made
        /\ stage # "closed" => stage # "refused"

\* The ranges the header or the table lists, as <<begin, end, name>>.
ListedRanges ==
    CASE base.kind = "safetensors" ->
            {<<file.safetensors.start + r[1], file.safetensors.start + r[2], file.safetensors.entries[r[3]].name>> :
                r \in HeaderRanges(file.safetensors)}
      [] base.kind = "gguf_model" ->
            {<<r[1], r[2], TableEntries(file.gguf)[r[3]].name>> : r \in PlacedRanges(file.gguf)}
      [] OTHER -> {}

\* The ranges a reader will serve are in the file, as long as the shape says, and apart from
\* every other range the file lists, served or not.
PayloadsApart ==
    Showing => \A t \in Range(base.order) :
        t.storage = "embedded" /\ t.bytes > 0 =>
            /\ t.offset + t.bytes <= file.size
            /\ ExpectedBytes(t.type, t.dims) \in {NoLength, t.bytes}
            /\ \A r \in ListedRanges :
                  r[3] # t.name /\ r[1] < r[2] => r[1] >= t.offset + t.bytes \/ t.offset >= r[2]

\* What a written tensor holds when the file is read again.
ContentAt(x, t) ==
    LET hit == {c \in x.chunks : c[1] = t.offset /\ c[2] = t.bytes}
    IN  IF hit = {} THEN << >> ELSE (CHOOSE c \in hit : TRUE)[3]

\* The weights-only export opens again as the readable tensors of the document, in order,
\* each with its shape and with the bytes the session reads, edits included; a name that is
\* encoded in ids is the exception, and comes back encoded.  It is refused only for types
\* safetensors does not have, for nothing to write, and for the reserved name.
WeightsReopen ==
    Showing /\ ExportPlan(base.kind, base.statuses).available =>
        \A sources \in {Sources(document, applied)} : \A x \in {WeightsFile(sources)} :
            IF x.raised # ""
            THEN x.raised \in {"type", "no readable tensors"} \/ Metadata \in DOMAIN document.tensors
            ELSE LET again == OpenSafetensors(x.file).tensors
                 IN  /\ Len(again) = Len(sources)
                     /\ \A i \in DOMAIN again :
                           LET t == document.tensors[CHOOSE n \in DOMAIN document.tensors :
                                                        EncodeSegment(n) = sources[i].name]
                           IN  /\ again[i].name = t.name \/ t.name # EncodeSegment(t.name)
                               /\ again[i].type = t.type /\ again[i].dims = t.dims
                               /\ again[i].storage = "embedded"
                               /\ again[i].bytes > 0 => ContentAt(x, again[i]) = ContentOf(t, applied)

\* A module of StableHLO is read as it was written: its functions in order, each with its
\* parameters, operations, regions and returned values, and a declaration with none; and the
\* graph shown is that of one of them.  What reads a result of an operation with several is
\* the exception: it reads a value of another name.
FunctionsAsWritten ==
    Showing /\ file.written # << >> =>
        \A functions \in {ParseModule(file.module.text)} :
            /\ Len(functions) = Len(file.written)
            /\ \A i \in DOMAIN functions :
                  LET f == functions[i]   w == file.written[i]
                  IN  /\ f.name = w.name /\ f.public = w.public
                      /\ f.params = w.params /\ f.returns = w.returns
                      /\ Len(f.operations) = Len(w.operations)
                      /\ \A k \in DOMAIN f.operations :
                            LET o == f.operations[k]   v == w.operations[k]
                            IN  /\ o.op = v.op /\ o.regions = v.regions
                                /\ Len(v.outs) <= 1 => o.outs = v.outs
                                /\ v.ins = o.ins
            /\ \E i \in DOMAIN functions : base.inputs = Range(file.written[i].params)
                                          /\ Len(base.nodes) = Len(file.written[i].operations)

\* The kinds whose graphs are made of names and a configuration.
MadeUpKinds == {"gguf_model", "huggingface_model"}

\* In the graphs the readers make up, a stage reads what an earlier stage made or an input;
\* every skip of a UNet is read by exactly one up block; and a weight is shown by one stage,
\* unless it is both the embedding and the head.
StagesInOrder ==
    Showing =>
        LET read(i, v) == v \in Range(base.nodes[i].ins)
            shows(i, n) == \E k \in DOMAIN base.nodes[i].attrs : base.nodes[i].attrs[k].value = n
        IN  /\ base.kind \in MadeUpKinds =>
                  \A i \in DOMAIN base.nodes : \A v \in Range(base.nodes[i].ins) :
                      v \in base.inputs \/ \E j \in 1..(i - 1) : v \in Range(base.nodes[j].outs)
            /\ \A v \in DOMAIN base.values : Len(v) = 3 =>
                  Cardinality({i \in DOMAIN base.nodes : read(i, v) /\ base.nodes[i].op = "UNetUp"}) = 1
            /\ \A n \in DOMAIN base.tensors :
                  \/ Cardinality({i \in DOMAIN base.nodes : shows(i, n)}) <= 1
                  \/ {base.nodes[i].op : i \in {j \in DOMAIN base.nodes : shows(j, n)}}
                         \in {{"Embedding", "Linear"}, {"Embedding", "Output"}}

\* Every range that is served lies in its file and belongs to one tensor, as the importer
\* of the format declares it.
RangesSound == ServedAsDeclared /\ PayloadsApart

\* A file that its format allows can be opened, by the adapter it is written for, and
\* with the functions it is written with.
FilesOpen == WellFormedOpens /\ OpensAsWritten /\ FunctionsAsWritten
=============================================================================
