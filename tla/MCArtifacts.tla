----------------------------- MODULE MCArtifacts -----------------------------
(***************************************************************************)
(* Two ONNX files that are edited at length, a chain Relu, Relu, MatMul    *)
(* with an embedded weight and a Clip with a body that captures a value,   *)
(* an omitted input and an external weight; and families of small files    *)
(* that differ from one another in one or two things an ONNX file may do.  *)
(* Then small artifacts of the other formats: headers and tables with      *)
(* ranges that touch, overlap, leave the file or have another length than  *)
(* the shape, checkpoints with shared storages, snapshots with and without *)
(* an index, one artifact of every family of models, programs, containers  *)
(* and packages, and a text whose ninth byte is a brace.                   *)
(***************************************************************************)
EXTENDS ArtifactSession

X == <<"x">>  A == <<"a">>  B == <<"b">>  W == <<"w">>  Y == <<"y">>  Z == <<"z">>
Escaped == <<"onnx::w">>

Float(name, shape) == [name |-> name, type |-> "float32", shape |-> shape]

Node(name, op, ins, outs) ==
    [name |-> name, op |-> op, ins |-> ins, outs |-> outs, attrs |-> << >>]

Attr(name, type, fields, value) ==
    [name |-> name, type |-> type, fields |-> fields, value |-> value,
     graphs |-> << >>, tensors |-> << >>]

Body(name, graph) ==
    [Attr(name, "graph", {"graph"}, 0) EXCEPT !.graphs = <<graph>>]

Constant(name, tensor) ==
    [Attr(name, "tensor", {"tensor"}, 0) EXCEPT !.tensors = <<tensor>>]

Raw(name, dims, length) ==
    [name |-> name, type |-> "float32", dims |-> dims, raw |-> length, typed |-> NoLength,
     external |-> << >>]

External(name, dims, location, offset, length) ==
    [Raw(name, dims, NoLength) EXCEPT
        !.external = <<[location |-> location, offset |-> offset, length |-> length]>>]

Graph(nodes, inits) ==
    [nodes |-> nodes, inits |-> inits, inputs |-> <<Float(X, <<1, 3>>)>>,
     outputs |-> <<Float(Y, <<1, 3>>)>>, infos |-> << >>, sparse |-> 0]

OnnxProbe == [directory |-> FALSE, names |-> {}, readable |-> FALSE, signs |-> {"byte 08", "suffix onnx"}]

File(graph) ==
    [format |-> "onnx", made |-> "", probe |-> OnnxProbe, whole |-> TRUE, graph |-> <<graph>>,
     functions |-> << >>]

\* A body that reads a value of the graph around it.
Reads(v) == [Graph(<<Node(<<"in">>, "Relu", <<v>>, <<Z>>)>>, << >>) EXCEPT
                !.inputs = << >>, !.outputs = << >>]

MatMulFile ==
    File([Graph(<<Node(<<"n1">>, "Relu", <<X>>, <<A>>), Node(<<"n2">>, "Relu", <<A>>, <<B>>),
                  Node(<<"n3">>, "MatMul", <<B, W>>, <<Y>>)>>, <<Raw(W, <<3, 2>>, 24)>>)
          EXCEPT !.outputs = <<Float(Y, <<1, 2>>)>>,
                 !.infos = <<Float(A, <<1, 3>>), Float(B, <<1, 3>>)>>])

CaptureFile ==
    File([Graph(<<[Node(<<"n1">>, "LeakyRelu", <<X>>, <<A>>) EXCEPT !.attrs = <<Attr("alpha", "float", {"float"}, 1)>>],
                  Node(<<"n2">>, "Relu", <<A>>, <<B>>),
                  [Node(<<"n3">>, "Clip", <<B, NoName, W>>, <<Y>>) EXCEPT !.attrs = <<Body("body", Reads(A))>>]>>,
                <<External(W, <<1, 3>>, "data", 0, 12)>>)
          EXCEPT !.infos = <<Float(A, <<-1, 3>>), Float(B, <<1, 3>>)>>])

\* A node between x and y, with these attributes, and maybe a weight.
OneNode(node, inits) == File(Graph(<<node>>, inits))

NodeFiles ==
         {File(Graph(<<Node(n1, "Relu", <<X>>, <<A>>), Node(n2, "Relu", <<A>>, <<Y>>)>>, << >>)) :
             n1, n2 \in {NoName, <<"n1">>, <<"out", "y">>}}
    \cup {OneNode(Node(NoName, op, <<X, NoName>>, outs), << >>) :
             op \in {"Clip", ""}, outs \in {<<Y>>, <<NoName, Y>>, <<Y, NoName, NoName>>, <<Y, Y>>}}
    \cup {File(Graph(<<Node(<<"n1">>, "Relu", <<A>>, <<Y>>), Node(<<"n2">>, "Relu", <<X>>, <<A>>)>>, << >>))}
    \cup {OneNode(Node(<<"n1">>, "Relu", <<v>>, <<Y>>), << >>) : v \in {A, Y}}

AttributeFiles ==
    {OneNode([Node(<<"n1">>, "LeakyRelu", <<X>>, <<Y>>) EXCEPT !.attrs = attrs], << >>) :
        attrs \in {<<Attr(name, type, fields, value)>> :
                      name \in {"", "alpha"}, type \in {"float", "none", "tensor", "graph"},
                      fields \in {{"float"}, {}, {"float", "large"}, {"int", "foreign"}, {"int", "string"}},
                      value \in {1, NaN}}
                  \cup {<<Attr("alpha", "float", {"float"}, 1), Attr("alpha", "float", f, 3)>> :
                           f \in {{"float"}, {"float", "large"}}}}

WeightNode == Node(<<"n1">>, "Clip", <<X, W>>, <<Y>>)

TensorFiles ==
         {OneNode(WeightNode, <<Raw(W, dims, length)>>) :
             dims \in {<<1, 3>>, <<-1, 3>>, <<NegativeDim>>, <<5, 100>>, << >>}, length \in {12, 4, 0, NoLength}}
    \cup {OneNode(WeightNode, <<External(W, <<1, 3>>, at, offset, length)>>) :
             at \in {"data", "part", "gone", "", "../up"}, offset \in {0, 4, 100, Invalid},
             length \in {12, 8, NoLength, Invalid}}
    \cup {OneNode(WeightNode, <<[Raw(W, <<1, 3>>, NoLength) EXCEPT !.typed = n, !.type = type]>>) :
             n \in {3, 2, 0}, type \in {"float32", "int4", "string"}}
    \cup {OneNode(WeightNode, <<Raw(W, <<1, 3>>, 12), Raw(W, <<3>>, 12)>>),
          OneNode(Node(<<"n1">>, "Clip", <<X, Escaped>>, <<Y>>), <<Raw(Escaped, <<1, 3>>, 12)>>),
          OneNode(Node(<<"n1">>, "Relu", <<X>>, <<Y>>), <<Raw(NoName, <<1, 3>>, 12)>>)}
    \cup {OneNode([Node(<<"n1">>, "Clip", ins, <<Y>>) EXCEPT
                       !.attrs = <<Constant("min", t), Constant("max", u)>>], inits) :
             ins \in {<<X>>, <<X, W>>}, inits \in {<<Raw(W, <<1, 3>>, 12)>>},
             t \in {Raw(name, <<1, 3>>, 12) : name \in {NoName, W, A}}
                       \cup {External(A, <<1, 3>>, "data", 0, 12)},
             u \in {Raw(name, <<1, 3>>, 12) : name \in {NoName, A}}}

\* The declarations of a name, and the shapes they give.
DeclaringFiles ==
    {File([Graph(<<WeightNode>>, <<Raw(W, <<1, 3>>, 12)>>) EXCEPT !.infos = infos, !.inputs = @ \o inputs]) :
        inputs \in {<< >>, <<Float(W, <<1, 3>>)>>},
        infos \in {<< >>, <<Float(W, <<1, 4>>)>>, <<Float(W, NoShape)>>, <<Float(W, <<-1, 3>>)>>,
                   <<Float(W, <<3>>)>>, <<Float(W, <<NegativeDim, 3>>)>>,
                   <<[Float(W, <<1, 3>>) EXCEPT !.type = "int8"]>>, <<Float(W, <<1, 3>>)>>}}

Nest(inner) ==
    [Graph(<<[Node(<<"in">>, "Clip", <<A>>, <<Z>>) EXCEPT !.attrs = <<Body("body", inner)>>]>>, << >>)
        EXCEPT !.inputs = << >>, !.outputs = << >>]

NestedFiles ==
    {File(Graph(<<Node(<<"n1">>, "Relu", <<X>>, <<A>>),
                  [Node(<<"n2">>, "Clip", <<A>>, <<Y>>) EXCEPT !.attrs = <<Body(name, body)>>]>>,
                <<Raw(W, <<1, 3>>, 12)>>)) :
        name \in {"body", ""},
        body \in {Reads(v) : v \in {A, W, X, Y, B}}
                 \cup {Nest(Reads(A)), Nest(Nest(Reads(A)))}
                 \cup {[Reads(B) EXCEPT !.inits = <<t>>] :
                          t \in {Raw(B, <<1>>, 4), External(B, <<1>>, "data", 0, 4)}}}

FunctionFiles ==
    {[File(Graph(<<Node(<<"n1">>, "F", <<X>>, <<Y>>)>>, << >>)) EXCEPT !.functions =
        [i \in 1..n |-> [name |-> <<"F">>, ins |-> <<A>>, outs |-> <<B>>,
                         nodes |-> <<Node(<<"f">>, "Relu", <<A>>, <<B>>)>>]]] : n \in 1..2}

BrokenFiles ==
    {[MatMulFile EXCEPT !.whole = FALSE], [MatMulFile EXCEPT !.graph = << >>],
     [MatMulFile EXCEPT !.graph[1].sparse = 1]}

MCFiles ==
    {MatMulFile, CaptureFile} \cup NodeFiles \cup AttributeFiles \cup TensorFiles
        \cup DeclaringFiles \cup NestedFiles \cup FunctionFiles \cup BrokenFiles

MCEditedFiles == {MatMulFile, CaptureFile}

MCBits == [t \in {"float32", "int8", "int4"} |->
              IF t = "float32" THEN 32 ELSE IF t = "int8" THEN 8 ELSE 4]

MCFileSizes == [f \in {"data", "part", "../up"} |-> IF f = "part" THEN 10 ELSE 16]

MCUnsafeLocations == {"../up", ""}
MCEscapedNames == {Escaped}

Schema(arity, attrs, optional, types) ==
    [arity |-> arity, outs |-> {1}, attrs |-> attrs, required |-> {}, types |-> types,
     optional |-> optional]

MCSchemas ==
    LET alpha == [a \in {"alpha"} |-> "float"]
        axis  == [a \in {"axis"} |-> "int"]
        none  == [a \in {} |-> "int"]
        clip  == [a \in {"body", "min", "max"} |-> IF a = "body" THEN "graph" ELSE "tensor"]
        float == {"float32"}
    IN  [op \in {"Relu", "LeakyRelu", "MatMul", "Clip", "QuantizeLinear", "DequantizeLinear"} |->
           CASE op = "Relu"      -> Schema({1}, none, {}, float)
             [] op = "LeakyRelu" -> Schema({1}, alpha, {}, float)
             [] op = "MatMul"    -> Schema({2}, none, {}, float)
             [] op = "Clip"      -> Schema(1..3, clip, {2, 3}, float)
             [] op \in {"QuantizeLinear", "DequantizeLinear"} ->
                    Schema({2, 3}, axis, {3}, {"float32", "int8"})]

MCNewNames == {<<"n1">>, <<"u">>}
MCAttrChoices == {[name |-> "alpha", kind |-> "float", value |-> 2]}
MCOperators == {"Relu", "LeakyRelu"}

---------------------------------------------------------------------------
(* The other formats *)

WA == <<"a", NoBlock, "w">>   WB == <<"b", NoBlock, "w">>   WC == <<"c", NoBlock, "w">>
Slashed == <<"a/b", NoBlock, "w">>

Probe(signs) == [directory |-> FALSE, names |-> {}, readable |-> FALSE, signs |-> signs]
Archive(names, readable) == [directory |-> FALSE, names |-> names, readable |-> readable, signs |-> {"zip"}]
Directory(names) == [directory |-> TRUE, names |-> names, readable |-> TRUE, signs |-> {}]

NoConfig == [family |-> "none", numbers |-> [k \in {} |-> 0], words |-> {}, select |-> << >>,
             down |-> << >>, up |-> << >>, layers |-> << >>]

BrokenSafe == [whole |-> FALSE, entries |-> << >>, start |-> 0, size |-> 0]

Other(format, made, probe, size) ==
    [format |-> format, made |-> made, probe |-> probe, size |-> size, whole |-> FALSE,
     safetensors |-> BrokenSafe,
     gguf |-> [whole |-> FALSE, kv |-> << >>, table |-> << >>, tableEnd |-> 0, size |-> 0],
     checkpoint |-> [sound |-> FALSE, pickle |-> << >>, members |-> [m \in {} |-> 0]],
     forward |-> [walked |-> FALSE, found |-> FALSE, params |-> << >>, body |-> << >>],
     snapshot |-> [members |-> << >>, indexes |-> [m \in {} |-> << >>], shards |-> [m \in {} |-> BrokenSafe],
                   unsafe |-> {}],
     config |-> NoConfig,
     program |-> [sound |-> FALSE], container |-> [sound |-> FALSE],
     module |-> [bytecode |-> TRUE, text |-> << >>], written |-> << >>,
     package |-> [model |-> FALSE]]

---------------------------------------------------------------------------
(* safetensors *)

Entry(name, type, dims, from, to) ==
    [name |-> name, type |-> type, dims |-> dims, offsets |-> <<from, to>>]

SafeOf(entries, size) == [whole |-> TRUE, entries |-> entries, start |-> 8, size |-> size]

SafeProbe == Probe({"brace", "header fits"})

SafeArtifact(made, entries, size) ==
    [Other("safetensors", made, SafeProbe, size) EXCEPT !.safetensors = SafeOf(entries, size)]

SafeArtifacts ==
         {[SafeArtifact("safetensors",
              <<Entry(n1, "float32", <<1>>, 0, 4), Entry(WB, "int8", <<2>>, 4, 6),
                Entry(WC, "float32", dims, 6, 6 + 4 * ElementCount(dims))>>, 8 + 6 + 4 * ElementCount(dims))
              EXCEPT !.probe = Probe(signs)] :
             n1 \in {WA, Slashed}, dims \in {<<1>>, <<1, 2>>, <<0>>},
             signs \in {{"brace", "header fits"}, {"brace", "header fits", "byte 08"},
                        {"brace", "header fits", "suffix onnx"}}}
    \cup {SafeArtifact("",
              <<Entry(WA, "float32", <<3>>, 0, 12), Entry(WB, type, <<1>>, from, to),
                Entry(WC, "float32", <<1>>, 12 + shift, 16 + shift)>>, size) :
             from \in {0, 4, 12}, to \in {4, 8, 16}, shift \in {-4, 0, 4}, size \in {24, 28},
             type \in {"float32", "float16"}}
    \cup {SafeArtifact("", <<Entry(Metadata, "none", NoShape, 0, 0), Entry(WA, "float32", dims, 0, 4),
                             [Entry(WB, "int8", <<4>>, 4, 8) EXCEPT !.offsets = offsets]>>, 16) :
             dims \in {NoShape, <<-1>>, <<1>>}, offsets \in {NoRange, <<4, 8>>, <<8, 4>>, <<-1, 8>>}}
    \cup {Other("safetensors", "", SafeProbe, 8)}

---------------------------------------------------------------------------
(* gguf *)

Row(name, dims, type, at) == [name |-> name, dims |-> dims, type |-> type, at |-> at]

GgufArtifact(made, kv, table, size) ==
    [Other("gguf", made, Probe({"GGUF"}), size) EXCEPT
        !.gguf = [whole |-> TRUE, kv |-> kv, table |-> table, tableEnd |-> 20, size |-> size]]

Align(value) == [key |-> "general.alignment", value |-> value]

Blk(b, leaf) == <<"blk", b, leaf>>
Embd == <<"token_embd", NoBlock, "weight">>

\* Tensors of one element each, one after the other.
InRow(names) == [i \in DOMAIN names |-> Row(names[i], <<1>>, "F32", 4 * (i - 1))]

GgufArtifacts ==
         {GgufArtifact("gguf_model", kv,
              <<Row(WA, <<2>>, "F32", 0), Row(WB, <<4>>, "Q4", 8), Row(WC, <<1>>, "Q9", 32)>>, size) :
             kv \in {<< >>, <<Align(8)>>, <<Align(3)>>, <<Align(8), Align(16)>>}, size \in {72, 68}}
    \cup {GgufArtifact("", <<Align(8)>>,
              <<Row(WA, <<3>>, "F32", 0), Row(WB, dims, "F32", from), Row(n3, <<1>>, "F32", 12 + shift)>>, 40) :
             dims \in {<<1>>, <<2, 500>>}, from \in {0, 4, 12}, shift \in {-4, 0, 4}, n3 \in {WC, WA}}
    \cup {GgufArtifact("gguf_model", <<Align(4)>>, InRow(names), 64) :
             names \in {<<Embd, Blk(0, "attn_q"), Blk(0, "ffn_up"), Blk(0, "ssm_a"), Blk(1, "attn_q")>>,
                        <<Blk(0, "ffn_up"), <<"output_norm", NoBlock, "weight">>, Embd,
                          <<"output", NoBlock, "weight">>, Blk(0, "post_attention_norm")>>,
                        <<Blk(1, "rope"), <<"v.blk", 0, "ln1">>, <<"v.blk", 1, "ln1">>>>,
                        <<<<"encoder.blocks", 0, "q">>, <<"decoder.blocks", 0, "q">>, Embd>>}}
    \cup {[GgufArtifact("", <<Align(4)>>, InRow(<<<<"encoder.blocks", 0, "q">>, <<"a.blk", 0, "ln1">>>>), 64)
              EXCEPT !.config.words = words] : words \in {{}, {"hybrid"}}}
    \cup {Other("gguf", "", Probe({"GGUF"}), 8)}

Hybrids == {[a EXCEPT !.config.words = {"hybrid"}] : a \in {b \in GgufArtifacts : b.gguf.whole}}

---------------------------------------------------------------------------
(* torch checkpoints *)

Record1(type, storage, offset, dims) ==
    [is |-> "tensor", type |-> type, storage |-> storage, offset |-> offset, dims |-> dims, contiguous |-> TRUE]

Top(name, value)  == [key |-> <<name>>, inner |-> <<[key |-> << >>, value |-> value]>>]
In(name, k, value) == [key |-> <<name>>, inner |-> <<[key |-> <<k>>, value |-> value]>>]

Member(offset, size) == [offset |-> offset, size |-> size, compressed |-> FALSE]

CheckpointOf(entries, members) ==
    [Other("checkpoint", "", Archive({"data.pkl"}, TRUE), 64) EXCEPT
        !.checkpoint = [sound |-> TRUE, members |-> members,
                        pickle |-> <<[foreign |-> FALSE, mapping |-> TRUE, entries |-> entries]>>]]

S0 == [s \in {"0"} |-> Member(16, 12)]

CheckpointArtifacts ==
         {CheckpointOf(<<Top("a", Record1(type, "0", offset, <<1>>)), In("b", "c", Record1("float32", at, 1, dims))>>, S0) :
             type \in {"float32", "int8", "complex64", NoType}, offset \in {0, 2, 5, -1},
             at \in {"0", "1"}, dims \in {<<2>>, <<1>>, <<3>>}}
    \cup {[CheckpointOf(<<Top("b", Record1("float32", "0", 0, <<1>>)), Top("b", Record1("float32", "0", 2, <<1>>)),
                          Top("n", [Record1("none", "", 0, << >>) EXCEPT !.is = is])>>, S0)
             EXCEPT !.checkpoint.pickle[1].foreign = foreign, !.checkpoint.pickle[1].mapping = mapping,
                    !.checkpoint.sound = sound, !.made = IF sound /\ mapping /\ ~foreign /\ is = "plain"
                                                         THEN "pytorch_state_dict" ELSE "",
                    !.forward = forward] :
             is \in {"plain", "cycle"}, foreign, mapping, sound \in BOOLEAN,
             forward \in {Other("", "", Probe({}), 0).forward,
                          [walked |-> TRUE, found |-> FALSE, params |-> << >>, body |-> << >>]}
                 \cup {[walked |-> TRUE, found |-> TRUE, params |-> <<Out("x")>>,
                        body |-> <<[is |-> "assign", target |-> Out("y"), call |-> "linear", args |-> <<Out("x")>>],
                                   [is |-> second, target |-> Out(to), call |-> "", args |-> <<Out("y")>>],
                                   [is |-> "return", target |-> Out(""), call |-> "", args |-> <<Out(to)>>]>>] :
                          second \in {"assign", "free"}, to \in {"y", "z"}}}
    \cup {[CheckpointOf(<<Top("__metadata__", Record1("float32", "0", 0, <<1>>))>>, S0)
             EXCEPT !.checkpoint.members["0"].compressed = compressed] : compressed \in BOOLEAN}

---------------------------------------------------------------------------
(* snapshots *)

SnapshotOf(members, indexes, shards) ==
    [Other("snapshot", "", Directory(Range(members)), 0) EXCEPT
        !.snapshot = [members |-> members, indexes |-> indexes, shards |-> shards, unsafe |-> {}]]

ShardA == SafeOf(<<Entry(WA, "float32", <<1>>, 0, 4), Entry(WB, "float32", <<1>>, 4, 8)>>, 16)
ShardB == SafeOf(<<Entry(WB, "int8", <<1>>, 0, 1), Entry(WC, "float32", <<1>>, 1, 9)>>, 16)

Shards == [m \in {"a.safetensors", "b.safetensors"} |-> IF m = "a.safetensors" THEN ShardA ELSE ShardB]

Index1 == "model.safetensors.index.json"

MCMemberKind ==
    [n \in SnapshotWeights \cup ConfigNames \cup {"gone.safetensors"} |->
        IF n \in {"model.safetensors", "a.safetensors", "b.safetensors", "gone.safetensors"} THEN "weights"
        ELSE IF n \in Range(IndexPriority) THEN "index"
        ELSE IF n \in ConfigNames THEN "config" ELSE "pickle"]

SnapshotArtifacts ==
         {[SnapshotOf(<<"config.json", "a.safetensors", "b.safetensors", Index1>>,
              [m \in {Index1} |-> map], Shards) EXCEPT !.snapshot.unsafe = unsafe] :
             map \in {<< >>, <<<<WA, "a.safetensors">>, <<WC, "b.safetensors">>>>,
                      <<<<WC, "a.safetensors">>, <<WB, "gone.safetensors">>>>,
                      <<<<WA, "pytorch_model.bin">>>>},
             unsafe \in {{}, {"a.safetensors"}}}
    \cup {SnapshotOf(members, [m \in {} |-> << >>], Shards) :
             members \in {<<"config.json", "a.safetensors", "b.safetensors">>,
                          <<"config.json", "b.safetensors", "a.safetensors">>,
                          <<"config.json", "pytorch_model.bin">>}}
    \cup {Other("snapshot", "", Directory({"config.json", "model.safetensors"}), 0),
          Other("directory", "", Directory({"notes"}), 0)}

---------------------------------------------------------------------------
(* One snapshot per family, with a weight for every module *)

\* The modules of each family that are numbered, and some that are not.
FamilyModules ==
    [llava    |-> <<{"model.vision_tower.encoder.layers", "model.language_model.layers"},
                    {"model.vision_tower.post_layernorm", "model.multi_modal_projector", "lm_head"}>>,
     qwen2_vl |-> <<{"model.visual.blocks", "model.language_model.layers"},
                    {"model.visual.patch_embed", "model.visual.merger"}>>,
     gemma3   |-> <<{"model.vision_tower.encoder.layers", "model.language_model.layers"},
                    {"model.vision_tower.post_layernorm", "lm_head"}>>,
     bitnet   |-> <<{"model.layers"}, {"model.embed_tokens", "model.norm", "lm_head"}>>,
     rwkv     |-> <<{"rwkv.blocks"}, {"rwkv.embeddings", "rwkv.ln_out", "head"}>>,
     t5       |-> <<{"encoder.block", "decoder.block"}, {"encoder.final_layer_norm", "decoder.embed_tokens"}>>,
     whisper  |-> <<{"model.encoder.layers", "model.decoder.layers"},
                    {"model.encoder.conv1", "model.encoder.conv2", "model.decoder.embed_tokens", "proj_out"}>>,
     encoder  |-> <<{"model.encoder.layers"}, {"model.encoder.conv2", "model.encoder.layer_norm"}>>,
     clip     |-> <<{"encoder.layers"}, {"embeddings", "pre_layrnorm", "post_layernorm"}>>,
     sd3      |-> <<{"transformer_blocks"}, {"pos_embed", "time_text_embed", "context_embedder", "proj_out"}>>,
     flux     |-> <<{"transformer_blocks", "single_transformer_blocks"}, {"x_embedder", "proj_out"}>>,
     cogvideox |-> <<{"transformer_blocks"}, {"patch_embed", "time_embedding"}>>,
     wan      |-> <<{"blocks"}, {"patch_embedding", "condition_embedder"}>>,
     unet     |-> <<{"down_blocks", "up_blocks"}, {"time_embedding", "conv_in", "mid_block", "conv_out"}>>,
     none     |-> <<{"model.layers"}, {"model.embed_tokens", "model.norm", "pooler"}>>]

RECURSIVE Listed(_)
Listed(S) == IF S = {} THEN << >> ELSE LET x == CHOOSE y \in S : TRUE IN <<x>> \o Listed(S \ {x})

FamilyWeights(family) ==
    Listed({<<m, NoBlock, "self_attn">> : m \in FamilyModules[family][2]}
        \cup {<<m, b, "self_attn">> : m \in FamilyModules[family][1], b \in 0..1}
        \cup {<<m, 0, "mlp">> : m \in FamilyModules[family][1]})

\* Every number a family can ask for.
AllNumbers(layers, text) ==
    [k \in UNION {Needed[f] : f \in ModelFamilies} |->
        CASE k = "layers" -> layers [] k = "text_layers" -> text [] k = "patch_size" -> 2 [] OTHER -> 4]

FamilyConfig(family, numbers, words, select) ==
    [NoConfig EXCEPT !.family = family, !.numbers = numbers, !.words = words, !.select = select]

FamilyShard(weights) ==
    SafeOf([i \in DOMAIN weights |-> Entry(weights[i], "int8", <<1>>, i - 1, i)], 8 + Len(weights))

FamilySnapshot(c) ==
    [SnapshotOf(<<"config.json", "model.safetensors">>, [m \in {} |-> << >>],
                [m \in {"model.safetensors"} |-> FamilyShard(FamilyWeights(c.family))])
        EXCEPT !.config = c, !.made = "huggingface_model"]

UnetNumbers(projection) ==
    [k \in {"sample_size", "in_channels", "cross_attention_dim", "projection", "time_dim"} |->
        IF k = "projection" THEN projection ELSE IF k = "cross_attention_dim" THEN 1280 ELSE 4]

FamilyConfigs ==
         {FamilyConfig(f, AllNumbers(2, text), {}, <<-2>>) : f \in ModelFamilies, text \in {0, 1}}
    \cup {FamilyConfig("flux", AllNumbers(1, 1), {"guidance_embeds"}, << >>)}
    \cup {FamilyConfig("llava", AllNumbers(2, 1), {}, select) : select \in {<< >>, <<0, -1>>, <<3>>, <<-4>>}}
    \cup {FamilyConfig("sd3", [AllNumbers(1, 1) EXCEPT !["patch_size"] = 3], {}, << >>),
          FamilyConfig("t5", [k \in {"layers", "vocab_size"} |-> 2], {}, << >>)}
    \cup {FamilyConfig("none", AllNumbers(1, 1), words, << >>) : words \in {{}, {"tie"}, {"untie"}, {"mamba"}}}
    \cup {[FamilyConfig("unet", UnetNumbers(projection), words, << >>)
              EXCEPT !.down = <<"cross", "plain">>, !.up = <<"plain", "cross">>, !.layers = <<1, 2>>] :
             projection \in {20, 2560},
             words \in {{}, {"conditional", "text_time", "classes"}, {"conditional", "text", "no mid"},
                        {"encoder_hid_dim_type"}}}
    \cup {[FamilyConfig("unet", UnetNumbers(30), {"conditional"}, << >>)
              EXCEPT !.down = down, !.up = up, !.layers = layers] :
             down \in {<<"plain">>, <<"cross", "plain">>}, up \in {<<"plain">>, <<"plain", "cross">>},
             layers \in {<<2>>, <<1, 2>>}}

FamilyArtifacts == {FamilySnapshot(c) : c \in FamilyConfigs}

\* The towers of GGUF media files, with the names of that format.
MediaArtifacts ==
    {[GgufArtifact("gguf_model", <<Align(4)>>, InRow(names), 80) EXCEPT
         !.config = FamilyConfig("media", AllNumbers(layers, 1), {}, << >>)] :
        layers \in {0, 1},
        names \in {<<<<"v.patch_embd", NoBlock, "weight">>, <<"v.pre_ln", NoBlock, "weight">>,
                     <<"v.blk", 0, "ln1">>, <<"v.post_ln", NoBlock, "weight">>>>,
                   <<<<"encoder.conv1", NoBlock, "weight">>, <<"encoder.conv2", NoBlock, "weight">>,
                     <<"encoder.positional_embedding", NoBlock, "">>, <<"encoder.blocks", 0, "q">>,
                     <<"decoder.token_embedding", NoBlock, "weight">>, <<"decoder.blocks", 0, "q">>>>,
                   <<<<"a.blk", 0, "ln1">>>>, <<<<"blk", 0, "attn_q">>>>}}

---------------------------------------------------------------------------
(* Exported programs *)

V(name) == <<name, NoBlock>>
Given(names) == [is |-> "tensors", names |-> names]
NoTensors == [is |-> "none", names |-> << >>]

Operation(target, args, outs) == [target |-> target, args |-> args, outs |-> outs]

WeightRow(name, dims, member) ==
    [name |-> name, type |-> "float32", dims |-> dims, member |-> member, pickled |-> FALSE]

Program(made, nodes, weights, outputs) ==
    [Other("pt2", made, Archive({"archive_format"}, TRUE), 64) EXCEPT
        !.program = [sound |-> TRUE, format |-> "pt2", little |-> TRUE, model |-> TRUE, schema |-> 8,
                     roles |-> <<<<V("p_w"), V("w")>>>>, user |-> <<V("x")>>, values |-> {V("x"), V("p_w")},
                     nodes |-> nodes, outputs |-> outputs, weights |-> weights,
                     members |-> [m \in {"w0", "w1"} |-> IF m = "w0" THEN Member(16, 8)
                                                         ELSE [Member(24, 8) EXCEPT !.compressed = TRUE]]]]

Linear == Operation("linear", <<Given(<<V("x")>>), NoTensors, Given(<<V("p_w")>>)>>, <<Given(<<V("y")>>)>>)
Split  == Operation("split", <<Given(<<V("y")>>)>>, <<Given(<<V("p"), V("q")>>)>>)

ProgramArtifacts ==
         {Program("pytorch_exported_program", <<Linear, Split, Operation("cat", <<Given(<<V("p"), V("q")>>)>>, << >>)>>,
              <<WeightRow(WA, dims, "w0"), [WeightRow(WB, <<2>>, member) EXCEPT !.pickled = pickled]>>, <<V("p")>>) :
             dims \in {<<2>>, <<3>>, <<-1>>}, member \in {"w0", "w1", "w2"}, pickled \in BOOLEAN}
    \cup {Program("", nodes, << >>, <<V("y")>>) :
             nodes \in {<< >>, <<Linear, Linear>>, <<Linear, Operation("relu", <<Given(<<V("y")>>)>>, <<Given(<<V("x")>>)>>)>>}}
    \cup {[Program("", <<Linear>>, << >>, <<V("y")>>) EXCEPT !.program.schema = schema, !.program.format = format] :
             schema \in {7, 8}, format \in {"pt2", "other"}}

---------------------------------------------------------------------------
(* Containers *)

DlcTable(name, role, dims) == [name |-> name, role |-> role, type |-> "float32", dims |-> dims]

DlcOp(name, ins, outs, attrs) == [name |-> name, type |-> "Conv2d", ins |-> ins, outs |-> outs, attrs |-> attrs]

Scalar(name) == [name |-> name, kind |-> "int", value |-> V("1"), tensor |-> << >>]
Held(name, t) == [name |-> name, kind |-> "", value |-> V(""), tensor |-> <<DlcTable(t, "static", <<1>>)>>]

Network(name, attrs, consumed) ==
    [name |-> name, tensors |-> <<DlcTable("x", "input", <<1>>), DlcTable("w", "static", <<2>>), DlcTable("y", "output", <<1>>)>>,
     ops |-> <<DlcOp("conv", <<"x", consumed>>, <<"y">>, attrs)>>]

Directory1(name, at, held) ==
    [name |-> name, statics |-> <<[name |-> "w", at |-> at]>>, ops |-> <<<<[name |-> "k", at |-> held]>>>>]

DlcFile(part, offset, size) ==
    [base |-> part, offset |-> offset, size |-> size, stored |-> TRUE, header |-> TRUE, agrees |-> TRUE]

Container(netd, netp, members) ==
    [Other("dlc", "qualcomm_dlc", Archive({"dlc.metadata"}, TRUE), 64) EXCEPT
        !.container = [sound |-> TRUE, size |-> 64, members |-> members, netd |-> netd, netp |-> netp]]

Parts == <<DlcFile("model", 8, 8), DlcFile("model.params.bin", 24, 16)>>

ContainerArtifacts ==
         {Container([sound |-> TRUE, graphs |-> <<Network("net", <<Scalar("stride"), Held("pad", "k")>>, consumed)>>],
              <<Directory1(name, at, <<0, 4>>)>>, parts) :
             consumed \in {"w", "gone"}, name \in {"net", "other"}, at \in {NoRange, <<4, 8>>, <<4, 6>>, <<12, 8>>, <<4, 80>>},
             parts \in {Parts, Append(Parts, [DlcFile("model.params.bin", 40, 4) EXCEPT !.agrees = FALSE]),
                        Append(Parts, DlcFile("model.params.bin", 40, 4)),
                        <<[DlcFile("model", 8, 8) EXCEPT !.stored = FALSE], Parts[2]>>}}
    \cup {Container([sound |-> sound, graphs |-> graphs], << >>, Parts) :
             sound \in BOOLEAN,
             graphs \in {<< >>, <<Network("a", << >>, "w"), Network("b", <<Held("p", "")>>, "w")>>,
                         <<[Network("a", << >>, "w") EXCEPT !.ops = @ \o @]>>}}
    \cup {[Container([sound |-> TRUE, graphs |-> <<Network("a", << >>, "w"), Network("b", << >>, "w")>>], << >>, Parts)
             EXCEPT !.made = ""]}

---------------------------------------------------------------------------
(* Texts of StableHLO, rendered from what they say *)

Tok(kind, word) == <<kind, word, 0>>
Punct(kind)     == Tok(kind, "")
S(name)         == <<name, 1>>
Read(v)         == Tok("%", v[1])

Op(op, ins, outs, regions) == [op |-> op, ins |-> ins, outs |-> outs, regions |-> regions]

Fn(name, public, params, operations, returns) ==
    [name |-> name, public |-> public, params |-> params, operations |-> operations, returns |-> returns,
     declared |-> FALSE, named |-> FALSE]

\* Values, separated by commas.
Values(vs) == [i \in DOMAIN vs |-> Read(vs[i])]

Attributes == <<Punct("{"), Tok("word", "dim"), Punct("="), Tok("word", "0"), Punct("}")>>

Region == <<Punct("{"), Punct("nl"), Tok("%", "r"), Punct("="), Tok("word", "add"), Tok("%", "c"), Punct("nl"),
            Punct("return"), Tok("%", "r"), Punct("nl"), Punct("}")>>

Line(o) ==
       (IF o.outs = << >> THEN << >>
        ELSE IF Len(o.outs) = 1 THEN <<Read(o.outs[1]), Punct("=")>>
        ELSE <<<<"%:", o.outs[1][1], Len(o.outs)>>, Punct("=")>>)
    \o <<Tok("word", o.op)>> \o Values(o.ins)
    \o FlattenSeq([i \in 1..o.regions |-> Region])
    \o (IF o.regions = 0 THEN Attributes ELSE << >>)
    \o <<Punct(":"), Tok("word", "tensor"), Punct("nl")>>

Text(f) ==
       <<Punct("func"), Punct(IF f.public THEN "public" ELSE "private"), Tok("@", f.name), Punct("(")>>
    \o FlattenSeq([i \in DOMAIN f.params |-> <<Read(f.params[i]), Punct(":"), Tok("word", "tensor")>>])
    \o <<Punct(")")>>
    \o (IF f.named THEN <<Punct("(")>> \o Attributes \o <<Punct(")")>> ELSE << >>)
    \o (IF f.declared THEN << >>
        ELSE <<Punct("{"), Punct("nl")>> \o FlattenSeq([i \in DOMAIN f.operations |-> Line(f.operations[i])])
                 \o <<Punct("return")>> \o Values(f.returns) \o <<Punct("nl"), Punct("}")>>)
    \o <<Punct("nl")>>

ModuleText(functions) ==
    <<Punct("module"), Punct("{"), Punct("nl")>> \o FlattenSeq([i \in DOMAIN functions |-> Text(functions[i])])
        \o <<Punct("}")>>

ModuleArtifact(functions, signs) ==
    [Other("stablehlo", "jax_stablehlo", Probe(signs), 80) EXCEPT
        !.module = [bytecode |-> FALSE, text |-> ModuleText(functions)], !.written = functions]

MainFn(regions, named) ==
    [Fn("main", TRUE, <<S("arg0"), S("arg1")>>,
        <<Op("add", <<S("arg0"), S("arg1")>>, <<S("0")>>, 0), Op("case", <<S("0")>>, <<S("1")>>, regions),
          Op("custom_call", <<S("1")>>, << >>, 0)>>, <<S("1")>>) EXCEPT !.named = named]

Helper(declared, public) ==
    [Fn("helper", public, <<S("x")>>,
        IF declared THEN << >> ELSE <<Op("split", <<S("x")>>, <<<<"0", 2>>, <<"0", 2>>>>, 0), Op("neg", <<S("0")>>, <<S("1")>>, 0)>>,
        IF declared THEN << >> ELSE <<S("1")>>) EXCEPT !.declared = declared]

TextArtifacts ==
         {ModuleArtifact(functions, {"brace", "module line"}) :
             functions \in {<<MainFn(regions, named)>> : regions \in 0..2, named \in BOOLEAN}
                      \cup {<<Helper(declared, public), MainFn(regions, named)>> :
                               declared, public, named \in BOOLEAN, regions \in {0, 1}}
                      \cup {<<MainFn(1, TRUE), Helper(declared, FALSE)>> : declared \in BOOLEAN}}
    \cup {[ModuleArtifact(<<MainFn(1, FALSE)>>, {"suffix mlir"})
              EXCEPT !.made = "", !.written = << >>, !.module = [bytecode |-> bytecode, text |-> text]] :
             bytecode \in BOOLEAN,
             text \in {<<Tok("word", "x")>>, ModuleText(<< >>), ModuleText(<<MainFn(0, FALSE), MainFn(0, FALSE)>>),
                       Front(ModuleText(<<MainFn(0, FALSE)>>)), SubSeq(ModuleText(<<MainFn(0, FALSE)>>), 1, 20)}}

---------------------------------------------------------------------------
(* Core ML packages *)

Blob(type, size, at) == [sentinel |-> TRUE, type |-> type, size |-> size, at |-> at]

PackageArtifacts ==
    {[Other("package", IF model THEN "coreml_package" ELSE "", Directory({"Manifest.json", "model.mlmodel"}), 64) EXCEPT
        !.package = [model |-> model, weights |-> weights, version |-> version, size |-> 64,
                     blobs |-> <<Blob("float32", 8, 16), Blob(type, size, 32), [Blob("int8", 8, at) EXCEPT !.sentinel = good]>>]] :
        model, weights, good \in BOOLEAN, version \in {1, 2}, type \in {"float32", "int4"}, size \in {6, 8}, at \in {48, 60}}

---------------------------------------------------------------------------

OddArtifacts ==
    {Other("", "", Probe(signs), 8) : signs \in {{}, {"brace"}}}
        \cup {Other("", "", Archive(names, readable), 8) : names \in {{}, {"dlc.metadata"}}, readable \in BOOLEAN}

MCArtifactFiles ==
    SafeArtifacts \cup GgufArtifacts \cup Hybrids \cup CheckpointArtifacts \cup SnapshotArtifacts
        \cup FamilyArtifacts \cup MediaArtifacts \cup ProgramArtifacts \cup ContainerArtifacts
        \cup TextArtifacts \cup PackageArtifacts \cup OddArtifacts

MCTensorTypes == [t \in {"float32", "int8", "uint8", "int4", "float16", "complex64"} |->
                    CASE t = "float32" -> 32 [] t = "complex64" -> 64 [] t = "float16" -> 16
                      [] t = "int4" -> 4 [] OTHER -> 8]

MCGgmlSizes == [t \in {"F32", "I8", "Q4"} |->
                  CASE t = "F32" -> <<1, 4>> [] t = "I8" -> <<1, 1>> [] t = "Q4" -> <<4, 3>>]

MCLeaves == [l \in {"attn_q", "ffn_up", "ssm_a", "rope", "post_attention_norm", "ln1", "q", "self_attn", "mlp"} |->
               CASE l \in {"attn_q", "q", "self_attn", "ln1"} -> "attn" [] l \in {"ffn_up", "mlp"} -> "ffn"
                 [] l = "ssm_a" -> "ssm" [] OTHER -> "extra"]

MCEscapedWeights == {Escaped, Slashed}

=============================================================================
