----------------------------- MODULE StageGraphs -----------------------------
(***************************************************************************)
(* Graphs of artifacts that hold no operators.  A GGUF file and a snapshot *)
(* list weights by name; adapters/gguf/architecture.py and its counterpart *)
(* for snapshots make a chain of layers of the names, and for the families *)
(* they know, modalities.py, media_graphs.py and diffusion.py lay out the  *)
(* stages of the library the tracer will run.  A torch FX module holds the *)
(* generated source of its forward function, statement by statement.       *)
(*                                                                         *)
(* A weight's name is <<module, block, leaf>>, where block is NoBlock for  *)
(* the modules that are not numbered.  A configuration is the record of    *)
(* the numbers it gives, the words in it and the lists of a UNet.          *)
(***************************************************************************)
EXTENDS EditCommands

CONSTANT
    Leaves       \* _classify_block_suffix, _classify_block: leaf of a weight -> kind of sublayer

NoBlock == -1

\* A stage: its name, operation, what it reads and makes, and the modules whose weights it shows.
Stage(name, op, feeds, outs, binds) ==
    [name |-> name, op |-> op, feeds |-> feeds, outs |-> outs, binds |-> binds]

Out(name) == <<name, NoBlock>>

Stages(made, inputs, output) ==
    [raised |-> "", inputs |-> inputs, stages |-> made, outputs |-> {output} \ {<< >>}]

Refused(why) == [raised |-> why, inputs |-> << >>, stages |-> << >>, outputs |-> {}]

---------------------------------------------------------------------------
(* stages.py: StageBuilder *)

\* Mutant: a stage that captures an input shows the weights of the module it hooks.
CaptureBinding(name, op, feeds, module) ==
    <<Stage(Out(name), op, feeds, <<Out(name)>>, {<<module, NoBlock>>})>>

\* step, with capture_input: the module is hooked, its weights belong to another stage.
Capture(name, op, feeds, module) ==
    <<Stage(Out(name), op, feeds, <<Out(name)>>, {})>>

Step(name, op, feeds, module) ==
    <<Stage(Out(name), op, feeds, <<Out(name)>>, {<<module, NoBlock>>})>>

\* blocks: each reads the one before it, and what all of them read.
Blocks(prefix, count, op, module, first, also) ==
    [i \in 1..count |->
        Stage(<<prefix, i - 1>>, op, <<IF i = 1 THEN first ELSE <<prefix, i - 2>>>> \o also,
              <<<<prefix, i - 1>>>>, {<<module, i - 1>>})]

LastBlock(prefix, count) == <<prefix, count - 1>>

\* finish: the final norm and the logits, which show the weights of the head.
Finish(hidden, norm, head) ==
       Step("final-norm", "LayerNorm", <<hidden>>, norm)
    \o Step("logits", "Output", <<Out("final-norm")>>, head)

Prediction(hidden) == Step("noise-prediction", "Output", <<hidden>>, "proj_out")

---------------------------------------------------------------------------
(* modalities.py and media_graphs.py: the families *)

ModelFamilies == {"llava", "qwen2_vl", "gemma3", "bitnet", "whisper", "encoder", "clip", "t5",
             "rwkv", "sd3", "flux", "cogvideox", "wan"}

\* The numbers a family reads with _positive; _optional_positive has a default.
Needed ==
    [llava    |-> {"image_size", "num_channels", "layers", "text_layers", "vocab_size"},
     qwen2_vl |-> {"patch_size", "in_channels", "layers", "text_layers", "vocab_size"},
     gemma3   |-> {"image_size", "num_channels", "layers", "text_layers", "vocab_size"},
     bitnet   |-> {"layers", "vocab_size"},
     whisper  |-> {"num_mel_bins", "layers", "text_layers", "vocab_size"},
     encoder  |-> {"num_mel_bins", "layers"},
     clip     |-> {"image_size", "layers"},
     t5       |-> {"layers", "vocab_size"},
     rwkv     |-> {"layers", "vocab_size"},
     sd3      |-> {"sample_size", "patch_size", "in_channels", "layers"},
     flux     |-> {"in_channels", "layers", "text_layers"},
     cogvideox |-> {"in_channels", "layers"},
     wan      |-> {"in_channels", "layers"}]

\* _vision_selection: indices into the states of the tower, from either end.
SelectionFits(c) ==
    LET states == 1 + c.numbers["layers"]
    IN  c.select # << >> /\ \A i \in DOMAIN c.select : -states <= c.select[i] /\ c.select[i] < states

Selected(c) ==
    LET states == 1 + c.numbers["layers"]
        place(i) == IF c.select[i] < 0 THEN states + c.select[i] ELSE c.select[i]
    IN  [i \in DOMAIN c.select |->
            IF place(i) = 0 THEN Out("vision-pre-norm") ELSE <<"vision-block", place(i) - 1>>]

\* The decoder behind the image and text features: _image_text_merge, blocks, finish.
TextTower(c, also) ==
       Capture("image-text-merge", "ImageTextMerge", <<Out("text-embed"), Out("projector")>> \o also,
               "model.language_model.layers")
    \o Blocks("text-block", c.numbers["text_layers"], "DecoderBlock", "model.language_model.layers",
              Out("image-text-merge"), << >>)
    \o Finish(LastBlock("text-block", c.numbers["text_layers"]), "model.language_model.norm", "lm_head")

Llava(c) ==
    IF ~SelectionFits(c) THEN Refused("vision_feature_layer")
    ELSE LET layers == c.numbers["layers"]
         IN  Stages(
                Step("vision-embed", "VisionEmbed", <<Out("pixel-values")>>, "model.vision_tower.embeddings")
             \o Step("vision-pre-norm", "LayerNorm", <<Out("vision-embed")>>, "model.vision_tower.pre_layrnorm")
             \o Blocks("vision-block", layers, "VisionBlock", "model.vision_tower.encoder.layers",
                       Out("vision-pre-norm"), << >>)
             \o Capture("vision-cls", "SelectCLS", <<LastBlock("vision-block", layers)>>,
                        "model.vision_tower.post_layernorm")
             \o Step("vision-norm", "LayerNorm", <<Out("vision-cls")>>, "model.vision_tower.post_layernorm")
             \o Capture("vision-features", "VisionFeatureSelection", Selected(c), "model.multi_modal_projector")
             \o Step("projector", "Projector", <<Out("vision-features")>>, "model.multi_modal_projector")
             \o Step("text-embed", "Embedding", <<Out("tokens")>>, "model.language_model.embed_tokens")
             \o TextTower(c, << >>),
                <<Out("pixel-values"), Out("tokens")>>, Out("logits"))

Qwen2Vl(c) ==
    LET layers == c.numbers["layers"]
        grid == Out("image-grid")
    IN  Stages(
           Step("vision-embed", "VisionEmbed", <<Out("pixel-values"), grid>>, "model.visual.patch_embed")
        \o Blocks("vision-block", layers, "VisionBlock", "model.visual.blocks", Out("vision-embed"), <<grid>>)
        \o Step("projector", "Projector", <<LastBlock("vision-block", layers)>>, "model.visual.merger")
        \o Step("text-embed", "Embedding", <<Out("tokens")>>, "model.language_model.embed_tokens")
        \o TextTower(c, <<grid, Out("token-types")>>),
           <<Out("pixel-values"), grid, Out("token-types"), Out("tokens")>>, Out("logits"))

Gemma3(c) ==
    LET layers == c.numbers["layers"]
    IN  Stages(
           Step("vision-embed", "VisionEmbed", <<Out("pixel-values")>>, "model.vision_tower.embeddings")
        \o Blocks("vision-block", layers, "VisionBlock", "model.vision_tower.encoder.layers",
                  Out("vision-embed"), << >>)
        \o Step("vision-norm", "LayerNorm", <<LastBlock("vision-block", layers)>>,
                "model.vision_tower.post_layernorm")
        \o Step("projector", "Projector", <<Out("vision-norm")>>, "model.multi_modal_projector")
        \o Step("text-embed", "Embedding", <<Out("tokens")>>, "model.language_model.embed_tokens")
        \o TextTower(c, << >>),
           <<Out("pixel-values"), Out("tokens")>>, Out("logits"))

\* _bitnet and _rwkv: an embedding, blocks and a head.
Decoder(c, op, embed, module, norm, head) ==
    Stages(Step("embed", "Embedding", <<Out("tokens")>>, embed)
        \o Blocks("block", c.numbers["layers"], op, module, Out("embed"), << >>)
        \o Finish(LastBlock("block", c.numbers["layers"]), norm, head),
           <<Out("tokens")>>, Out("logits"))

\* _encoder_decoder, as _t5 calls it; the decoder has the encoder's depth unless it says otherwise.
T5(c) ==
    LET layers == c.numbers["layers"]
        depth  == IF "text_layers" \in DOMAIN c.numbers THEN c.numbers["text_layers"] ELSE layers
    IN  IF depth <= 0 THEN Refused("num_decoder_layers")
        ELSE Stages(
           Blocks("encoder-block", layers, "EncoderBlock", "encoder.block", Out("source-tokens"), << >>)
        \o Step("encoder-norm", "LayerNorm", <<LastBlock("encoder-block", layers)>>, "encoder.final_layer_norm")
        \o Step("decoder-embed", "Embedding", <<Out("decoder-tokens")>>, "decoder.embed_tokens")
        \o Blocks("decoder-block", depth, "DecoderBlock", "decoder.block", Out("decoder-embed"),
                  <<Out("encoder-norm")>>)
        \o Finish(LastBlock("decoder-block", depth), "decoder.final_layer_norm", "lm_head"),
           <<Out("source-tokens"), Out("decoder-tokens")>>, Out("logits"))

WhisperEncoder(c) ==
    LET layers == c.numbers["layers"]
        source == Out("input-features")
    IN     Step("conv1", "Conv", <<source>>, "model.encoder.conv1")
        \o Capture("conv1-gelu", "GELU", <<Out("conv1")>>, "model.encoder.conv2")
        \o Step("conv2", "Conv", <<Out("conv1-gelu")>>, "model.encoder.conv2")
        \o Step("encoder-positions", "PositionEmbedding", <<source>>, "model.encoder.embed_positions")
        \o Capture("encoder-embedding", "GELUTransposeAdd", <<Out("conv2"), Out("encoder-positions")>>,
                   "model.encoder.layers")
        \o Blocks("encoder-block", layers, "EncoderBlock", "model.encoder.layers",
                  Out("encoder-embedding"), << >>)
        \o Step("encoder-norm", "LayerNorm", <<LastBlock("encoder-block", layers)>>, "model.encoder.layer_norm")

Whisper(c) ==
    LET tokens == Out("decoder-tokens")
    IN  Stages(WhisperEncoder(c)
        \o Step("decoder-embed", "Embedding", <<tokens>>, "model.decoder.embed_tokens")
        \o Step("decoder-positions", "PositionEmbedding", <<tokens>>, "model.decoder.embed_positions")
        \o Capture("decoder-embedding", "Add", <<Out("decoder-embed"), Out("decoder-positions")>>,
                   "model.decoder.layers")
        \o Blocks("decoder-block", c.numbers["text_layers"], "DecoderBlock", "model.decoder.layers",
                  Out("decoder-embedding"), <<Out("encoder-norm")>>)
        \o Finish(LastBlock("decoder-block", c.numbers["text_layers"]), "model.decoder.layer_norm", "proj_out"),
           <<Out("input-features"), tokens>>, Out("logits"))

Clip(c) ==
    LET layers == c.numbers["layers"]
    IN  Stages(
           Step("vision-embed", "VisionEmbed", <<Out("pixel-values")>>, "embeddings")
        \o Step("vision-pre-norm", "LayerNorm", <<Out("vision-embed")>>, "pre_layrnorm")
        \o Blocks("vision-block", layers, "VisionBlock", "encoder.layers", Out("vision-pre-norm"), << >>)
        \o Capture("cls-token", "SelectCLS", <<LastBlock("vision-block", layers)>>, "post_layernorm")
        \o Step("pooled-output", "LayerNorm", <<Out("cls-token")>>, "post_layernorm")
        \o Capture("vision-output", "Output", <<LastBlock("vision-block", layers)>>, "output"),
           <<Out("pixel-values")>>, Out("vision-output"))

\* What _sd3, _flux, _cogvideox and _wan have in common: an embedded sample, a conditioning and maybe a text context,
\* and blocks that read them.
Transformer(c, embed, conditioning, timed, context, module, inputs) ==
    LET text == IF context = "" THEN << >> ELSE <<Out("context")>>
        layers == c.numbers["layers"]
        double == IF c.family = "flux" THEN "double" ELSE "block"
        patch  == IF c.family = "flux" THEN "image-embed" ELSE "patch-embed"
        single == IF c.family = "flux" THEN c.numbers["text_layers"] ELSE 0
    IN  Stages(
           Step(patch, "PatchEmbed",
                IF c.family = "cogvideox" THEN <<Out("sample"), Out("encoder-hidden-states")>>
                ELSE <<Out("sample")>>, embed)
        \o Step("conditioning", "Conditioning", timed, conditioning)
        \o (IF context = "" THEN << >>
            ELSE Step("context", "Context", <<Out("encoder-hidden-states")>>, context))
        \o Blocks(double, layers, "DiTBlock", module, Out(patch), <<Out("conditioning")>> \o text)
        \o Blocks("single", single, "DiTBlock", "single_transformer_blocks", LastBlock(double, layers),
                  <<Out("conditioning")>>)
        \o Prediction(IF single = 0 THEN LastBlock(double, layers) ELSE LastBlock("single", single)),
           inputs, Out("noise-prediction"))

DiffusionInputs == <<Out("sample"), Out("timestep"), Out("encoder-hidden-states")>>

Pooled == Out("pooled-projections")

Sd3(c) ==
    IF c.numbers["sample_size"] % c.numbers["patch_size"] # 0 THEN Refused("divisible")
    ELSE Transformer(c, "pos_embed", "time_text_embed", <<Out("timestep"), Pooled>>,
                     "context_embedder", "transformer_blocks", DiffusionInputs \o <<Pooled>>)

Flux(c) ==
    Transformer(c, "x_embedder", "time_text_embed", <<Out("timestep"), Pooled>>,
        "context_embedder", "transformer_blocks",
        DiffusionInputs \o <<Pooled, Out("img-ids"), Out("txt-ids")>>
            \o (IF "guidance_embeds" \in c.words THEN <<Out("guidance")>> ELSE << >>))

Cogvideox(c) ==
    Transformer(c, "patch_embed", "time_embedding", <<Out("timestep")>>, "",
        "transformer_blocks", DiffusionInputs)

Wan(c) ==
    Transformer(c, "patch_embedding", "condition_embedder",
        <<Out("timestep"), Out("encoder-hidden-states")>>, "", "blocks", DiffusionInputs)

Bitnet(c) == Decoder(c, "DecoderBlock", "model.embed_tokens", "model.layers", "model.norm", "lm_head")

Rwkv(c) == Decoder(c, "RecurrentBlock", "rwkv.embeddings", "rwkv.blocks", "rwkv.ln_out", "head")

\* modality_graph and media_graph.  A number that is missing or not positive, or an image
\* that no patches tile, has no graph of its family.
FamilyGraph(c) ==
    IF \E key \in Needed[c.family] : key \notin DOMAIN c.numbers \/ c.numbers[key] <= 0
    THEN Refused("not positive")
    ELSE CASE c.family = "llava"    -> Llava(c)
           [] c.family = "qwen2_vl" -> Qwen2Vl(c)
           [] c.family = "gemma3"   -> Gemma3(c)
           [] c.family = "bitnet"   -> Bitnet(c)
           [] c.family = "rwkv"     -> Rwkv(c)
           [] c.family = "t5"       -> T5(c)
           [] c.family = "whisper"  -> Whisper(c)
           [] c.family = "encoder"  -> Stages(WhisperEncoder(c), <<Out("input-features")>>, Out("encoder-norm"))
           [] c.family = "clip"     -> Clip(c)
           [] c.family = "sd3"      -> Sd3(c)
           [] c.family = "flux"     -> Flux(c)
           [] c.family = "cogvideox" -> Cogvideox(c)
           [] c.family = "wan"      -> Wan(c)

---------------------------------------------------------------------------
(* diffusion.py: a UNet, whose up blocks read what the down blocks left *)

\* _conditioning_inputs: what the conditioning reads, and whether it can be built.
ConditioningFits(c) ==
    /\ c.words \cap {"class_embed_type other", "encoder_hid_dim_type", "addition other"} = {}
    /\ "conditional" \in c.words => c.numbers["cross_attention_dim"] > 0
    /\ "text_time" \in c.words =>
          c.numbers["projection"] - c.numbers["time_dim"] *
              (IF c.numbers["cross_attention_dim"] = 1280 /\ c.numbers["projection"] = 2560 THEN 5 ELSE 6) > 0

Conditioning(c) ==
    LET context == IF "conditional" \in c.words THEN <<Out("encoder_hidden_states")>> ELSE << >>
        added == IF context = << >> THEN << >>
                 ELSE IF "text_time" \in c.words THEN <<Out("text_embeds"), Out("time_ids")>> ELSE << >>
        text  == IF "text" \in c.words THEN context ELSE << >>
        class == IF "classes" \in c.words THEN <<Out("class_labels")>> ELSE << >>
    IN  [context |-> context, feeds |-> <<Out("timestep")>> \o added \o text \o class,
         inputs |-> context \o added \o class]

\* layers_per_block: one number for all, or a list.
LayersOf(c) == IF Len(c.layers) = 1 THEN [i \in DOMAIN c.down |-> c.layers[1]] ELSE c.layers

\* The outputs of down block i: a skip per layer, and one of the downsampling all but the
\* last block end with.
DownOuts(c, i) ==
    LET count == LayersOf(c)[i] + (IF i < Len(c.down) THEN 1 ELSE 0)
    IN  [k \in 1..count |-> IF k = count THEN <<"down", i - 1, 0>> ELSE <<"skip", i - 1, k>>]

DownStages(c, cond) ==
    [i \in DOMAIN c.down |->
        Stage(<<"down", i - 1>>, "UNetDown",
              <<IF i = 1 THEN Out("conv-in") ELSE <<"down", i - 2, 0>>, Out("conditioning")>>
                  \o (IF c.down[i] = "cross" THEN cond.context ELSE << >>),
              DownOuts(c, i), {<<"down_blocks", i - 1>>})]

\* The residual stack when the up blocks begin.
Residuals(c) == <<Out("conv-in")>> \o FlattenSeq([i \in DOMAIN c.down |-> DownOuts(c, i)])

\* One up block: it takes its skips from the end of the stack, and raises if there are too few.
UpStep(c, cond, x, i) ==
    LET count == LayersOf(c)[Len(c.down) + 1 - i] + 1
        left  == Len(x.residuals) - count
    IN  IF x.raised # "" \/ left < 0 THEN [x EXCEPT !.raised = "skips"]
        ELSE [raised |-> "", previous |-> <<"up", i - 1>>, residuals |-> SubSeq(x.residuals, 1, left),
              stages |-> Append(x.stages,
                  Stage(<<"up", i - 1>>, "UNetUp",
                        <<x.previous>> \o SubSeq(x.residuals, left + 1, left + count)
                            \o <<Out("conditioning")>> \o (IF c.up[i] = "cross" THEN cond.context ELSE << >>),
                        <<<<"up", i - 1>>>>, {<<"up_blocks", i - 1>>}))]

\* diffusion_graph.
Unet(c) ==
    IF \/ c.numbers["sample_size"] <= 0 \/ c.numbers["in_channels"] <= 0 \/ ~ConditioningFits(c)
       \/ c.down = << >> \/ Len(c.down) # Len(c.up)
       \/ Len(LayersOf(c)) # Len(c.down) \/ \E i \in DOMAIN c.layers : c.layers[i] <= 0
    THEN Refused("UNet")
    ELSE LET cond == Conditioning(c)
             bottom == <<"down", Len(c.down) - 1, 0>>
             mid == IF "no mid" \in c.words THEN << >>
                    ELSE <<Stage(Out("mid"), "UNetMid", <<bottom, Out("conditioning")>> \o cond.context,
                                 <<Out("mid")>>, {<<"mid_block", NoBlock>>})>>
             up == FoldLeft(LAMBDA x, i : UpStep(c, cond, x, i),
                            [raised |-> "", previous |-> IF mid = << >> THEN bottom ELSE Out("mid"),
                             residuals |-> Residuals(c), stages |-> << >>],
                            [i \in DOMAIN c.up |-> i])
         IN  IF up.raised # "" THEN Refused(up.raised)
             ELSE Stages(
                 <<Stage(Out("conditioning"), "Conditioning", cond.feeds, <<Out("conditioning")>>,
                         {<<m, NoBlock>> : m \in {"time_embedding", "add_embedding", "class_embedding"}})>>
                 \o Step("conv-in", "Conv", <<Out("sample")>>, "conv_in")
                 \o DownStages(c, cond) \o mid \o up.stages
                 \o <<Stage(Out("noise-prediction"), "Conv", <<up.previous>>, <<Out("noise-prediction")>>,
                            {<<"conv_norm_out", NoBlock>>, <<"conv_out", NoBlock>>})>>,
                 <<Out("sample"), Out("timestep")>> \o cond.inputs, Out("noise-prediction"))

---------------------------------------------------------------------------
(* gguf/architecture.py and huggingface/architecture.py: a chain of layers *)

ChainOps == {"Embedding", "Attention", "FFN", "SSM", "RMSNorm", "Linear",
             "VisionBlock", "EncoderBlock", "DecoderBlock"}

PrefixedBlocks ==
    << <<"v.blk", "VisionBlock", "vision">>, <<"a.blk", "EncoderBlock", "audio-encoder">>,
       <<"encoder.blocks", "EncoderBlock", "audio-encoder">>,
       <<"decoder.blocks", "DecoderBlock", "audio-decoder">> >>

\* _EMBED_PREFIXES, _EMBED_MARKERS and the like, on modules that are not numbered.
EmbedModules  == {"token_embd", "position_embd", "model.embed_tokens", "rwkv.embeddings"}
NormModules   == {"output_norm", "model.norm"}
OutputModules == {"output", "lm_head"}
TiedModules   == {"token_embd", "model.embed_tokens"}

Layer(name, op, weights) ==
    IF weights = {} THEN << >> ELSE <<[name |-> name, op |-> op, weights |-> weights]>>

BlocksOf(names, module) == {n[2] : n \in {m \in names : m[2] # NoBlock /\ m[1] \in module}}

InOrder(blocks) ==
    IF blocks = {} THEN << >>
    ELSE LET last == CHOOSE b \in blocks : \A o \in blocks : o <= b
         IN  SelectSeq([i \in 1..(last + 1) |-> i - 1], LAMBDA b : b \in blocks)

\* _prefixed_layers.
Towers(names) ==
    FlattenSeq([p \in DOMAIN PrefixedBlocks |->
        LET row == PrefixedBlocks[p]
            blocks == InOrder(BlocksOf(names, {row[1]}))
        IN  FlattenSeq([i \in DOMAIN blocks |->
                Layer(<<row[3], blocks[i]>>, row[2], {n \in names : n[1] = row[1] /\ n[2] = blocks[i]})])])

\* The sublayer a weight of a block belongs to.  In a hybrid block the projections join the
\* recurrent part and the second norm the feed-forward part; a Mamba block is one operation.
KindIn(block, n, words) ==
    IF "mamba" \in words THEN "ssm"
    ELSE IF "hybrid" \in words /\ n[3] = "post_attention_norm" THEN "ffn"
    ELSE IF /\ "hybrid" \in words /\ Leaves[n[3]] = "attn"
            /\ \E m \in block : Leaves[m[3]] = "ssm" THEN "ssm"
    ELSE Leaves[n[3]]

Sublayers == << <<"attn", "Attention">>, <<"ssm", "SSM">>, <<"ffn", "FFN">>, <<"extra", "Parameters">> >>

\* _block_layers.
BlockLayers(names, words) ==
    LET blocks == InOrder({n[2] : n \in names})
    IN  FlattenSeq([i \in DOMAIN blocks |->
            LET block == {n \in names : n[2] = blocks[i]}
            IN  FlattenSeq([k \in DOMAIN Sublayers |->
                    Layer(<<Sublayers[k][1], blocks[i]>>, Sublayers[k][2],
                          {n \in block : KindIn(block, n, words) = Sublayers[k][1]})])])

\* plan_architecture of either reader: what is bound to no layer is listed with the weights
\* of the graph; a name without any layer gets one of its own for all of them.
PlanLayers(names, c, prefixed) ==
    LET plain == {n \in names : n[2] = NoBlock}
        embed == {n \in plain : n[1] \in EmbedModules}
        output == {n \in plain : n[1] \in OutputModules}
        tied == IF "tie" \in c.words THEN TRUE
                ELSE IF "untie" \in c.words THEN FALSE ELSE output = {} /\ embed # {}
        head == IF output # {} \/ ~tied THEN output
                ELSE LET candidates == {n \in embed : n[1] \in TiedModules}
                     IN  IF candidates = {} THEN {} ELSE {CHOOSE n \in candidates : TRUE}
        numbered == {n \in names : n[2] # NoBlock /\ (prefixed => n[1] = "blk")}
        layers == Layer(Out("embed"), "Embedding", embed)
                      \o (IF prefixed THEN Towers(names) ELSE << >>)
                      \o BlockLayers(numbered, c.words)
                      \o Layer(Out("output-norm"), "RMSNorm", {n \in plain : n[1] \in NormModules})
                      \o Layer(Out("lm-head"), "Linear", head)
    IN  IF layers = << >> THEN Layer(Out("weights"), "Parameters", names) ELSE layers

\* _append_layer and _build_graph: each chained layer reads the one before it.
ChainGraph(layers) ==
    LET chained == SelectSeq(layers, LAMBDA l : l.op \in ChainOps)
        feed == Out(IF chained = << >> THEN "" ELSE
                    CASE chained[1].op = "VisionBlock"  -> "pixel-values"
                      [] chained[1].op = "EncoderBlock" -> "input-features"
                      [] OTHER -> "tokens")
        ops == {chained[i].op : i \in DOMAIN chained}
        before(i) == SelectSeq(SubSeq(layers, 1, i - 1), LAMBDA l : l.op \in ChainOps)
        reads(i) == IF layers[i].op \notin ChainOps THEN << >>
                    ELSE IF before(i) = << >> THEN <<feed>> ELSE <<Last(before(i)).name>>
    IN  Stages([i \in DOMAIN layers |->
                   Stage(layers[i].name, layers[i].op, reads(i), <<layers[i].name>>, layers[i].weights)],
               IF chained = << >> THEN << >>
               ELSE <<feed>> \o (IF {"EncoderBlock", "DecoderBlock"} \subseteq ops
                                 THEN <<Out("decoder-tokens")>> ELSE << >>),
               IF chained = << >> THEN << >> ELSE Last(chained).name)

---------------------------------------------------------------------------
(* pytorch/fx.py: the statements of the generated forward function *)

\* _forward_nodes: an assignment of None frees a name, and is no node.
ForwardGraph(f) ==
    LET steps == SelectSeq(f.body, LAMBDA s : s.is = "assign")
        returned == {f.body[i] : i \in {j \in DOMAIN f.body : f.body[j].is = "return"}}
        made == [i \in DOMAIN steps |->
                    Stage(steps[i].target, IF steps[i].call = "" THEN "opaque" ELSE steps[i].call,
                          steps[i].args, <<steps[i].target>>, {})]
    IN  [Stages(made, f.params, << >>) EXCEPT !.outputs = UNION {Range(s.args) : s \in returned}]

---------------------------------------------------------------------------
(* The graph of the document *)

\* gguf/media.py, clip_state_key and whisper_state_key: the module of the library a module of
\* a GGUF file is; the leaves are renamed alike and only tell weights of one module apart.
StateModules ==
    {<<"v.patch_embd", "embeddings">>, <<"v.position_embd", "embeddings">>, <<"v.pre_ln", "pre_layrnorm">>,
     <<"v.post_ln", "post_layernorm">>, <<"v.blk", "encoder.layers">>, <<"a.blk", "model.encoder.layers">>,
     <<"encoder.conv1", "model.encoder.conv1">>, <<"encoder.conv2", "model.encoder.conv2">>,
     <<"encoder.positional_embedding", "model.encoder.embed_positions">>,
     <<"encoder.ln_post", "model.encoder.layer_norm">>, <<"encoder.blocks", "model.encoder.layers">>,
     <<"decoder.token_embedding", "model.decoder.embed_tokens">>,
     <<"decoder.positional_embedding", "model.decoder.embed_positions">>,
     <<"decoder.ln", "model.decoder.layer_norm">>, <<"decoder.blocks", "model.decoder.layers">>,
     <<"proj_out", "proj_out">>}

\* media_kind and full_whisper: the family of a GGUF file of the architectures clip and whisper.
MediaFamily(names) ==
    LET has(modules) == \E n \in names : n[1] \in modules
    IN  IF has({"v.blk", "v.patch_embd"}) THEN "clip"
        ELSE IF ~has({"a.blk", "encoder.conv1", "encoder.conv2", "encoder.blocks"}) THEN "none"
        ELSE IF has({"decoder.blocks", "decoder.token_embedding"}) THEN "whisper" ELSE "encoder"

\* The names of the weights as the stages know them; a tied head has the weight of the embedding.
StateNames(names) ==
    LET of(n) == {m[2] : m \in {k \in StateModules : k[1] = n[1]}}
        tied == ~\E i \in DOMAIN names : names[i][1] = "proj_out"
    IN  UNION {{<<<<m, names[i][2]>>, names[i]>> :
                   m \in of(names[i]) \cup (IF tied /\ names[i][1] = "decoder.token_embedding"
                                            THEN {"proj_out"} ELSE {})} : i \in DOMAIN names}

\* Names a reader uses as they are.
OwnNames(names) == {<<SubSeq(names[i], 1, 2), names[i]>> : i \in DOMAIN names}

\* The constructors of ir/core.py are given every value a stage or an input declares.
\* binds names the modules whose weights a stage shows, or the weights themselves; known
\* relates a module to the weights it has.
GraphOf(x, names, known) ==
    LET made == {x.inputs[i] : i \in DOMAIN x.inputs} \cup x.outputs
                    \cup UNION {Range(x.stages[i].outs) \cup Range(x.stages[i].feeds) : i \in DOMAIN x.stages}
        shown(s) == SelectSeq(names, LAMBDA n :
                        n \in s.binds \/ \E m \in s.binds : <<m, n>> \in known)
    IN  [nodes |-> [i \in DOMAIN x.stages |->
             LET s == x.stages[i]
             IN  [id |-> s.name, op |-> s.op, name |-> s.name, ins |-> s.feeds, outs |-> s.outs,
                  attrs |-> [k \in DOMAIN shown(s) |-> [name |-> shown(s)[k], kind |-> "tensor",
                                                        value |-> shown(s)[k]]],
                  captured |-> {}]],
         values |-> [v \in made |-> [type |-> NoType, shape |-> NoShape, name |-> v]],
         inputs |-> Range(x.inputs), outputs |-> x.outputs]

=============================================================================
