---------------------------- MODULE ArtifactKinds ----------------------------
(***************************************************************************)
(* What a path is, and what the program promises to do with it.            *)
(* adapters/detect.py decides the kind of an artifact from its content,    *)
(* adapters/registry.py turns the failures of every reader into one error, *)
(* ir/capabilities.py answers, per kind, for seven capabilities, and       *)
(* session.export_plan says what the shell may offer.                      *)
(*                                                                         *)
(* What detection looks at is the record `probe` of an artifact: the names *)
(* of its members, if it is a directory or an archive, and which signs the *)
(* first bytes carry.  A file may carry several.                           *)
(***************************************************************************)
EXTENDS Integers, Sequences, SequencesExt

\* The signs of a file, in the order detect_artifact_kind looks for them.  "brace" is '{'
\* at byte 8, "header fits" that the eight bytes before it are a length the file holds.
Signs == {"zip", "GGUF", "brace", "header fits", "module line", "byte 08",
          "suffix onnx", "suffix mlir"}

ConfigNames == {"config.json", "adapter_config.json"}

SnapshotWeights ==
    {"model.safetensors", "a.safetensors", "b.safetensors", "model.safetensors.index.json",
     "pytorch_model.bin.index.json", "pytorch_model.bin", "adapter_model.bin"}

---------------------------------------------------------------------------
(* detect.py *)

\* The kind of the first rule that applies, or "unknown".
FirstKind(rules) ==
    LET hits == SelectSeq(rules, LAMBDA r : r[1])
    IN  IF hits = << >> THEN "unknown" ELSE hits[1][2]

\* _directory_kind and is_huggingface_snapshot.
DirectoryKind(names) ==
    FirstKind(<< <<{"Manifest.json", "model.mlmodel"} \subseteq names, "coreml_package">>,
                 <<names \cap ConfigNames # {} /\ names \cap SnapshotWeights # {}, "huggingface_model">> >>)

\* _zip_kind: a torch checkpoint always holds data.pkl; anyone can append the other names.
ZipKind(readable, names) ==
    FirstKind(<< <<~readable, "unknown">>,
                 <<"data.pkl" \in names, "pytorch_state_dict">>,
                 <<"archive_format" \in names, "pytorch_exported_program">>,
                 <<"dlc.metadata" \in names, "qualcomm_dlc">> >>)

FileKind(p) ==
    FirstKind(<< <<p.signs = {}, "unknown">>,
                 <<"zip" \in p.signs, ZipKind(p.readable, p.names)>>,
                 <<"GGUF" \in p.signs, "gguf_model">>,
                 <<{"brace", "header fits"} \subseteq p.signs, "safetensors">>,
                 <<"module line" \in p.signs, "jax_stablehlo">>,
                 <<"byte 08" \in p.signs, "onnx_model">>,
                 <<"suffix onnx" \in p.signs, "onnx_model">>,
                 <<"suffix mlir" \in p.signs, "jax_stablehlo">> >>)

DetectArtifactKind(p) == IF p.directory THEN DirectoryKind(p.names) ELSE FileKind(p)

---------------------------------------------------------------------------
(* ir/capabilities.py *)

Capabilities == <<"topology", "weights", "metadata", "editing", "execution", "tracing", "export">>

\* _CONTRACTS: A available, P partial, U unavailable, T requires trusted mode, C requires a
\* companion artifact; in the order of Capabilities.
ContractRows ==
    [onnx_model               |-> <<"A", "A", "A", "P", "C", "A", "A">>,
     pytorch_exported_program |-> <<"A", "A", "P", "P", "T", "U", "P">>,
     pytorch_fx_graph_module  |-> <<"P", "C", "P", "U", "T", "U", "U">>,
     pytorch_state_dict       |-> <<"U", "A", "P", "P", "U", "U", "P">>,
     safetensors              |-> <<"U", "A", "P", "P", "U", "U", "A">>,
     jax_stablehlo            |-> <<"A", "U", "P", "U", "T", "U", "U">>,
     jax_traced_function      |-> <<"T", "C", "A", "P", "T", "U", "P">>,
     orbax_checkpoint         |-> <<"U", "A", "P", "P", "U", "U", "P">>,
     qualcomm_dlc             |-> <<"P", "P", "P", "U", "U", "U", "U">>,
     coreml_package           |-> <<"U", "P", "P", "U", "U", "U", "U">>,
     gguf_model               |-> <<"P", "A", "A", "P", "P", "A", "U">>,
     huggingface_model        |-> <<"P", "A", "A", "P", "P", "A", "P">>]

\* contract_for.
ContractFor(kind) ==
    [c \in Range(Capabilities) |->
        ContractRows[kind][CHOOSE i \in DOMAIN Capabilities : Capabilities[i] = c]]

\* _narrow_capabilities of the GGUF and the snapshot readers: what the contract says, less
\* what tensors without bytes take away.  listed and readable count tensors.
Narrowed(kind, listed, readable) ==
    LET contract == ContractFor(kind)
        without(S, v) == [c \in DOMAIN contract |-> IF c \in S THEN v ELSE contract[c]]
    IN  IF kind \notin {"gguf_model", "huggingface_model"} THEN contract
        ELSE IF listed = 0 /\ kind = "huggingface_model"
             THEN without({"weights", "topology", "execution", "tracing"}, "U")
        ELSE IF readable = 0 THEN without({"weights", "execution", "tracing"}, "U")
        ELSE IF readable < listed THEN without({"weights"}, "P")
        ELSE contract

---------------------------------------------------------------------------
(* session.py *)

WeightsOnlyKinds == {"pytorch_exported_program", "pytorch_state_dict", "safetensors", "orbax_checkpoint", "huggingface_model"}

\* export_plan: what the shell offers for a document of this kind.
ExportPlan(kind, statuses) ==
    LET offered == statuses["export"] \in {"A", "P"}
    IN  CASE kind = "onnx_model"             -> [fidelity |-> "lossless", available |-> offered]
          [] kind \in WeightsOnlyKinds -> [fidelity |-> "weights only", available |-> offered]
          [] OTHER                     -> [fidelity |-> "unavailable", available |-> FALSE]

=============================================================================
