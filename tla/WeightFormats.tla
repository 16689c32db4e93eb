---------------------------- MODULE WeightFormats ----------------------------
(***************************************************************************)
(* Artifacts that hold weights and no operators: a safetensors file, a     *)
(* GGUF file, a torch checkpoint and a snapshot directory with its shards. *)
(* Every reader locates tensors from a header, a table, a pickle or an     *)
(* index without reading them, and each decides for itself which of the    *)
(* ranges it found can be believed.  The writer of the weights-only export *)
(* is the inverse of the first.                                            *)
(*                                                                         *)
(* Bytes are counted, never listed: what lies in a range is known by where *)
(* the range is.                                                           *)
(***************************************************************************)
EXTENDS GraphExport, ArtifactKinds

CONSTANTS
    GgmlSizes,      \* GGML_QUANT_SIZES: tensor type -> <<elements of a block, bytes of a block>>
    MemberKind      \* _member_kind: name of a file of a snapshot -> kind

NoRange   == << >>
Metadata  == <<"__metadata__">>
SafeTypes == {"float32", "int8", "uint8"}     \* _DTYPE_TO_IR, cut down
GgmlNames == [F32 |-> "float32", I8 |-> "int8"]   \* element_type_name, for the plain types

\* encode_segment: injective, but not idempotent.
EncodeSegment(name) ==
    IF name \in EscapedNames \/ name[1] = "escaped" THEN <<"escaped">> \o name ELSE name

---------------------------------------------------------------------------
(* Overlaps: safetensors._overlapping_names, gguf indexer._overlapping_indices *)

\* The order of the sorted ranges, <<begin, end, id>>.
Precedes(a, b) ==
    \/ a[1] < b[1]
    \/ a[1] = b[1] /\ (a[2] < b[2] \/ (a[2] = b[2] /\ a[3] < b[3]))

\* Mutant: a range is compared with its neighbour, not with the furthest end so far.
FurthestNeighbour(ranges) == CHOOSE a \in ranges : \A b \in ranges \ {a} : Precedes(b, a)

\* previous_end and previous_name: the first range that reaches the furthest end so far.
Furthest(ranges) ==
    CHOOSE a \in ranges : \A b \in ranges \ {a} : b[2] < a[2] \/ (b[2] = a[2] /\ Precedes(a, b))

\* Both the range that begins too early and the one it begins in.
Overlapping(ranges) ==
    UNION {LET before == {a \in ranges : Precedes(a, k)}
           IN  IF before # {} /\ k[1] < Furthest(before)[2] THEN {k[3], Furthest(before)[3]} ELSE {} :
           k \in ranges}

---------------------------------------------------------------------------
(* safetensors.py: reading *)

WellRanged(e) == e.offsets # NoRange /\ 0 <= e.offsets[1] /\ e.offsets[1] <= e.offsets[2]

HeaderRanges(s) ==
    {<<s.entries[i].offsets[1], s.entries[i].offsets[2], i>> :
        i \in {j \in DOMAIN s.entries : WellRanged(s.entries[j]) /\ s.entries[j].name # Metadata}}

\* _parse_header_entry: nothing for an entry that is no tensor, else a tensor and whether
\* its bytes may be read.
ParseHeaderEntry(s, i, overlapping) ==
    LET e == s.entries[i]
        length == IF WellRanged(e) THEN e.offsets[2] - e.offsets[1] ELSE 0
    IN  IF \/ e.name = Metadata \/ e.type \notin SafeTypes \/ e.dims = NoShape \/ e.offsets = NoRange
           \/ \E d \in DOMAIN e.dims : e.dims[d] < 0
        THEN << >>
        ELSE <<[name |-> e.name, type |-> e.type, dims |-> e.dims,
                offset |-> s.start + e.offsets[1], length |-> length,
                readable |-> /\ WellRanged(e) /\ s.start + e.offsets[2] <= s.size
                             /\ i \notin overlapping
                             /\ ExpectedBytes(e.type, e.dims) = length]>>

\* index_safetensors_file.
SafeCatalog(s) ==
    LET overlapping == Overlapping(HeaderRanges(s))
    IN  FlattenSeq([i \in DOMAIN s.entries |-> ParseHeaderEntry(s, i, overlapping)])

Tensor(name, type, dims, storage, at, offset, length) ==
    [name |-> name, type |-> type, dims |-> dims, storage |-> storage,
     file |-> IF storage = "absent" THEN "" ELSE at,
     offset |-> IF storage = "absent" THEN 0 ELSE offset,
     bytes |-> IF storage = "absent" THEN NoLength ELSE length, walked |-> FALSE]

\* open_safetensors: the tensors, or what it raises.
OpenSafetensors(s) ==
    IF ~s.whole THEN [raised |-> "header", tensors |-> << >>]
    ELSE [raised |-> "", tensors |->
             LET catalog == SafeCatalog(s)
             IN  [i \in DOMAIN catalog |->
                     LET e == catalog[i]
                     IN  Tensor(e.name, e.type, e.dims, IF e.readable THEN "embedded" ELSE "absent",
                                "self", e.offset, e.length)]]

---------------------------------------------------------------------------
(* gguf/indexer.py *)

\* _read_kv_entries keeps the later value of a key; _alignment_from_kv takes a power of two.
Alignment(g) ==
    LET given == SelectSeq(g.kv, LAMBDA e : e.key = "general.alignment")
    IN  IF given # << >> /\ Last(given).value \in {1, 2, 4, 8, 16, 32} THEN Last(given).value ELSE 32

DataStart(g) ==
    ((g.tableEnd + Alignment(g) - 1) \div Alignment(g)) * Alignment(g)

\* _read_tensor_table: the later of two entries of one name is ignored.
TableEntries(g) ==
    LET first(i) == \A j \in 1..(i - 1) : g.table[j].name # g.table[i].name
        kept == [i \in DOMAIN g.table |-> IF first(i) THEN <<g.table[i]>> ELSE << >>]
    IN  FlattenSeq(kept)

\* _gap_lengths: from a tensor to the next one in the file, or to its end.
GapLength(table, i, start, size) ==
    LET from == start + table[i].at
        after == {start + table[j].at : j \in {k \in DOMAIN table :
                     table[k].at > table[i].at \/ (table[k].at = table[i].at /\ k > i)}}
        next == IF after = {} THEN size ELSE CHOOSE e \in after : \A f \in after : e <= f
    IN  IF next < from THEN 0 ELSE next - from

\* _payload_length and packed_nbytes: an unknown type has the length of the gap.
PayloadLength(table, i, start, size) ==
    IF table[i].type \notin DOMAIN GgmlSizes THEN GapLength(table, i, start, size)
    ELSE LET sizes == GgmlSizes[table[i].type]
         IN  (ElementCount(table[i].dims) * sizes[2]) \div sizes[1]

\* The ranges of plausible shapes that lie in the file, as <<begin, end, place in the table>>.
PlacedRanges(g) ==
    LET table == TableEntries(g)
        range(i) == <<DataStart(g) + table[i].at,
                      DataStart(g) + table[i].at + PayloadLength(table, i, DataStart(g), g.size), i>>
    IN  {range(i) : i \in {j \in DOMAIN table :
            ElementCount(table[j].dims) <= MaxElements /\ range(j)[2] <= g.size}}

\* _locate_payloads: what is not placed, or shares bytes with another, has no payload.
LocatePayloads(g) ==
    LET table == TableEntries(g)
        placed == PlacedRanges(g)
        served == {r \in placed : r[3] \notin Overlapping(placed)}
    IN  [i \in DOMAIN table |->
            LET mine == {r \in served : r[3] = i}
                type == table[i].type
            IN  Tensor(table[i].name, IF type \in DOMAIN GgmlNames THEN GgmlNames[type] ELSE type,
                       Reverse(table[i].dims), IF mine = {} THEN "absent" ELSE "embedded", "self",
                       IF mine = {} THEN 0 ELSE (CHOOSE r \in mine : TRUE)[1],
                       IF mine = {} THEN 0 ELSE LET r == CHOOSE r \in mine : TRUE IN r[2] - r[1])]

\* index_gguf.
OpenGguf(g) ==
    IF ~g.whole \/ DataStart(g) > g.size THEN [raised |-> "index", tensors |-> << >>]
    ELSE [raised |-> "", tensors |-> LocatePayloads(g)]

---------------------------------------------------------------------------
(* checkpoint.py, pickle_scan.py, zip_store.py *)

\* scan_state_dict: nothing outside the vocabulary, a mapping at the root, no tensor of a
\* negative geometry.  Nothing is imported or called.
ScanRefuses(pickle) ==
    \/ pickle.foreign \/ ~pickle.mapping
    \/ \E i \in DOMAIN pickle.entries : \E j \in DOMAIN pickle.entries[i].inner :
          LET r == pickle.entries[i].inner[j].value
          IN  r.is = "tensor" /\ (r.offset < 0 \/ \E d \in DOMAIN r.dims : r.dims[d] < 0)

\* _flatten: dotted names; a later tensor takes the place of an earlier one of that name,
\* where it was first.  An entry is a tensor (inner has the empty key) or a mapping.
Flatten(pickle) ==
    LET leaves == FlattenSeq([i \in DOMAIN pickle.entries |->
                     [j \in DOMAIN pickle.entries[i].inner |->
                         [name  |-> pickle.entries[i].key \o pickle.entries[i].inner[j].key,
                          value |-> pickle.entries[i].inner[j].value]]])
        tensors == SelectSeq(leaves, LAMBDA l : l.value.is = "tensor")
        last(name) == tensors[CHOOSE i \in DOMAIN tensors :
                          tensors[i].name = name /\ \A j \in (i + 1)..Len(tensors) : tensors[j].name # name]
        first(i) == \A j \in 1..(i - 1) : tensors[j].name # tensors[i].name
    IN  FlattenSeq([i \in DOMAIN tensors |-> IF first(i) THEN <<last(tensors[i].name)>> ELSE << >>])

\* The tensor of one record: what its storage, its member and its strides allow.
RecordTensor(members, name, r) ==
    LET count == ElementCount(r.dims)
        width == Bits[r.type] \div 8
        absent(type) == Tensor(name, type, r.dims, "absent", "", 0, 0)
    IN  IF r.type = NoType THEN absent("undefined")
        ELSE IF r.storage \notin DOMAIN members \/ members[r.storage].compressed \/ ~r.contiguous
             THEN absent(r.type)
        ELSE IF (r.offset + count) * width > members[r.storage].size THEN absent(r.type)
        ELSE Tensor(name, r.type, r.dims, "embedded", "self",
                    members[r.storage].offset + r.offset * width, count * width)

\* Mapping that contains itself: _flatten gives up.
SelfReferential(pickle) ==
    \E i \in DOMAIN pickle.entries : \E j \in DOMAIN pickle.entries[i].inner :
        pickle.entries[i].inner[j].value.is = "cycle"

\* open_checkpoint.  sound is what zip_members checks of the archive.
OpenCheckpoint(c) ==
    IF \/ ~c.sound \/ c.pickle = << >> \/ ScanRefuses(c.pickle[1]) \/ SelfReferential(c.pickle[1])
    THEN [raised |-> "checkpoint", tensors |-> << >>]
    ELSE [raised |-> "", tensors |->
             LET flat == Flatten(c.pickle[1])
             IN  [i \in DOMAIN flat |-> RecordTensor(c.members, flat[i].name, flat[i].value)]]

---------------------------------------------------------------------------
(* huggingface/snapshot.py *)

IndexPriority == <<"model.safetensors.index.json", "pytorch_model.bin.index.json">>
SingleWeights == <<"model.safetensors">>

MembersOfKind(h, kind) == SelectSeq(h.members, LAMBDA n : MemberKind[n] = kind)

\* The first of the preferred names that is there, or << >>.
Preferred(h, names) ==
    LET there == SelectSeq(names, LAMBDA n : n \in Range(h.members))
    IN  IF there = << >> THEN << >> ELSE <<there[1]>>

\* _index_name, _load_weight_map: the map of the preferred index; none if it cannot be read.
WeightMap(h) ==
    LET names == Preferred(h, IndexPriority) \o MembersOfKind(h, "index")
    IN  IF names = << >> THEN << >> ELSE h.indexes[names[1]]

\* _single_weight, _all_safetensors.
ShardsWithoutMap(h) ==
    IF Preferred(h, SingleWeights) # << >> THEN Preferred(h, SingleWeights)
    ELSE MembersOfKind(h, "weights")

\* _catalog_for_shard: nothing of a shard outside the snapshot, missing, pickled or unreadable.
CatalogForShard(h, shard) ==
    IF shard \notin DOMAIN h.shards \/ shard \in h.unsafe \/ MemberKind[shard] # "weights" THEN << >>
    ELSE IF ~h.shards[shard].whole THEN << >>
    ELSE SafeCatalog(h.shards[shard])

\* _mapped_tensor: a name the shard does not have is listed, without bytes.
MappedTensor(name, shard, found) ==
    IF found = << >> THEN Tensor(name, "uint8", << >>, "absent", "", 0, 0)
    ELSE Tensor(name, found[1].type, found[1].dims,
                IF found[1].readable THEN "external" ELSE "absent",
                shard, found[1].offset, found[1].length)

\* _tensors_from_weight_map.
FromWeightMap(h, map) ==
    [i \in DOMAIN map |->
        MappedTensor(map[i][1], map[i][2],
            SelectSeq(CatalogForShard(h, map[i][2]), LAMBDA e : e.name = map[i][1]))]

\* _tensors_from_shards: the first of the tensors of one name is kept.
FromShards(h, shards) ==
    LET all == FlattenSeq([i \in DOMAIN shards |->
                  LET catalog == CatalogForShard(h, shards[i])
                  IN  [j \in DOMAIN catalog |-> MappedTensor(catalog[j].name, shards[i], <<catalog[j]>>)]])
        first(i) == \A j \in 1..(i - 1) : all[j].name # all[i].name
    IN  FlattenSeq([i \in DOMAIN all |-> IF first(i) THEN <<all[i]>> ELSE << >>])

\* index_huggingface, _index_weights.
OpenSnapshot(h) ==
    IF h.members = << >> THEN [raised |-> "empty", tensors |-> << >>]
    ELSE [raised |-> "", tensors |->
             IF WeightMap(h) # << >> THEN FromWeightMap(h, WeightMap(h))
             ELSE FromShards(h, ShardsWithoutMap(h))]

=============================================================================
