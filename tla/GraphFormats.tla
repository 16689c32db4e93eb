---------------------------- MODULE GraphFormats ----------------------------
(***************************************************************************)
(* Artifacts that hold operators in a form of their own: an exported       *)
(* PyTorch program, a Qualcomm container, a text of StableHLO and a Core   *)
(* ML package.  The first has a table of values and nodes that name them;  *)
(* the second a stream that is decoded completely or not believed at all;  *)
(* the third is read as text, function by function and line by line; the   *)
(* last shows its blobs without operators.                                 *)
(*                                                                         *)
(* The text of a module is a sequence of tokens <<kind, word, number>>.    *)
(***************************************************************************)
EXTENDS WeightFormats, StageGraphs

\* F of x, where x is computed once.
With(x, F(_)) == CHOOSE y \in {F(z) : z \in {x}} : TRUE

\* A graph of the constructors of ir/core.py, and the weights beside it.
IrGraph(nodes, declared, inputs, outputs) ==
    [nodes |-> nodes, values |-> [v \in declared |-> [type |-> NoType, shape |-> NoShape, name |-> v]],
     inputs |-> inputs, outputs |-> outputs]

IrNode(id, op, name, ins, outs, attrs) ==
    [id |-> id, op |-> op, name |-> name, ins |-> ins, outs |-> outs, attrs |-> attrs, captured |-> {}]

\* identity.node_id of an operation without a name.
UnnamedId(i, outs) == IF outs = << >> THEN <<"idx", i>> ELSE <<"out">> \o outs[1]

Opening(raised, tensors, graph) == [raised |-> raised, tensors |-> tensors, graph |-> graph, others |-> << >>]

NoGraph == IrGraph(<< >>, {}, {}, {})

---------------------------------------------------------------------------
(* pytorch/pt2.py *)

\* placeholder_names: the module's name of a parameter placeholder.
PlaceholderName(p, v) ==
    LET roles == SelectSeq(p.roles, LAMBDA r : r[1] = v)
    IN  IF roles = << >> THEN v ELSE Last(roles)[2]

\* The tensors an argument refers to; a none has none, and anything else is an attribute.
Ports(arguments) ==
    FlattenSeq([i \in DOMAIN arguments |-> IF arguments[i].is = "tensors" THEN arguments[i].names ELSE << >>])

ProgramGraph(p) ==
    LET outs(i) == Ports(p.nodes[i].outs)
        mentioned == UNION {Range(Ports(p.nodes[i].args)) \cup Range(outs(i)) : i \in DOMAIN p.nodes}
        declared == p.values \cup mentioned \cup Range(p.outputs)
        first(i) == IF outs(i) = << >> THEN << >> ELSE <<PlaceholderName(p, outs(i)[1])>>
    IN  IrGraph([i \in DOMAIN p.nodes |->
                    IrNode(UnnamedId(i, first(i)), p.nodes[i].target, << >>, Ports(p.nodes[i].args), outs(i), << >>)],
                declared, {v \in Range(p.user) : v \in declared}, Range(p.outputs))

\* One entry of the table of weights: served if its member is stored and as long as it says.
\* A symbolic dimension counts as zero.
ProgramWeight(p, w) ==
    LET dims == [d \in DOMAIN w.dims |-> IF w.dims[d] < 0 THEN 0 ELSE w.dims[d]]
        served == /\ ~w.pickled /\ w.member \in DOMAIN p.members /\ ~p.members[w.member].compressed
                  /\ ExpectedBytes(w.type, dims) \in {NoLength, p.members[w.member].size}
    IN  Tensor(w.name, w.type, dims, IF served THEN "embedded" ELSE "absent", "self",
               IF served THEN p.members[w.member].offset ELSE 0, IF served THEN p.members[w.member].size ELSE 0)

\* _open_pt2: what is no archive of this format and of a schema this build reads is refused.
OpenPt2(p) ==
    IF ~p.sound \/ p.format # "pt2" \/ ~p.little \/ ~p.model \/ p.schema # 8
    THEN Opening("pt2", << >>, NoGraph)
    ELSE Opening("", [i \in DOMAIN p.weights |-> ProgramWeight(p, p.weights[i])], ProgramGraph(p))

---------------------------------------------------------------------------
(* qualcomm/netd.py and dlc.py *)

\* decode_netd: a tensor without a name, an operation without a name or a type, no graphs.
NetdRefused(n) ==
    \/ ~n.sound \/ n.graphs = << >>
    \/ \E g \in Range(n.graphs) : \/ \E t \in Range(g.tensors) : t.name = ""
                                  \/ \E o \in Range(g.ops) : \/ o.name = "" \/ o.type = ""
                                                             \/ \E a \in Range(o.attrs) : a.tensor # << >> /\ a.tensor[1].name = ""

\* decode_netp: where the payloads are; a record without a name or a place says nothing, and
\* the later of two records of one name holds.
Located(records, name) ==
    LET mine == SelectSeq(records, LAMBDA r : r.name = name /\ r.at # NoRange)
    IN  IF mine = << >> THEN NoRange ELSE Last(mine).at

\* _open_dlc: the members by their last names.  The first of one name is kept, but a member
\* whose headers disagree takes the place of an earlier one, and has no bytes.
DlcMember(d, base) ==
    LET mine == SelectSeq(d.members, LAMBDA m : m.base = base)
        broken == SelectSeq(mine, LAMBDA m : m.stored /\ m.header /\ ~m.agrees)
    IN  IF mine = << >> THEN << >>
        ELSE IF broken # << >> THEN <<[Last(broken) EXCEPT !.header = FALSE]>>
        ELSE <<mine[1]>>

HasBytes(member) == member # << >> /\ member[1].stored /\ member[1].header

\* _static_tensor_ref: the bytes of a static tensor, typed if they fit the shape.
StaticTensor(d, name, t, at) ==
    LET bin == DlcMember(d, "model.params.bin")
        type == IF t.type \in DOMAIN Bits THEN t.type ELSE "uint8"
    IN  IF at = NoRange \/ ~HasBytes(bin) THEN Tensor(name, type, t.dims, "absent", "", 0, 0)
        ELSE IF at[1] + at[2] > bin[1].size \/ bin[1].offset + at[1] + at[2] > d.size
             THEN Tensor(name, type, t.dims, "absent", "", 0, 0)
        ELSE IF t.type \in DOMAIN Bits /\ Bits[type] >= 8 /\ ExpectedBytes(t.type, t.dims) = at[2]
             THEN Tensor(name, t.type, t.dims, "embedded", "self", bin[1].offset + at[1], at[2])
        ELSE Tensor(name, "uint8", <<at[2]>>, "embedded", "self", bin[1].offset + at[1], at[2])

\* The tensors of graph number k: static ones, and those an attribute holds.
StaticName(k, t)   == <<t.name, k, "">>
HeldName(k, o, a) == <<o.name, k, a.name>>

\* The directory of one graph: the records of its static tensors and of its operations.
DirectoryOf(d, g) ==
    LET mine == SelectSeq(d.netp, LAMBDA x : x.name = g.name)
    IN  IF mine = << >> THEN [statics |-> << >>, ops |-> << >>] ELSE Last(mine)

\* _graph_to_ir: an edge to a tensor the table does not have gets a value of its own.
NetworkGraph(d, k) ==
    LET g == d.netd.graphs[k]
        edge(x) == <<x, NoBlock>>
        named(role) == {edge(t.name) : t \in {u \in Range(g.tensors) : u.role = role}}
        given(o) == SelectSeq(o.attrs, LAMBDA a : a.name # "")
        attr(o, a) == [name |-> a.name, kind |-> IF a.tensor # << >> THEN "tensor" ELSE a.kind,
                       value |-> IF a.tensor # << >> THEN HeldName(k, o, a) ELSE a.value]
    IN  IrGraph([i \in DOMAIN g.ops |->
                    LET o == g.ops[i]
                    IN  IrNode(<<"name", o.name>>, o.type, o.name, [p \in DOMAIN o.ins |-> edge(o.ins[p])],
                               [p \in DOMAIN o.outs |-> edge(o.outs[p])],
                               [p \in DOMAIN given(o) |-> attr(o, given(o)[p])])],
                {edge(t.name) : t \in Range(g.tensors)}
                    \cup UNION {{edge(x) : x \in Range(o.ins) \cup Range(o.outs)} : o \in Range(g.ops)},
                named("input"), named("output"))

NetworkTensors(d, k) ==
    LET g == d.netd.graphs[k]
        directory == DirectoryOf(d, g)
        first(i) == \A j \in 1..(i - 1) : g.tensors[j].name # g.tensors[i].name
        statics == [i \in DOMAIN g.tensors |->
                       IF first(i) /\ g.tensors[i].role = "static"
                       THEN <<StaticTensor(d, StaticName(k, g.tensors[i]), g.tensors[i],
                                           Located(directory.statics, g.tensors[i].name))>>
                       ELSE << >>]
        records(i) == IF i \in DOMAIN directory.ops THEN directory.ops[i] ELSE << >>
        params(i) == LET with == SelectSeq(g.ops[i].attrs, LAMBDA a : a.name # "" /\ a.tensor # << >>)
                     IN  [p \in DOMAIN with |->
                             StaticTensor(d, HeldName(k, g.ops[i], with[p]), with[p].tensor[1],
                                          Located(records(i), with[p].tensor[1].name))]
    IN  FlattenSeq(statics) \o FlattenSeq([i \in DOMAIN g.ops |-> params(i)])

\* The container index: every member whose bytes are at hand, as raw bytes.
MemberTensors(d) ==
    LET first(i) == \A j \in 1..(i - 1) : d.members[j].base # d.members[i].base
        shown == [i \in DOMAIN d.members |->
                     LET m == DlcMember(d, d.members[i].base)
                     IN  IF first(i) /\ HasBytes(m)
                         THEN <<Tensor(<<m[1].base, NoBlock, "">>, "uint8", <<m[1].size>>, "embedded", "self",
                                       m[1].offset, m[1].size)>>
                         ELSE << >>]
    IN  FlattenSeq(shown)

\* _decode_topology and _open_dlc: a stream that does not match, or whose contents no graph
\* may have, is not believed at all.
OpenDlc(d) ==
    LET model == DlcMember(d, "model")
        container == Opening("", MemberTensors(d), NoGraph)
        graphs == [i \in DOMAIN d.netd.graphs |-> NetworkGraph(d, i)]
    IN  IF ~d.sound THEN Opening("dlc", << >>, NoGraph)
        ELSE IF ~HasBytes(model) \/ NetdRefused(d.netd) \/ \E g \in Range(graphs) : ~GraphAccepted(g) THEN container
        ELSE [Opening("", FlattenSeq([i \in DOMAIN graphs |-> NetworkTensors(d, i)]), graphs[1])
                 EXCEPT !.others = Tail(graphs)]

---------------------------------------------------------------------------
(* jax/mlir_text.py: tokens, brackets, functions and statements *)

\* The first place from i on that holds one of the kinds, or 0.
FindFrom(s, i, kinds) ==
    LET hits == {j \in i..Len(s) : s[j][1] \in kinds}
    IN  IF hits = {} THEN 0 ELSE CHOOSE j \in hits : \A k \in hits : j <= k

\* _matching: the place behind the bracket that closes the one at i, or 0.
Matching(s, i) ==
    LET open == s[i][1]
        close == IF open = "{" THEN "}" ELSE ")"
        depth(j) == Cardinality({k \in i..j : s[k][1] = open}) - Cardinality({k \in i..j : s[k][1] = close})
        hits == {j \in i..Len(s) : depth(j) = 0}
    IN  IF hits = {} THEN 0 ELSE 1 + (CHOOSE j \in hits : \A k \in hits : j <= k)

\* _statements: lines, of which brackets make one.
Statements(s) ==
    LET step(x, t) ==
            LET depth == x.depth + (IF t[1] \in {"{", "("} THEN 1 ELSE IF t[1] \in {"}", ")"} THEN -1 ELSE 0)
            IN  IF t[1] = "nl" /\ x.depth = 0
                THEN [depth |-> depth, now |-> << >>, done |-> Append(x.done, x.now)]
                ELSE [depth |-> depth, now |-> Append(x.now, t), done |-> x.done]
        end == FoldLeft(step, [depth |-> 0, now |-> << >>, done |-> << >>], s)
    IN  SelectSeq(Append(end.done, end.now), LAMBDA x : x # << >>)

\* The loop of _parse_operation that takes the regions out of a statement: a block with a
\* return or an assignment to a value in it.  Any other block is a dictionary, and ends the
\* search.
WithoutRegion(x) ==
    LET brace == FindFrom(x.body, 1, {"{"})
        end == IF brace = 0 THEN 0 ELSE Matching(x.body, brace)
    IN  IF end = 0 THEN x
        ELSE IF \E j \in (brace + 1)..(end - 2) :
                   x.body[j][1] = "return" \/ (x.body[j][1] = "=" /\ x.body[j - 1][1] \in {"%", "%:"})
        THEN [body |-> SubSeq(x.body, 1, brace - 1) \o SubSeq(x.body, end, Len(x.body)), regions |-> x.regions + 1]
        ELSE x

\* A result or an operand as the reader names it: %0:2 is a name of its own, %0#1 is %0.
SsaName(t) == IF t[1] = "%:" THEN <<t[2], t[3]>> ELSE <<t[2], 1>>

\* _parse_operation.
ParseOperation(statement) ==
    With(FoldLeft(LAMBDA y, k : WithoutRegion(y), [body |-> statement, regions |-> 0], statement), LAMBDA x :
    With(FindFrom(x.body, 1, {"="}), LAMBDA equals :
        LET assigned == equals > 1 /\ \A j \in 1..(equals - 1) : x.body[j][1] \in {"%", "%:"}
            name == IF assigned THEN equals + 1 ELSE 1
            colon == FindFrom(x.body, name, {":"})
            head == SubSeq(x.body, name + 1, IF colon = 0 THEN Len(x.body) ELSE colon - 1)
            refers == SelectSeq(head, LAMBDA t : t[1] \in {"%", "%#"})
        IN  IF name > Len(x.body) \/ x.body[name][1] # "word"
            THEN [op |-> "unknown", outs |-> << >>, ins |-> << >>, regions |-> x.regions]
            ELSE [op |-> x.body[name][2], regions |-> x.regions,
                  outs |-> IF assigned THEN [j \in 1..(equals - 1) |-> SsaName(x.body[j])] ELSE << >>,
                  ins |-> [j \in DOMAIN refers |-> SsaName(refers[j])]]))

\* Mutant: the search for a body does not stop at the next function.
BodyBraceAnywhere(s, close) ==
    LET braces == {j \in close..Len(s) : s[j][1] = "{"}
    IN  IF braces = {} THEN 0 ELSE CHOOSE j \in braces : \A k \in braces : j <= k

\* The brace that begins the body of a function: not one in its list of results, and not
\* behind the header of the next function.  0 for a declaration.
BodyBrace(s, close) ==
    LET next == FindFrom(s, close, {"func"})
        limit == IF next = 0 THEN Len(s) ELSE next - 1
        depth(j) == Cardinality({k \in close..j : s[k][1] = "("}) - Cardinality({k \in close..j : s[k][1] = ")"})
        braces == {j \in close..limit : s[j][1] = "{" /\ depth(j) = 0}
    IN  IF braces = {} THEN 0 ELSE CHOOSE j \in braces : \A k \in braces : j <= k

\* Where the function whose header is at f has its parameters and its body.
Span(s, f) ==
    With(FindFrom(s, f, {"("}), LAMBDA open :
    With(IF open = 0 THEN 0 ELSE Matching(s, open), LAMBDA close :
    With(IF close = 0 THEN 0 ELSE BodyBrace(s, close), LAMBDA brace :
        [open |-> open, close |-> close, brace |-> brace, end |-> IF brace = 0 THEN 0 ELSE Matching(s, brace)])))

\* The values a piece of text names.
Named(s) ==
    LET values == SelectSeq(s, LAMBDA t : t[1] \in {"%", "%#"})
    IN  [i \in DOMAIN values |-> SsaName(values[i])]

\* _parse_function: the function, and where to go on.
ParseFunction(s, f) ==
    With(Span(s, f), LAMBDA at :
    With(IF at.end = 0 THEN << >> ELSE Statements(SubSeq(s, at.brace + 1, at.end - 2)), LAMBDA lines :
        LET isReturn(x) == x[1][1] = "return"
            returns == SelectSeq(lines, isReturn)
            operations == SelectSeq(lines, LAMBDA x : ~isReturn(x))
        IN  [raised |-> at.close = 0 \/ (at.brace # 0 /\ at.end = 0),
             name |-> s[FindFrom(s, f, {"@"})][2], public |-> s[f + 1][1] # "private",
             params |-> Named(SubSeq(s, at.open, at.close - 1)),
             operations |-> [i \in DOMAIN operations |-> ParseOperation(operations[i])],
             returns |-> IF returns = << >> THEN << >> ELSE Named(Last(returns)),
             next |-> IF at.brace = 0 THEN at.close ELSE at.end]))

\* The functions of a module's body, one after the other, from where the last one ended.
Functions(body) ==
    LET headers == SelectSeq([i \in DOMAIN body |-> i], LAMBDA i : body[i][1] = "func")
        goesOn(functions, f) == functions = << >> \/ (~Last(functions).raised /\ f >= Last(functions).next)
        step(functions, f) == IF goesOn(functions, f) THEN Append(functions, ParseFunction(body, f)) ELSE functions
    IN  FoldLeft(step, << >>, headers)

\* parse_module: nothing of a text without a module, or whose module does not end.
ParseModule(text) ==
    With(FindFrom(text, FindFrom(text, 1, {"module"}) + 1, {"{"}), LAMBDA brace :
    With(IF FindFrom(text, 1, {"module"}) = 0 \/ brace = 0 THEN 0 ELSE Matching(text, brace), LAMBDA end :
        IF end = 0 THEN << >> ELSE With(SubSeq(text, brace + 1, end - 2), Functions)))

---------------------------------------------------------------------------
(* jax/stablehlo.py *)

\* _convert_function.
ConvertFunction(fn) ==
    LET ops == fn.operations
        mentioned == UNION {Range(ops[i].ins) \cup Range(ops[i].outs) : i \in DOMAIN ops}
    IN  IrGraph([i \in DOMAIN ops |-> IrNode(UnnamedId(i, ops[i].outs), ops[i].op, << >>, ops[i].ins, ops[i].outs, << >>)],
                Range(fn.params) \cup mentioned \cup Range(fn.returns), Range(fn.params), Range(fn.returns))

\* The function the document opens at: the first that is main or public, else the first.
EntryFunction(functions) ==
    LET open == SelectSeq([i \in DOMAIN functions |-> i],
                          LAMBDA i : functions[i].name = "main" \/ functions[i].public)
    IN  IF open = << >> THEN 1 ELSE open[1]

\* _open_stablehlo: bytecode, a text that is no module, or two functions of one name are refused.
OpenStablehlo(m) ==
    With(ParseModule(m.text), LAMBDA functions :
        LET graphs == [i \in DOMAIN functions |-> ConvertFunction(functions[i])]
        IN  IF m.bytecode \/ functions = << >> \/ Last(functions).raised
               \/ \E i, j \in DOMAIN functions : i # j /\ functions[i].name = functions[j].name
            THEN Opening("stablehlo", << >>, NoGraph)
            ELSE [Opening("", << >>, graphs[EntryFunction(functions)])
                     EXCEPT !.others = RemoveAt(graphs, EntryFunction(functions))])

---------------------------------------------------------------------------
(* coreml/package.py *)

BlobAlignment == 8

\* _index_blobs: record after record, up to the first that cannot be believed.
BlobStep(c, x, b) ==
    IF x.ended \/ x.at + 4 > c.size \/ ~b.sentinel \/ b.at + b.size > c.size THEN [x EXCEPT !.ended = TRUE]
    ELSE LET known == b.type \in DOMAIN Bits /\ Bits[b.type] >= 8
             dims == <<IF known THEN b.size \div (Bits[b.type] \div 8) ELSE b.size>>
         IN  [ended |-> FALSE,
              at |-> ((b.at + b.size + BlobAlignment - 1) \div BlobAlignment) * BlobAlignment,
              tensors |-> Append(x.tensors,
                  Tensor(<<"blob", Len(x.tensors), "">>, IF known THEN b.type ELSE "uint8", dims, "external",
                         "weights/weight.bin", b.at, b.size))]

IndexBlobs(c) ==
    IF c.size < 8 \/ c.version # 2 THEN << >>
    ELSE FoldLeft(LAMBDA x, b : BlobStep(c, x, b), [ended |-> FALSE, at |-> BlobAlignment, tensors |-> << >>],
                  c.blobs).tensors

\* _open_package: a manifest that cannot be read, or a header, is only reported.
OpenPackage(c) ==
    IF ~c.model THEN Opening("package", << >>, NoGraph)
    ELSE Opening("", IF c.weights THEN IndexBlobs(c) ELSE << >>, NoGraph)

=============================================================================
