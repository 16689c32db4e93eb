---------------------------- MODULE EditCommands ----------------------------
(***************************************************************************)
(* The immutable IR graph and the reversible commands on it: what the      *)
(* constructors of ir/core.py accept and what each apply function of       *)
(* editing/commands.py makes of a document.                                *)
(*                                                                         *)
(* A document is a record: nodes in stored order, the declared values, the *)
(* graph inputs and outputs, the initializers, and the tensors.  Ids and   *)
(* names are tuples: an id made from a name is that name, and a digest of  *)
(* a revision and a port is the tuple of what is hashed.                   *)
(***************************************************************************)
EXTENDS Integers, Sequences, FiniteSets, SequencesExt

NoType  == "none"     \* Value.element_type is None
NoShape == <<-99>>    \* Value.shape is None; a dimension below 0 is a symbol
NoName  == << >>      \* the name of the placeholder of an omitted input

---------------------------------------------------------------------------
(* ir/core.py: derived links of a graph *)

NodeIds(g) == {g.nodes[i].id : i \in DOMAIN g.nodes}

Position(g, n) == CHOOSE i \in DOMAIN g.nodes : g.nodes[i].id = n

NodeOf(g, n) == g.nodes[Position(g, n)]

HasValue(g, v) == v \in DOMAIN g.values

\* Graph.producer: the ids of the nodes that produce v, at most one in a graph the constructor accepts.
Producers(g, v) ==
    {g.nodes[i].id : i \in {j \in DOMAIN g.nodes : v \in Range(g.nodes[j].outs)}}

\* Graph.consumers: the ports <<node, input>> that read v.
Consumers(g, v) ==
    UNION {{<<g.nodes[i].id, p>> : p \in {q \in DOMAIN g.nodes[i].ins : g.nodes[i].ins[q] = v}} :
              i \in DOMAIN g.nodes}

\* Graph.__init__ and Node.__post_init__: what makes them raise IrError.
GraphAccepted(g) ==
    /\ Cardinality(NodeIds(g)) = Len(g.nodes)
    /\ \A i \in DOMAIN g.nodes :
          /\ Range(g.nodes[i].ins) \cup Range(g.nodes[i].outs) \subseteq DOMAIN g.values
          /\ \A a, b \in DOMAIN g.nodes[i].attrs :
                g.nodes[i].attrs[a].name = g.nodes[i].attrs[b].name => a = b
          /\ \A p, q \in DOMAIN g.nodes[i].outs : g.nodes[i].outs[p] = g.nodes[i].outs[q] => p = q
    /\ \A v \in DOMAIN g.values : Cardinality(Producers(g, v)) <= 1
    /\ \A v \in g.inputs : HasValue(g, v) /\ Producers(g, v) = {}
    /\ g.outputs \subseteq DOMAIN g.values

---------------------------------------------------------------------------
(* editing/commands.py: rewriting a graph *)

\* _replace_node: the node with the id of n gives its place to n.
WithNode(g, n) ==
    [g EXCEPT !.nodes = [i \in DOMAIN g.nodes |-> IF g.nodes[i].id = n.id THEN n ELSE g.nodes[i]]]

WithInput(g, n, p, v) == WithNode(g, [NodeOf(g, n) EXCEPT !.ins[p] = v])

AttrNames(n) == {n.attrs[i].name : i \in DOMAIN n.attrs}

AttrOf(n, name) == SelectSeq(n.attrs, LAMBDA a : a.name = name)

Declared(g, added) ==
    [v \in DOMAIN g.values \cup DOMAIN added |->
        IF v \in DOMAIN added THEN added[v] ELSE g.values[v]]

\* What apply_command requires of the document before it changes anything.
Precondition(g, c) ==
    CASE c.kind = "replace"   -> TRUE
      [] c.kind = "resize"    -> /\ c.tensor \in DOMAIN g.tensors
                                 /\ g.tensors[c.tensor] = c.before
                                 /\ \A v \in DOMAIN c.values : HasValue(g, v)
      [] c.kind = "rename"    -> c.node \in NodeIds(g) /\ NodeOf(g, c.node).name = c.before
      [] c.kind = "attribute" -> /\ c.node \in NodeIds(g)
                                 /\ AttrOf(NodeOf(g, c.node), c.name) = c.before
      [] c.kind = "operator"  -> c.node \in NodeIds(g) /\ NodeOf(g, c.node).op = c.before
      [] c.kind = "reconnect" -> /\ c.node \in NodeIds(g)
                                 /\ c.port \in DOMAIN NodeOf(g, c.node).ins
                                 /\ NodeOf(g, c.node).ins[c.port] = c.before
      [] c.kind = "insert"    -> /\ c.target \in NodeIds(g)
                                 /\ c.port \in DOMAIN NodeOf(g, c.target).ins
                                 /\ NodeOf(g, c.target).ins[c.port] = c.source
      [] c.kind = "remove"    -> /\ c.target \in NodeIds(g)
                                 /\ c.port \in DOMAIN NodeOf(g, c.target).ins
                                 /\ NodeOf(g, c.target).ins[c.port] = c.output
      [] c.kind = "quantize"  -> /\ c.tensor \in g.inits
                                 /\ \A v \in DOMAIN c.values :
                                       ~HasValue(g, v) /\ v \notin DOMAIN g.tensors
                                 /\ {c.quant.id, c.dequant.id} \cap NodeIds(g) = {}
                                 /\ \A port \in c.ports :
                                       /\ port[1] \in NodeIds(g)
                                       /\ NodeOf(g, port[1]).ins[port[2]] = c.source

ApplyResize(g, c) ==
    [g EXCEPT !.values = Declared(g, c.values), !.tensors[c.tensor] = c.after]

ApplyRename(g, c) == WithNode(g, [NodeOf(g, c.node) EXCEPT !.name = c.after])

\* The old attribute is taken out and the new one appended: it changes its place.
ApplyAttribute(g, c) ==
    WithNode(g, [NodeOf(g, c.node) EXCEPT
        !.attrs = SelectSeq(@, LAMBDA a : a.name # c.name) \o c.after])

ApplyOperator(g, c) == WithNode(g, [NodeOf(g, c.node) EXCEPT !.op = c.after])

ApplyReconnect(g, c) == WithInput(g, c.node, c.port, c.after)

\* The new node goes directly before its consumer.
ApplyInsert(g, c) ==
    LET wired == WithInput(g, c.target, c.port, c.output)
    IN  [wired EXCEPT !.nodes  = InsertAt(@, Position(g, c.target), c.node),
                      !.values = Declared(g, c.values)]

ApplyRemove(g, c) ==
    LET wired == WithInput(g, c.target, c.port, c.source)
    IN  [wired EXCEPT !.nodes  = SelectSeq(@, LAMBDA n : n.id # c.node.id),
                      !.values = [v \in DOMAIN @ \ {c.output} |-> @[v]]]

\* The two nodes go before the first consumer in stored order, and every port reads what they produce.
ApplyQuantize(g, c) ==
    LET consumer(i) == \E port \in c.ports : port[1] = g.nodes[i].id
        first == CHOOSE i \in DOMAIN g.nodes :
                     consumer(i) /\ \A j \in 1..(i - 1) : ~consumer(j)
        wired(n) == [n EXCEPT !.ins = [p \in DOMAIN @ |->
                         IF <<n.id, p>> \in c.ports THEN c.dequant.outs[1] ELSE @[p]]]
        nodes == [i \in DOMAIN g.nodes |-> wired(g.nodes[i])]
    IN  [g EXCEPT !.nodes   = SubSeq(nodes, 1, first - 1) \o <<c.quant, c.dequant>>
                                \o SubSeq(nodes, first, Len(nodes)),
                  !.values  = Declared(g, c.values),
                  !.inits   = @ \cup DOMAIN c.tensors,
                  !.tensors = [t \in DOMAIN @ \cup DOMAIN c.tensors |->
                                  IF t \in DOMAIN c.tensors THEN c.tensors[t] ELSE @[t]]]

\* apply_command: dispatch on the class of the command.
Apply(g, c) ==
    CASE c.kind = "replace"   -> g
      [] c.kind = "resize"    -> ApplyResize(g, c)
      [] c.kind = "rename"    -> ApplyRename(g, c)
      [] c.kind = "attribute" -> ApplyAttribute(g, c)
      [] c.kind = "operator"  -> ApplyOperator(g, c)
      [] c.kind = "reconnect" -> ApplyReconnect(g, c)
      [] c.kind = "insert"    -> ApplyInsert(g, c)
      [] c.kind = "remove"    -> ApplyRemove(g, c)
      [] c.kind = "quantize"  -> ApplyQuantize(g, c)

\* command_target: the entity whose contract the validation looks at.
Touched(c) ==
    CASE c.kind \in {"rename", "attribute", "operator", "reconnect"} -> c.node
      [] c.kind \in {"insert"} -> c.node.id
      [] c.kind = "remove"     -> c.target

=============================================================================
