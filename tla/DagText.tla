------------------------------ MODULE DagText ------------------------------
(***************************************************************************)
(* What becomes of a node graph in a text (proto/iyfc_serialization.cpp):  *)
(* nodesSerialize walks it from the sinks with an explicit stack and       *)
(* numbers every node after its operands, nodesDeserialize builds a new    *)
(* graph from that list with Dag::makeNode and Node::addOperand.  Every    *)
(* node takes its operation, the order of its operands and its AttrList    *)
(* (dag/node_attr.cpp) with it; the tables of inputs and outputs follow.   *)
(*                                                                         *)
(* What is saved is a record dag: dag.op[n] is the m_op_type of node n, up *)
(* to what the methods tell apart, dag.operands[n] its m_operands, in the  *)
(* order of the vector.                                                    *)
(***************************************************************************)
EXTENDS GraphOps, SequencesExt

CONSTANTS
  Assigned,   \* the attributes that each node was given, in that order
  Slots       \* the slots of the Dag

-----------------------------------------------------------------------------
\* A DenseConstantValue stands for as many slots as the Dag has.
Dense(size, values) == [dense |-> TRUE, size |-> size, values |-> values]

\* DenseConstantValue::expand
Expand(c, slots) == [i \in 1 .. slots |-> c.values[((i - 1) % Len(c.values)) + 1]]

\* A number, an enumerator or a constant, by the alternative of AttrValue it is.
Number(v) == [alternative |-> "uint32", data |-> v]
Type(v) == [alternative |-> "type", data |-> v]
Constant(c) == [alternative |-> "constant", data |-> c]
Int64Constant(c) == [alternative |-> "int64Constant", data |-> c]

\* IYFC_ATTR: the attributes in the order of their keys, with their types.
Alternative ==
  << "uint32",          \* RescaleDivisorAttr
     "uint32",          \* RotationAttr
     "constant",        \* ConstValueAttr
     "int64Constant",   \* ConstValueInt64Attr
     "uint32",          \* Uint32ConstAttr
     "type",            \* TypeAttr
     "uint32",          \* RangeAttr
     "uint32",          \* BoolAttr
     "uint32",          \* EncodeAtScaleAttr
     "uint32" >>        \* EncodeAtLevelAttr

IsValidAttr(key, value) ==
  key \in DOMAIN Alternative /\ value.alternative = Alternative[key]

\* AttrList::has, AttrList::get on a list in the order of the keys.
HasAttr(list, key) == \E i \in DOMAIN list : list[i].key = key
GetAttr(list, key) == list[CHOOSE i \in DOMAIN list : list[i].key = key].value

(* AttrList::set: the list is followed up to the first key that is not     *)
(* smaller; an equal one gives way, a larger one moves on.                 *)
SetAttr(list, key, value) ==
  LET passed == CHOOSE i \in 0 .. Len(list) :
                  /\ \A j \in 1 .. i : list[j].key < key
                  /\ i < Len(list) => list[i + 1].key >= key
      equal  == passed < Len(list) /\ list[passed + 1].key = key
  IN  SubSeq(list, 1, passed) \o <<[key |-> key, value |-> value]>>
        \o SubSeq(list, passed + (IF equal THEN 2 ELSE 1), Len(list))

\* One set after the other.
AttrsSet(sets) ==
  LET list[i \in 0 .. Len(sets)] ==
        IF i = 0 THEN <<>> ELSE SetAttr(list[i - 1], sets[i].key, sets[i].value)
  IN  list[Len(sets)]

\* The attributes of a node.
AttrsOf(n) == AttrsSet(Assigned[n])

-----------------------------------------------------------------------------
\* DenseConstantValue::serialize
ConstantText(c) == [size |-> c.size, values |-> c.values, sparse_indices |-> <<>>]

Null == [dense |-> FALSE]

\* Values without indices are a dense constant, no values a zero, the rest must agree.
ConstantLoaded(t) ==
  IF t.size = 0 \/ (t.values # <<>> /\ Len(t.sparse_indices) \notin {0, Len(t.values)}) THEN Null
  ELSE IF t.values # <<>> /\ t.sparse_indices = <<>> THEN Dense(t.size, t.values)
  ELSE [dense |-> FALSE, size |-> t.size,
        values |-> [i \in DOMAIN t.values |-> <<t.sparse_indices[i], t.values[i]>>]]

IsConstant(value) == value.alternative \in {"constant", "int64Constant"}

\* AttrList::serializeAttr
AttrsText(list) ==
  [i \in DOMAIN list |->
     [key |-> list[i].key,
      value |-> IF IsConstant(list[i].value)
                THEN [list[i].value EXCEPT !.data = ConstantText(@)]
                ELSE list[i].value]]

\* AttrList::loadAttr
ValueLoaded(value) ==
  IF IsConstant(value) THEN [value EXCEPT !.data = ConstantLoaded(@)] ELSE value
AttrsLoaded(text) ==
  AttrsSet([i \in DOMAIN text |-> [key |-> text[i].key, value |-> ValueLoaded(text[i].value)]])

\* nodesDeserialize throws unless each attribute is of the kind of its key.
AttrsLoadable(text) ==
  \A i \in DOMAIN text : IsValidAttr(text[i].key, ValueLoaded(text[i].value))

(* A node is given attributes of the kind of their keys, and constants     *)
(* that stand for some slots.                                              *)
Settable(a) ==
  /\ a = [key |-> a.key, value |-> a.value]
  /\ a.value = [alternative |-> a.value.alternative, data |-> a.value.data]
  /\ IsValidAttr(a.key, a.value)
  /\ IsConstant(a.value) =>
       /\ a.value.data = Dense(a.value.data.size, a.value.data.values)
       /\ a.value.data.size # 0 /\ a.value.data.values # <<>>
ASSUME AssignedAssumption ==
  \A n \in Node :
    /\ Len(Assigned[n]) \in Nat /\ DOMAIN Assigned[n] = 1 .. Len(Assigned[n])
    /\ \A i \in DOMAIN Assigned[n] : Settable(Assigned[n][i])

-----------------------------------------------------------------------------
Entry(visit, n) == [visit |-> visit, node |-> n]

\* A node's message refers to its operands by their indices.
Numbered(index, s) == [i \in DOMAIN s |-> index[s[i]]]

Message(dag, index, n) ==
  [op         |-> dag.op[n],
   operands   |-> Numbered(index, dag.operands[n]),
   attributes |-> AttrsText(AttrsOf(n))]

\* The stack w when n is to be visited, with its operands on top; the message of n.
Expanded(dag, w, rest, n) ==
  LET ops == dag.operands[n] IN
  [work  |-> rest \o <<Entry(FALSE, n)>> \o [i \in DOMAIN ops |-> Entry(TRUE, ops[i])],
   index |-> w.index,
   nodes |-> w.nodes]
Written(dag, w, rest, n) ==
  [work  |-> rest,
   index |-> [m \in DOMAIN w.index \cup {n} |-> IF m = n THEN Len(w.nodes) ELSE w.index[m]],
   nodes |-> Append(w.nodes, Message(dag, w.index, n))]

\* Fault: a node that has its index is written again.
StepRevisits(dag, w) ==
  LET top  == Last(w.work)
      rest == Front(w.work)
  IN  IF top.visit THEN Expanded(dag, w, rest, top.node) ELSE Written(dag, w, rest, top.node)

(* One turn of the loop of nodesSerialize: a node on top of the stack is   *)
(* passed over if it has its index, else its operands come first.          *)
Step(dag, w) ==
  LET top  == Last(w.work)
      rest == Front(w.work)
  IN  IF top.node \in DOMAIN w.index
      THEN [work |-> rest, index |-> w.index, nodes |-> w.nodes]
      ELSE IF top.visit THEN Expanded(dag, w, rest, top.node)
                        ELSE Written(dag, w, rest, top.node)

Turn(dag, w) == IF w.work = <<>> THEN w ELSE Step(dag, w)

(* nodesSerialize, for some order of the set of sinks.  The loop ends: a   *)
(* turn takes an entry from the stack, and puts new ones there for a node  *)
(* that had none of these yet.                                             *)
LongestOperands(dag) == Max({Len(dag.operands[n]) : n \in Node})
TurnsEnough(dag, sinks) == Len(sinks) + MaxNode * (LongestOperands(dag) + 1)
NodesText(dag, sinks) ==
  LET w[i \in 0 .. TurnsEnough(dag, sinks)] ==
        IF i = 0
        THEN [work  |-> [j \in DOMAIN sinks |-> Entry(TRUE, sinks[j])],
              index |-> [n \in {} |-> 0],
              nodes |-> <<>>]
        ELSE Turn(dag, w[i - 1])
  IN  w[TurnsEnough(dag, sinks)]

\* m_inputs or m_outputs, when indices.at finds each of its nodes
NamesText(names, index) == {<<e[1], index[e[2]]>> : e \in names}

-----------------------------------------------------------------------------
\* IYFC_OPS: an operation other than the two is one of seventeen.
IsValidOp(op) == op \in {"Input", "Output", "Op"}

\* nodes.emplace_back(obj->makeNode(op)), then addOperand and loadAttr
NodeLoaded(l, t) ==
  LET n == Len(l.attrs) IN
  [g        |-> AddOperands(NewNode(l.g, n), n, AsBag(t.operands)),
   op       |-> Append(l.op, t.op),
   operands |-> Append(l.operands, t.operands),
   attrs    |-> Append(l.attrs, AttrsLoaded(t.attributes))]

NothingLoaded == [g |-> EmptyGraph, op |-> <<>>, operands |-> <<>>, attrs |-> <<>>]

\* nodesDeserialize, up to the tables of names
NodesLoaded(nodes) ==
  LET l[i \in 0 .. Len(nodes)] ==
        IF i = 0 THEN NothingLoaded ELSE NodeLoaded(l[i - 1], nodes[i])
  IN  l[Len(nodes)]

(* It throws for a message of an operation that is not one, with an        *)
(* operand that is not loaded yet, or with an attribute of another kind.   *)
Loadable(nodes) ==
  \A i \in DOMAIN nodes :
    /\ IsValidOp(nodes[i].op)
    /\ \A m \in ToSet(nodes[i].operands) : m < i - 1
    /\ AttrsLoadable(nodes[i].attributes)

\* nodes.at finds the node of an entry, and emplace refuses none of them.
NamesLoadable(entries, nodes) ==
  /\ \A e \in entries : e[2] < Len(nodes)
  /\ \A e, f \in entries : e[1] = f[1] => e = f

-----------------------------------------------------------------------------
\* The loaded graph is the one that was saved, under the numbers of the text.
SameGraph(g, h, index) ==
  /\ h.alive = {index[n] : n \in DOMAIN index}
  /\ h.sinks = {index[n] : n \in g.sinks}
  /\ h.sources = {index[n] : n \in {m \in DOMAIN index : IsNone(g.operands[m])}}
  /\ \A n, m \in DOMAIN index :
       /\ h.operands[index[n]][index[m]] = g.operands[n][m]
       /\ h.uses[index[m]][index[n]] = g.uses[m][n]

\* So are its operations, and the order of the operands of each.
SameOperations(dag, loaded, index) ==
  \A n \in DOMAIN index :
    /\ loaded.op[index[n] + 1] = dag.op[n]
    /\ loaded.operands[index[n] + 1] = Numbered(index, dag.operands[n])

SameValue(v, w) ==
  /\ v.alternative = w.alternative
  /\ IF IsConstant(v) THEN Expand(v.data, Slots) = Expand(w.data, Slots) ELSE v.data = w.data

\* Every attribute that was set last is found again.
SameAttrs(n, list) ==
  \A key \in DOMAIN Alternative :
     LET sets == {i \in DOMAIN Assigned[n] : Assigned[n][i].key = key} IN
     /\ HasAttr(list, key) <=> sets # {}
     /\ sets # {} => SameValue(Assigned[n][Max(sets)].value, GetAttr(list, key))
=============================================================================
