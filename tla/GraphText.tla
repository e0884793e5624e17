------------------------------ MODULE GraphText ------------------------------
(***************************************************************************)
(* DagText on the graphs of NodeGraph: a Dag is saved and loaded in any    *)
(* state that calls can bring it to.                                       *)
(***************************************************************************)
EXTENDS NodeGraph, DagText

(* NodeGraph keeps the operands of a node as multiplicities: its vector    *)
(* has them in one of these orders.                                        *)
Size(b) == Cardinality(UNION {{m} \X (1 .. b[m]) : m \in Node})
Orders(b) == {s \in [1 .. Size(b) -> Elements(b)] : AsBag(s) = b}

\* The operand vectors that the nodes may have.
OperandLists ==
  LET orders == [n \in Node |-> Orders(g.operands[n])]
  IN  {v \in [Node -> UNION {orders[n] : n \in Node}] : \A n \in Node : v[n] \in orders[n]}

\* m_inputs and m_outputs come back, and lead to nodes of their kind.
NamesReturn(loaded, index, nodes) ==
  /\ NamesLoadable(NamesText(inputs, index), nodes)
  /\ NamesLoadable(NamesText(outputs, index), nodes)
  /\ \A e \in NamesText(inputs, index) : loaded.op[e[2] + 1] = "Input"
  /\ \A e \in NamesText(outputs, index) : loaded.op[e[2] + 1] = "Output"

(* A program that is saved and loaded is the program it was, whatever was  *)
(* done to its graph before and in whatever order the sinks are met: the   *)
(* walk from the sinks ends, reaches every node that was not cleaned and   *)
(* no other, writes it once and after its operands, and nodesDeserialize   *)
(* accepts the text; operations, operands in their order and attributes    *)
(* come back.  A named input or output is found (indices.at does not       *)
(* throw) unless it was cleaned, and then named as it was.                 *)
TextRoundTrip ==
  \A v \in OperandLists, sinks \in SetToSeqs(g.sinks) :
     LET dag    == [op |-> kind, operands |-> v]
         text   == NodesText(dag, sinks)
         index  == text.index
         loaded == NodesLoaded(text.nodes)
     IN  /\ text.work = <<>>
         /\ DOMAIN index = g.alive \ retired
         /\ Len(text.nodes) = Cardinality(DOMAIN index)
         /\ Loadable(text.nodes)
         /\ SameGraph(g, loaded.g, index)
         /\ SameOperations(dag, loaded, index)
         /\ \A n \in DOMAIN index : SameAttrs(n, loaded.attrs[index[n] + 1])
         /\ \A e \in inputs \cup outputs : e[2] \in DOMAIN index \cup retired
         /\ (\A e \in inputs \cup outputs : e[2] \notin retired)
              => NamesReturn(loaded, index, text.nodes)
=============================================================================
