------------------------------ MODULE NodeGraph ------------------------------
(***************************************************************************)
(* The node graph that a Dag owns (dag/node.cpp and the node factory of    *)
(* dag/iyfc_dag.cpp): construction and destruction of nodes, the methods   *)
(* that change operands and uses, and the root sets m_sources and m_sinks  *)
(* from which every traversal, and the serializer, starts.                 *)
(*                                                                         *)
(* Every method may be called in any state, by the expression builder, by  *)
(* a pass or through the python module, as long as the caller does not ask *)
(* for a cycle: the methods themselves never look for one.                 *)
(***************************************************************************)
EXTENDS GraphOps

CONSTANTS Vector,         \* bound: the operand vectors that callers build
          Name            \* names of inputs and of outputs

ASSUME VectorAssumption == Vector \subseteq Bag

VARIABLES
  g,          \* the graph record of GraphOps
  next,       \* Dag::m_next_node_index
  kind,       \* m_op_type of the nodes made so far, up to what the methods tell apart
  inputs,     \* Dag::m_inputs, as a set of <<name, node>>
  outputs,    \* Dag::m_outputs, likewise
  detached,   \* history: nodes emptied by eraseAllOperand and given no operand since
  retired     \* history: nodes taken out of m_sinks by the clean pass and not re-entered

vars == <<g, next, kind, inputs, outputs, detached, retired>>

Kind == {"Unmade", "Input", "Output", "Op"}

TypeOK ==
  /\ g \in [alive : SUBSET Node, operands : [Node -> Bag], uses : [Node -> Bag],
            sources : SUBSET Node, sinks : SUBSET Node]
  /\ next \in 0 .. MaxNode
  /\ kind \in [Node -> Kind]
  /\ inputs \in SUBSET (Name \X Node)
  /\ outputs \in SUBSET (Name \X Node)
  /\ detached \in SUBSET Node
  /\ retired \in SUBSET Node

Init ==
  /\ g = EmptyGraph
  /\ next = 0
  /\ kind = [n \in Node |-> "Unmade"]
  /\ inputs = {} /\ outputs = {}
  /\ detached = {} /\ retired = {}

-----------------------------------------------------------------------------
\* What a caller may pass as an operand: a node it holds that is not an output.
Usable(m) == m \in g.alive /\ kind[m] # "Output"
Holdable(b) == \A m \in Node : b[m] > 0 => Usable(m)

Allocate(k) ==   \* Dag::allocateIndex
  /\ next < MaxNode
  /\ next' = next + 1
  /\ kind' = [kind EXCEPT ![next] = k]

MakeNode(b) ==
  /\ Holdable(b)
  /\ Allocate("Op")
  /\ LET fresh == NewNode(g, next)
     IN  g' = IF IsNone(b) THEN fresh ELSE SetOperands(fresh, next, b)
  /\ retired' = retired \ Elements(b)
  /\ UNCHANGED <<inputs, outputs, detached>>

\* emplace: the first node with a name stays, a second one is not registered
MakeInput(name) ==
  /\ Allocate("Input")
  /\ g' = NewNode(g, next)
  /\ inputs' = IF \E m \in Node : <<name, m>> \in inputs
               THEN inputs ELSE inputs \cup {<<name, next>>}
  /\ UNCHANGED <<outputs, detached, retired>>

\* A second output with a name is destroyed when setOutput returns.
SetOutput(name, m) ==
  /\ Usable(m)
  /\ Allocate("Output")
  /\ LET made == SetOperands(NewNode(g, next), next, One(m))
     IN  IF \E o \in Node : <<name, o>> \in outputs
         THEN g' = DestroyNode(made, next) /\ UNCHANGED outputs
         ELSE g' = made /\ outputs' = outputs \cup {<<name, next>>}
  /\ retired' = retired \ {m}
  /\ UNCHANGED <<inputs, detached>>

(* The last Expr of an input node that lost its name is dropped: nothing   *)
(* else owns it, because the registry keeps operations only.               *)
DropInput(n) ==
  /\ n \in g.alive /\ kind[n] = "Input"
  /\ \A name \in Name : <<name, n>> \notin inputs
  /\ \A u \in Node : g.operands[u][n] = 0
  /\ g' = DestroyNode(g, n)
  /\ detached' = detached \ {n}
  /\ retired' = retired \ {n}
  /\ UNCHANGED <<next, kind, inputs, outputs>>

-----------------------------------------------------------------------------
IsOp(n) == n \in g.alive /\ kind[n] = "Op"

\* The passes rewire nodes that a traversal reached, never a cleaned one.
Add(n, m) ==
  /\ IsOp(n) /\ n \notin retired /\ Usable(m)
  /\ ~DependsOn(g, m, n)
  /\ [g.operands[n] EXCEPT ![m] = @ + 1] \in Vector
  /\ g' = AddOperand(g, n, m)
  /\ detached' = detached \ {n}
  /\ retired' = retired \ {m}
  /\ UNCHANGED <<next, kind, inputs, outputs>>

\* Fault: eraseOperand does not look whether it found the operand.
EraseUnfound(n, m) ==
  /\ IsOp(n)
  /\ g' = EraseOperand(g, n, m)
  /\ UNCHANGED <<next, kind, inputs, outputs, detached, retired>>

Erase(n, m) ==
  /\ IsOp(n)
  /\ g.operands[n][m] > 0
  /\ g' = EraseOperand(g, n, m)
  /\ UNCHANGED <<next, kind, inputs, outputs, detached, retired>>

EraseAll(n) ==
  /\ IsOp(n)
  /\ ~IsNone(g.operands[n])
  /\ g' = EraseAllOperand(g, n)
  /\ detached' = detached \cup {n}
  /\ UNCHANGED <<next, kind, inputs, outputs, retired>>

Set(n, b) ==
  /\ IsOp(n) /\ n \notin retired /\ Holdable(b)
  /\ \A m \in Node : b[m] > 0 => ~DependsOn(g, m, n)
  /\ g' = SetOperands(g, n, b)
  /\ detached' = detached \ {n}
  /\ retired' = retired \ Elements(b)
  /\ UNCHANGED <<next, kind, inputs, outputs>>

\* replaceAllUsesWith, replaceOtherUsesWith, and replaceOperand on one user
Replace(old, new, S) ==
  /\ Usable(old) /\ Usable(new) /\ old # new
  /\ \A u \in S : g.uses[old][u] > 0 /\ ~DependsOn(g, new, u)
  /\ g' = ReplaceUses(g, old, new, S)
  /\ \A u \in S : g'.operands[u] \in Vector
  /\ retired' = IF S = {} THEN retired ELSE retired \ {new}
  /\ UNCHANGED <<next, kind, inputs, outputs, detached>>

\* CleanNodeHandler, in a compile or an execution (all = FALSE) or a release (TRUE)
Clean(n, all) ==
  /\ n \in g.alive
  /\ IsNone(g.uses[n])
  /\ all \/ kind[n] = "Op"
  /\ g' = CleanNode(g, n)
  /\ detached' = detached \cup {n}
  /\ retired' = retired \cup {n}
  /\ UNCHANGED <<next, kind, inputs, outputs>>

Next ==
  \/ \E b \in Vector : MakeNode(b)
  \/ \E name \in Name : MakeInput(name)
  \/ \E name \in Name, m \in Node : SetOutput(name, m)
  \/ \E n \in Node : DropInput(n)
  \/ \E n, m \in Node : Add(n, m)
  \/ \E n, m \in Node : Erase(n, m)
  \/ \E n \in Node : EraseAll(n)
  \/ \E n \in Node, b \in Vector : Set(n, b)
  \/ \E old, new \in Node, S \in SUBSET Node : Replace(old, new, S)
  \/ \E n \in Node, all \in BOOLEAN : Clean(n, all)

Spec == Init /\ [][Next]_vars
-----------------------------------------------------------------------------
(* addUse and eraseUse keep the two directions of every edge together:     *)
(* whatever sequence of calls, duplicates included, a node occurs in the   *)
(* use list of m as often as m occurs among its operands.                  *)
UsesMirrorOperands ==
  \A n, m \in Node : g.uses[m][n] = g.operands[n][m]

(* m_uses and the root sets are raw pointers: none of them may outlive its *)
(* node, on the paths where a node is destroyed while the Dag is in use    *)
(* (a second output or input with a name).                                 *)
NoDanglingPointer ==
  /\ g.sources \cup g.sinks \subseteq g.alive
  /\ \A n, m \in Node : g.operands[n][m] > 0 \/ g.uses[m][n] > 0
                          => n \in g.alive /\ m \in g.alive

(* m_sinks, where backward passes and the serializer start, is the set of  *)
(* live nodes without a use, less those the clean pass removed.            *)
SinksExact ==
  g.sinks = {n \in g.alive : IsNone(g.uses[n])} \ retired

(* m_sources, where forward passes and the executors start, is the set of  *)
(* live nodes without operands, less those that eraseAllOperand emptied.   *)
SourcesExact ==
  g.sources = {n \in g.alive : IsNone(g.operands[n])} \ detached

(* An output node has exactly one operand until the Dag is released, the   *)
(* arg_size == 1 that the executors demand, however its operand is         *)
(* replaced by the passes.                                                 *)
OutputsHaveOneOperand ==
  \A e \in outputs :
     e[2] \in retired \/ \E m \in Node : g.operands[e[2]] = One(m)
=============================================================================
