------------------------------ MODULE GraphOps ------------------------------
(***************************************************************************)
(* The edge bookkeeping of dag/node.cpp as operators on a graph record     *)
(*                                                                         *)
(*   [alive, operands, uses, sources, sinks]                               *)
(*                                                                         *)
(* A node is its m_index, a number below MaxNode.  The two vectors of a    *)
(* node, m_operands and m_uses, are kept as multiplicities: operands[n][m] *)
(* is how often m occurs in n->m_operands, uses[m][n] how often n occurs   *)
(* in m->m_uses.  The order of the elements is the data that none of these *)
(* methods reads.  The two sides and the two root sets are updated         *)
(* separately, as the code does: nothing here makes them agree.            *)
(***************************************************************************)
EXTENDS Naturals, FiniteSets

CONSTANT MaxNode          \* bound on the number of nodes ever constructed
ASSUME MaxNodeAssumption == MaxNode \in Nat \ {0}

Node == 0 .. (MaxNode - 1)

\* A vector of nodes, seen as a multiset.
Bag == [Node -> Nat]
NoNodes == [m \in Node |-> 0]
One(n) == [m \in Node |-> IF m = n THEN 1 ELSE 0]

\* A vector of nodes in some order is a sequence; as a multiset:
AsBag(s) == [m \in Node |-> Cardinality({i \in DOMAIN s : s[i] = m})]

\* vector::empty(), and the nodes that occur in a vector
IsNone(b) == \A m \in Node : b[m] = 0
Elements(b) == {m \in Node : b[m] > 0}

EmptyGraph == [alive    |-> {},
               operands |-> [n \in Node |-> NoNodes],
               uses     |-> [n \in Node |-> NoNodes],
               sources  |-> {},
               sinks    |-> {}]

-----------------------------------------------------------------------------
(* m->addUse(n), b[m] times for every m: the first use takes m out of the  *)
(* sinks.                                                                  *)
UsesPlus(uses, n, b) ==
  [m \in Node |-> [uses[m] EXCEPT ![n] = @ + b[m]]]

SinksPlus(sinks, uses, b) ==
  sinks \ {m \in Node : b[m] > 0 /\ IsNone(uses[m])}

\* Fault: eraseUse takes out every occurrence (std::remove without a stop).
UsesMinusEvery(uses, n, b) ==
  [m \in Node |-> [uses[m] EXCEPT ![n] = IF b[m] > 0 THEN 0 ELSE @]]

\* Fault: the last eraseUse does not put the node back into the sinks.
SinksMinusForgets(sinks, uses, n, b) == sinks

(* m->eraseUse(n), b[m] times for every m: each call removes one           *)
(* occurrence if there is one, and the last removal puts m in the sinks.   *)
UsesMinus(uses, n, b) ==
  [m \in Node |-> [uses[m] EXCEPT ![n] = IF @ > b[m] THEN @ - b[m] ELSE 0]]

SinksMinus(sinks, uses, n, b) ==
  sinks \cup {m \in Node : /\ b[m] > 0
                           /\ uses[m][n] > 0
                           /\ IsNone(UsesMinus(uses, n, b)[m])}

-----------------------------------------------------------------------------
\* Node::Node
NewNode(g, n) ==
  [alive    |-> g.alive \cup {n},
   operands |-> [g.operands EXCEPT ![n] = NoNodes],
   uses     |-> [g.uses EXCEPT ![n] = NoNodes],
   sources  |-> g.sources \cup {n},
   sinks    |-> g.sinks \cup {n}]

\* Fault: the destructor does not leave the use lists of its operands.
DestroyLeavesUses(g, n) ==
  [alive    |-> g.alive \ {n},
   operands |-> [g.operands EXCEPT ![n] = NoNodes],
   uses     |-> g.uses,
   sources  |-> g.sources \ {n},
   sinks    |-> g.sinks \ {n}]

\* Node::~Node, then the release of the strong references m_operands holds
DestroyNode(g, n) ==
  LET ops == g.operands[n] IN
  [alive    |-> g.alive \ {n},
   operands |-> [g.operands EXCEPT ![n] = NoNodes],
   uses     |-> UsesMinus(g.uses, n, ops),
   sources  |-> IF IsNone(ops) THEN g.sources \ {n} ELSE g.sources,
   sinks    |-> LET s == SinksMinus(g.sinks, g.uses, n, ops)
                IN  IF IsNone(g.uses[n]) THEN s \ {n} ELSE s]

\* Node::addOperand
AddOperand(g, n, m) ==
  [alive    |-> g.alive,
   operands |-> [g.operands EXCEPT ![n][m] = @ + 1],
   uses     |-> UsesPlus(g.uses, n, One(m)),
   sources  |-> IF IsNone(g.operands[n]) THEN g.sources \ {n} ELSE g.sources,
   sinks    |-> SinksPlus(g.sinks, g.uses, One(m))]

\* addOperand(m), b[m] times for every m
AddOperands(g, n, b) ==
  [alive    |-> g.alive,
   operands |-> [g.operands EXCEPT ![n] = [m \in Node |-> @[m] + b[m]]],
   uses     |-> UsesPlus(g.uses, n, b),
   sources  |-> IF IsNone(b) THEN g.sources ELSE g.sources \ {n},
   sinks    |-> SinksPlus(g.sinks, g.uses, b)]

\* Fault: eraseOperand forgets that the node may have become a source.
EraseForgetsSource(g, n, m) ==
  [alive    |-> g.alive,
   operands |-> [g.operands EXCEPT ![n][m] = @ - 1],
   uses     |-> UsesMinus(g.uses, n, One(m)),
   sources  |-> g.sources,
   sinks    |-> SinksMinus(g.sinks, g.uses, n, One(m))]

\* Node::eraseOperand, when it finds the operand
EraseOperand(g, n, m) ==
  LET ops == [g.operands[n] EXCEPT ![m] = @ - 1] IN
  [alive    |-> g.alive,
   operands |-> [g.operands EXCEPT ![n] = ops],
   uses     |-> UsesMinus(g.uses, n, One(m)),
   sources  |-> IF IsNone(ops) THEN g.sources \cup {n} ELSE g.sources,
   sinks    |-> SinksMinus(g.sinks, g.uses, n, One(m))]

\* Node::eraseAllOperand: unlike eraseOperand it leaves the sources alone
EraseAllOperand(g, n) ==
  [alive    |-> g.alive,
   operands |-> [g.operands EXCEPT ![n] = NoNodes],
   uses     |-> UsesMinus(g.uses, n, g.operands[n]),
   sources  |-> g.sources,
   sinks    |-> SinksMinus(g.sinks, g.uses, n, g.operands[n])]

\* Node::setOperands
SetOperands(g, n, b) ==
  LET old   == g.operands[n]
      uses1 == UsesMinus(g.uses, n, old)
      src1  == IF IsNone(old) THEN g.sources \ {n} ELSE g.sources
  IN  [alive    |-> g.alive,
       operands |-> [g.operands EXCEPT ![n] = b],
       uses     |-> UsesPlus(uses1, n, b),
       sources  |-> IF IsNone(b) THEN src1 \cup {n} ELSE src1,
       sinks    |-> SinksPlus(SinksMinus(g.sinks, g.uses, n, old), uses1, b)]

\* Fault: the new operand is added, the old one is not erased.
ReplaceKeepsOld(g, old, new, S) ==
  LET moved == [u \in Node |-> IF u \in S THEN g.operands[u][old] ELSE 0]
  IN  [alive    |-> g.alive,
       operands |-> [u \in Node |-> [g.operands[u] EXCEPT ![new] = @ + moved[u]]],
       uses     |-> [g.uses EXCEPT ![new] = [u \in Node |-> @[u] + moved[u]]],
       sources  |-> g.sources,
       sinks    |-> g.sinks \ {new}]

(* Node::replaceUsesWithIf: every use in S that has `old' among its        *)
(* operands has it replaced by `new' (Node::replaceOperand).               *)
ReplaceUses(g, old, new, S) ==
  LET moved == [u \in Node |-> IF u \in S THEN g.operands[u][old] ELSE 0]
      left  == [u \in Node |-> IF g.uses[old][u] > moved[u]
                               THEN g.uses[old][u] - moved[u] ELSE 0]
  IN  [alive    |-> g.alive,
       operands |-> [u \in Node |->
                       [g.operands[u] EXCEPT ![old] = @ - moved[u],
                                             ![new] = @ + moved[u]]],
       uses     |-> [g.uses EXCEPT ![old] = left,
                                   ![new] = [u \in Node |-> @[u] + moved[u]]],
       sources  |-> g.sources,
       sinks    |-> (g.sinks \cup (IF IsNone(left) /\ ~IsNone(g.uses[old])
                                   THEN {old} ELSE {}))
                      \ (IF IsNone(g.uses[new]) /\ ~IsNone(moved)
                         THEN {new} ELSE {})]

\* Fault: a cleaned node stays among the sources.
CleanKeepsSource(g, n) ==
  LET h == EraseAllOperand(g, n) IN [h EXCEPT !.sinks = @ \ {n}]

\* CleanNodeHandler on a node it cleans: eraseAllOperand, eraseSinks, eraseSource
CleanNode(g, n) ==
  LET h == EraseAllOperand(g, n) IN
  [alive    |-> h.alive,
   operands |-> h.operands,
   uses     |-> h.uses,
   sources  |-> h.sources \ {n},
   sinks    |-> h.sinks \ {n}]

-----------------------------------------------------------------------------
(* n depends on m: every set that contains n and the operands of its       *)
(* members contains m.                                                     *)
Closed(g, S) == \A x \in S : \A y \in Node : g.operands[x][y] > 0 => y \in S
DependsOn(g, n, m) == \A S \in SUBSET Node : n \in S /\ Closed(g, S) => m \in S
=============================================================================
