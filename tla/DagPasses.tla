----------------------------- MODULE DagPasses -----------------------------
(***************************************************************************)
(* The traversals of daghandler/ that every decision runs on a Dag, each   *)
(* one DagTraversal pass that visits one node per step:                    *)
(*                                                                         *)
(*   Clean    CleanNodeHandler, backward: drops unused operations          *)
(*   Release  the same with m_clean_all, when a Dag is released            *)
(*   Type     TypeHandler, forward: cipher or raw                          *)
(*   Reduce   Reduction, forward: a + (b + c) becomes one n-ary sum        *)
(*   Expand   ReductionLogExpander, forward: back to binary, balanced      *)
(*   Depth    MultDepthCnt, forward: multiplicative depth of every node    *)
(*   Fold     ConstantHandler, forward: constants of constants             *)
(*                                                                         *)
(* A pass rewrites the graph under the very traversal that drives it: what *)
(* is ready, who is whose predecessor and the roots all change between two *)
(* visits.                                                                 *)
(***************************************************************************)
EXTENDS Traversal, Sequences, FiniteSets, FiniteSetsExt

CONSTANTS
  Programs,   \* the graphs that passes start from: [op, operands, type, payload]
  Passes,     \* the passes in the order in which they run
  Values,     \* what a node can denote: a plaintext
  Plus, Zero, Times, Unit, Negative     \* the operations of the scheme on plaintexts

\* Sums and products may be regrouped and reordered, as Reduction and its expander do.
Regroups(V, f, e) ==
  /\ e \in V
  /\ \A x, y \in V : f[x][y] \in V /\ f[x][y] = f[y][x]
  /\ \A x, y, z \in V : f[f[x][y]][z] = f[x][f[y][z]]
  /\ \A x \in V : f[e][x] = x

ASSUME ValuesAssumption ==
  /\ Regroups(Values, Plus, Zero) /\ Regroups(Values, Times, Unit)
  /\ \A x \in Values : Negative[x] \in Values

Reducible == {"Add", "Mul"}
Leaves == {"Input", "Constant"}

-----------------------------------------------------------------------------
(* What an operation that takes any number of operands makes of their      *)
(* values; and the size of a multiset.                                     *)
Accumulate(f, e, x, k) ==
  LET upto[i \in 0 .. k] == IF i = 0 THEN e ELSE f[upto[i - 1]][x[i - 1]]
  IN  upto[k]
Repeat(f, e, x, k) == Accumulate(f, e, [i \in 0 .. (k - 1) |-> x], k)
Gather(f, e, b, val) ==
  Accumulate(f, e, [m \in Node |-> Repeat(f, e, val[m], b[m])], MaxNode)

Sum == [x \in Nat |-> [y \in Nat |-> x + y]]
Total(b) == Accumulate(Sum, 0, b, MaxNode)

(* The factory makes a node after its operands, and indices one after the  *)
(* other; a sum or a product is made of two.                               *)
ASSUME ProgramsAssumption ==
  \A p \in Programs :
    /\ p.operands \in [Node -> Bag] /\ p.payload \in [Node -> Values] /\ DOMAIN p.op = Node
    /\ \E k \in 0 .. MaxNode : \A n \in Node : p.op[n] # "None" <=> n < k
    /\ \A n, m \in Node : p.operands[n][m] > 0 => m < n /\ p.op[n] # "None"
    /\ \A n \in Node : p.op[n] # "None" => (p.op[n] \in Leaves <=> IsNone(p.operands[n]))
    /\ \A n \in Node : p.op[n] \in Reducible => Total(p.operands[n]) = 2

(* AloDecision::InitDagForDecision: nothing merges again what was made     *)
(* binary, and a depth is counted on the types of the graph as it is.      *)
ASSUME PassesAssumption ==
  /\ Len(Passes) \in Nat \ {0}
  /\ \A i, j \in 1 .. Len(Passes) : Passes[i] = "Expand" /\ Passes[j] = "Reduce" => j < i
  /\ \A j \in 1 .. Len(Passes) : Passes[j] = "Depth" => j > 1 /\ Passes[j - 1] = "Type"

VARIABLES
  g,          \* the graph record of GraphOps
  next,       \* Dag::m_next_node_index
  op,         \* m_op_type
  payload,    \* the value of an input, or the value of a constant
  types,      \* NodeMap<DataType> that TypeHandler fills
  scale,      \* ReductionLogExpander::m_scale
  depth,      \* MultDepthCnt::m_cnt
  at,         \* which pass runs
  t,          \* its traversal record
  seen,       \* history: the nodes the pass has visited
  entry,      \* history: the nodes the pass has to visit
  start       \* history: the program

data == <<next, op, payload, types, scale, depth>>
vars == <<g, data, at, t, seen, entry, start>>

Forward(pass) == pass \notin {"Clean", "Release"}

-----------------------------------------------------------------------------
(* What a node computes: the value that every rewriting has to preserve.   *)
Combine(name, b, val) ==
  CASE name = "Mul"    -> Gather(Times, Unit, b, val)
    [] name = "Negate" -> Negative[Gather(Plus, Zero, b, val)]
    [] OTHER           -> Gather(Plus, Zero, b, val)
Value(gr, ops, pay) ==
  LET val[n \in Node] ==
        IF IsNone(gr.operands[n]) THEN pay[n]
        ELSE Combine(ops[n], gr.operands[n], val)
  IN  val

-----------------------------------------------------------------------------
\* The graph of a program, as the factory of dag/iyfc_dag.cpp leaves it.
Loaded(p) ==
  LET made == {n \in Node : p.op[n] # "None"} IN
  [alive    |-> made,
   operands |-> p.operands,
   uses     |-> [m \in Node |-> [n \in Node |-> p.operands[n][m]]],
   sources  |-> {n \in made : IsNone(p.operands[n])},
   sinks    |-> {n \in made : \A u \in Node : p.operands[u][n] = 0}]

\* Nodes that a pass can reach from its roots: not those emptied by an earlier one.
Attached(gr) == {n \in gr.alive : n \in gr.sources \/ ~IsNone(gr.operands[n])}

Init ==
  /\ start \in Programs
  /\ g = Loaded(start)
  /\ next = Cardinality(g.alive)
  /\ op = start.op
  /\ payload = start.payload
  /\ types = [n \in Node |-> "None"]
  /\ scale = [n \in Node |-> 0]
  /\ depth = [n \in Node |-> 0]
  /\ at = 1
  /\ t = Begin(g, Forward(Passes[1]))
  /\ seen = {}
  /\ entry = Attached(g)

\* The next pass begins: a new DagTraversal::traverse with new NodeMaps.
StartPass ==
  /\ t.todo = {}
  /\ at < Len(Passes)
  /\ at' = at + 1
  /\ t' = Begin(g, Forward(Passes[at']))
  /\ seen' = {}
  /\ entry' = Attached(g)
  /\ scale' = [n \in Node |-> 0]
  /\ depth' = [n \in Node |-> 0]
  /\ UNCHANGED <<g, next, op, payload, types, start>>

\* What every visit does around its rewriter.
Visit(pass, n, keep) ==
  /\ Passes[at] = pass
  /\ n \in t.todo
  /\ t' = Advance(t, Forward(pass), n, g, g', keep)
  /\ seen' = seen \cup {n}
  /\ UNCHANGED <<at, entry, start>>

-----------------------------------------------------------------------------
\* Fault: constants are not cleaned.
CleanableButConstants(n) == op[n] \notin {"Output", "Input", "Constant"}

\* CleanNodeHandler::isCanCleanType
Cleanable(n) == op[n] \notin {"Output", "Input"}

CleanVisit(n) ==
  LET dropped == \/ Passes[at] = "Release"
                 \/ IsNone(g.uses[n]) /\ Cleanable(n)
  IN  /\ g' = IF dropped THEN CleanNode(g, n) ELSE g
      /\ Visit("Clean", n, ~dropped) \/ Visit("Release", n, ~dropped)
      /\ UNCHANGED data

\* Fault: a result is a ciphertext only if all operands are.
TypeVisitAll(n) ==
  /\ types' = [types EXCEPT ![n] =
                 IF IsNone(g.operands[n])
                 THEN IF op[n] = "Constant" THEN "Raw" ELSE start.type[n]
                 ELSE IF \A m \in Elements(g.operands[n]) : types[m] = "Cipher"
                      THEN "Cipher" ELSE "Raw"]
  /\ UNCHANGED <<g, next, op, payload, scale, depth>>
  /\ Visit("Type", n, TRUE)

\* TypeHandler: TypeAttr of an input, Raw for a constant
TypeVisit(n) ==
  /\ types' = [types EXCEPT ![n] =
                 IF IsNone(g.operands[n])
                 THEN IF op[n] = "Constant" THEN "Raw" ELSE start.type[n]
                 ELSE IF \E m \in Elements(g.operands[n]) : types[m] = "Cipher"
                      THEN "Cipher" ELSE "Raw"]
  /\ UNCHANGED <<g, next, op, payload, scale, depth>>
  /\ Visit("Type", n, TRUE)

\* Fault: an operand that occurs twice is handed over once.
MergedOnce(n, u) ==
  LET once == [m \in Node |-> IF g.operands[n][m] > 0 THEN 1 ELSE 0]
      h == AddOperands(EraseOperand(g, u, n), u, once)
  IN  IF IsNone(h.uses[n]) THEN EraseAllOperand(h, n) ELSE h

(* Reduction: a sum whose only use is a sum, or a product whose only use   *)
(* is a product, hands its operands over and is emptied.                   *)
Merged(n, u) ==
  LET h == AddOperands(EraseOperand(g, u, n), u, g.operands[n])
  IN  IF IsNone(h.uses[n]) THEN EraseAllOperand(h, n) ELSE h

ReduceVisit(n) ==
  LET users == {u \in Elements(g.uses[n]) :
                  /\ ~IsNone(g.operands[n])          \* isInternal
                  /\ op[n] \in Reducible
                  /\ Total(g.uses[n]) = 1
                  /\ op[u] = op[n]}
  IN  /\ g' \in IF users = {} THEN {g} ELSE {Merged(n, u) : u \in users}
      /\ UNCHANGED data
      /\ Visit("Reduce", n, TRUE)

-----------------------------------------------------------------------------
(* ReductionLogExpander: the operands sorted by `order' (equal ones in any *)
(* order) are joined in pairs, level after level, until two are left.      *)
Order(n) == IF types[n] = "Cipher" THEN 2 + scale[n]
            ELSE IF types[n] = "Raw" THEN 1 ELSE 0

Sorted(b) ==
  {s \in [1 .. Total(b) -> Elements(b)] :
     /\ AsBag(s) = b
     /\ \A i \in 1 .. (Total(b) - 1) : Order(s[i]) <= Order(s[i + 1])}

(* A turn of the two loops: the first two of args are joined by a new node *)
(* of the next level, out; or the next level begins, with the odd one.     *)
Balanced(q) == q.out = <<>> /\ Len(q.args) <= 2

Join(q) ==
  [g    |-> SetOperands(NewNode(q.g, q.next), q.next, AsBag(<<q.args[1], q.args[2]>>)),
   next |-> q.next + 1,
   args |-> SubSeq(q.args, 3, Len(q.args)),
   out  |-> Append(q.out, q.next)]

NextLevel(q) ==
  [g    |-> q.g,
   next |-> q.next,
   args |-> q.out \o q.args,
   out  |-> <<>>]

Turn(q) ==
  IF Balanced(q) THEN q
  ELSE IF Len(q.args) < 2 THEN NextLevel(q) ELSE Join(q)

Turns(gr, fresh, s) ==
  LET q[i \in 0 .. (2 * Len(s))] ==
        IF i = 0 THEN [g |-> gr, next |-> fresh, args |-> s, out |-> <<>>]
        ELSE Turn(q[i - 1])
  IN  q

\* Fault: one level of pairs, and no more.
BalanceOnce(gr, fresh, s) == Turns(gr, fresh, s)[(Len(s) \div 2) + 1]

\* The loops end: less than Len(s) joins, and no more levels than joins.
Balance(gr, fresh, s) == Turns(gr, fresh, s)[2 * Len(s)]

LargestScale(S) == IF S = {} THEN 0 ELSE Max(S)
LeafScale == 1

ExpandVisit(n) ==
  LET b == g.operands[n] IN
  /\ scale' = [scale EXCEPT ![n] =
                 IF IsNone(b) THEN LeafScale
                 ELSE IF op[n] = "Mul"
                      THEN MapThenSumSet(LAMBDA m : b[m] * scale[m], Elements(b))
                      ELSE LargestScale({scale[m] : m \in Elements(b)})]
  /\ IF op[n] \in Reducible /\ Total(b) > 2
     THEN \E s \in Sorted(b) :
            LET r == Balance(g, next, s) IN
            /\ next + Total(b) - 2 <= MaxNode
            /\ g' = SetOperands(r.g, n, AsBag(r.args))
            /\ next' = r.next
            /\ op' = [m \in Node |-> IF m \in next .. (r.next - 1) THEN op[n] ELSE op[m]]
     ELSE UNCHANGED <<g, next, op>>
  /\ UNCHANGED <<payload, types, depth>>
  /\ Visit("Expand", n, TRUE)

\* Fault: a product of plain numbers counts as well.
DepthVisitAny(n) ==
  LET b == g.operands[n] IN
  /\ depth' = [depth EXCEPT ![n] =
                 LargestScale({depth[m] : m \in Elements(b)})
                   + (IF op[n] = "Mul" THEN 1 ELSE 0)]
  /\ UNCHANGED <<g, next, op, payload, types, scale>>
  /\ Visit("Depth", n, TRUE)

\* MultDepthCnt: a product with a cipher operand is one deeper than its operands
DepthVisit(n) ==
  LET b == g.operands[n] IN
  /\ depth' = [depth EXCEPT ![n] =
                 LargestScale({depth[m] : m \in Elements(b)})
                   + (IF op[n] = "Mul" /\ \E m \in Elements(b) : types[m] = "Cipher"
                      THEN 1 ELSE 0)]
  /\ UNCHANGED <<g, next, op, payload, types, scale>>
  /\ Visit("Depth", n, TRUE)

(* ConstantHandler: an operation on constants only is replaced, in all its *)
(* uses, by a new constant; the operation itself stays, without a use.     *)
Folds(n) ==
  /\ ~IsNone(g.operands[n])
  /\ \A m \in Elements(g.operands[n]) : op[m] = "Constant"
  /\ op[n] # "Output"

FoldVisit(n) ==
  LET b == g.operands[n]
  IN  /\ IF Folds(n)
         THEN /\ next < MaxNode
              /\ g' = ReplaceUses(NewNode(g, next), n, next, Elements(g.uses[n]))
              /\ next' = next + 1
              /\ op' = [op EXCEPT ![next] = "Constant"]
              /\ payload' = [payload EXCEPT ![next] = Combine(op[n], b, payload)]
         ELSE UNCHANGED <<g, next, op, payload>>
      /\ UNCHANGED <<types, scale, depth>>
      /\ Visit("Fold", n, TRUE)

Next ==
  \/ StartPass
  \/ \E n \in Node : \/ CleanVisit(n)
                     \/ TypeVisit(n)
                     \/ ReduceVisit(n)
                     \/ ExpandVisit(n)
                     \/ DepthVisit(n)
                     \/ FoldVisit(n)

Spec == Init /\ [][Next]_vars

-----------------------------------------------------------------------------
Finished(pass) == Passes[at] = pass /\ t.todo = {}
OutputNodes == {n \in Attached(g) : op[n] = "Output"}

(* No pass visits a node twice, although its rewriter makes and unmakes    *)
(* roots and predecessors all the time: an executor or a rewriter that saw *)
(* a node again would compute, or merge, it twice, and a pass that makes   *)
(* nodes might never end.  And a pass that has run out of ready nodes has  *)
(* visited every node that was attached when it began: rewriting strands   *)
(* none behind a predecessor that never comes.                             *)
VisitsEachOnce ==
  /\ t.todo \cap seen = {}
  /\ t.todo = {} => entry \subseteq seen

(* When a node is visited, all its operands (in a backward pass, all its   *)
(* users) of that moment have been visited: what the comments "must only   *)
(* be used with forward pass traversal" rely on.                           *)
OperandsFirst ==
  [][at' = at => \A n \in seen' \ seen :
       Preds(g, Forward(Passes[at]), n) \subseteq seen]_vars

(* Merging, balancing and folding keep what every output denotes, at each  *)
(* single step; and until the Dag is released no output is lost.           *)
Released == \E i \in 1 .. at : Passes[i] = "Release"
ValuePreserved ==
  /\ ~Released => \A o \in Node : start.op[o] = "Output" => o \in OutputNodes
  /\ \A o \in OutputNodes :
        Value(g, op, payload)[o] = Value(Loaded(start), start.op, start.payload)[o]

(* TypeHandler's one sweep computes the fixpoint: a node is a ciphertext   *)
(* exactly if some input below it is encrypted.                            *)
Encrypted(gr, name) ==
  LET enc[n \in Node] ==
        IF IsNone(gr.operands[n]) THEN name[n] = "Input" /\ start.type[n] = "Cipher"
        ELSE \E m \in Elements(gr.operands[n]) : enc[m]
  IN  enc
TypesExact ==
  Finished("Type") =>
    \A n \in Attached(g) : (types[n] = "Cipher") <=> Encrypted(g, op)[n]

(* Whatever Reduction merged is binary again after ReductionLogExpander,   *)
(* as the executors demand (arg_size == 2).                                *)
BinaryAgain ==
  Finished("Expand") \/ (\E i \in 1 .. (at - 1) : Passes[i] = "Expand") =>
    \A n \in Attached(g) : op[n] \in Reducible => Total(g.operands[n]) = 2

(* After a clean pass every operation that is left leads to an output.     *)
NoDeadCode ==
  Finished("Clean") =>
    \A n \in Attached(g) : op[n] \notin {"Input", "Output"} => ~IsNone(g.uses[n])

(* After a release nothing keeps anything else alive: no node has an       *)
(* operand or a use, and the root sets are empty, so that the shared       *)
(* pointers of the nodes can go in any order.                              *)
ReleaseEmpties ==
  Finished("Release") =>
    /\ g.sources = {} /\ g.sinks = {}
    /\ \A n \in Node : IsNone(g.operands[n]) /\ IsNone(g.uses[n])

(* The depth that picks the library is the multiplicative depth of the     *)
(* graph that will run.                                                    *)
DepthOf(gr, name) ==
  LET d[n \in Node] ==
        IF IsNone(gr.operands[n]) THEN 0
        ELSE LargestScale({d[m] : m \in Elements(gr.operands[n])})
               + (IF /\ name[n] = "Mul"
                     /\ \E m \in Elements(gr.operands[n]) : Encrypted(gr, name)[m]
                  THEN 1 ELSE 0)
  IN  d
DepthExact ==
  Finished("Depth") => \A o \in OutputNodes : depth[o] = DepthOf(g, op)[o]
=============================================================================
