---------------------------- MODULE Graph_proofs ----------------------------
(***************************************************************************)
(* Lemmas about GraphOps and Traversal, which the proofs about the modules *)
(* built on them share.                                                    *)
(*                                                                         *)
(* The graph: what each method of Node keeps.  The invariant GraphInv      *)
(* relates a graph record to two sets of nodes, the detached ones, which   *)
(* eraseAllOperand emptied without making them sources, and the retired    *)
(* ones, which the clean pass took out of both root sets.                  *)
(*                                                                         *)
(* The traversal: what the loop of DagTraversal::traverse guarantees, in   *)
(* either direction and for any number of nodes, when the rewriter leaves  *)
(* the graph as it is.                                                     *)
(***************************************************************************)
EXTENDS Traversal, FiniteSetTheorems, SequenceTheorems, WellFoundedInduction, TLAPS

USE MaxNodeAssumption

Typed(h) ==
  h \in [alive : SUBSET Node, operands : [Node -> Bag], uses : [Node -> Bag],
         sources : SUBSET Node, sinks : SUBSET Node]

Mirror(h) == \A n, m \in Node : h.uses[m][n] = h.operands[n][m]

Inside(h) ==
  /\ h.sources \cup h.sinks \subseteq h.alive
  /\ \A n, m \in Node : h.operands[n][m] > 0 => n \in h.alive /\ m \in h.alive

RootsExact(h, det, ret) ==
  /\ \A n \in Node : n \in h.sinks <=> n \in h.alive /\ IsNone(h.uses[n]) /\ n \notin ret
  /\ \A n \in Node : n \in h.sources <=> n \in h.alive /\ IsNone(h.operands[n]) /\ n \notin det

HistoryIdle(h, det, ret) ==
  /\ det \in SUBSET Node /\ ret \in SUBSET Node
  /\ \A n \in det : IsNone(h.operands[n])
  /\ \A n \in ret : IsNone(h.uses[n])

GraphInv(h, det, ret) ==
  Typed(h) /\ Mirror(h) /\ Inside(h) /\ RootsExact(h, det, ret) /\ HistoryIdle(h, det, ret)

-----------------------------------------------------------------------------
(* Adding b[m] uses by n to every m (Node::addUse) keeps the lists typed,  *)
(* changes the entry of n only, and leaves empty exactly the empty lists   *)
(* that gain nothing.                                                      *)
LEMMA UsesPlusType ==
  ASSUME NEW uses \in [Node -> Bag], NEW n \in Node, NEW b \in Bag
  PROVE  UsesPlus(uses, n, b) \in [Node -> Bag]
BY DEF UsesPlus, Bag

LEMMA UsesPlusEntry ==
  ASSUME NEW uses \in [Node -> Bag], NEW n \in Node, NEW b \in Bag
  PROVE  \A m, k \in Node : UsesPlus(uses, n, b)[m][k] =
            IF k = n THEN uses[m][k] + b[m] ELSE uses[m][k]
BY DEF UsesPlus, Bag

LEMMA UsesPlusNone ==
  ASSUME NEW uses \in [Node -> Bag], NEW n \in Node, NEW b \in Bag
  PROVE  \A m \in Node : IsNone(UsesPlus(uses, n, b)[m]) <=> IsNone(uses[m]) /\ b[m] = 0
<1> TAKE m \in Node
<1>1. b[m] \in Nat /\ \A k \in Node : uses[m][k] \in Nat
  BY DEF Bag
<1>2. \A k \in Node : UsesPlus(uses, n, b)[m][k] =
         IF k = n THEN uses[m][k] + b[m] ELSE uses[m][k]
  BY UsesPlusEntry
<1>3. QED BY <1>1, <1>2 DEF IsNone

(* Removing up to b[m] uses by n from every m (Node::eraseUse) keeps the   *)
(* lists typed, changes the entry of n only, and leaves empty exactly the  *)
(* lists that held nothing else.                                           *)
LEMMA UsesMinusType ==
  ASSUME NEW uses \in [Node -> Bag], NEW n \in Node, NEW b \in Bag
  PROVE  UsesMinus(uses, n, b) \in [Node -> Bag]
BY DEF UsesMinus, Bag

LEMMA UsesMinusEntry ==
  ASSUME NEW uses \in [Node -> Bag], NEW n \in Node, NEW b \in Bag
  PROVE  \A m, k \in Node : UsesMinus(uses, n, b)[m][k] =
            IF k = n THEN (IF uses[m][k] > b[m] THEN uses[m][k] - b[m] ELSE 0)
                     ELSE uses[m][k]
BY DEF UsesMinus, Bag

LEMMA BagFacts ==
  /\ NoNodes \in Bag /\ IsNone(NoNodes) /\ \A m \in Node : NoNodes[m] = 0
  /\ \A n \in Node : /\ One(n) \in Bag /\ ~IsNone(One(n))
                     /\ \A m \in Node : One(n)[m] = (IF m = n THEN 1 ELSE 0)
BY DEF NoNodes, Bag, IsNone, One

-----------------------------------------------------------------------------
(* Node::addOperand keeps the graph invariant; the user is no longer       *)
(* detached and the operand no longer retired.                             *)
LEMMA AddOperandInv ==
  ASSUME NEW h, NEW det, NEW ret, GraphInv(h, det, ret),
         NEW n \in h.alive, NEW m \in h.alive
  PROVE  GraphInv(AddOperand(h, n, m), det \ {n}, ret \ {m})
<1> DEFINE f == AddOperand(h, n, m)
           b == One(m)
<1>0. /\ Typed(h) /\ Mirror(h) /\ Inside(h)
      /\ RootsExact(h, det, ret) /\ HistoryIdle(h, det, ret)
      /\ n \in Node /\ m \in Node
      /\ h.uses \in [Node -> Bag] /\ h.operands \in [Node -> Bag]
  BY DEF GraphInv, Typed
<1>1. b \in Bag /\ \A x \in Node : b[x] = (IF x = m THEN 1 ELSE 0)
  BY <1>0, BagFacts
<1> HIDE DEF b
<1>2. /\ f.alive = h.alive
      /\ f.operands = [h.operands EXCEPT ![n][m] = @ + 1]
      /\ f.uses = UsesPlus(h.uses, n, b)
      /\ f.sources = IF IsNone(h.operands[n]) THEN h.sources \ {n} ELSE h.sources
      /\ f.sinks = SinksPlus(h.sinks, h.uses, b)
  BY DEF f, b, AddOperand
<1>t. f.uses \in [Node -> Bag]
  BY <1>0, <1>1, <1>2, UsesPlusType
<1>u. \A x, k \in Node : f.uses[x][k] =
            IF k = n THEN h.uses[x][k] + b[x] ELSE h.uses[x][k]
  <2>1. h.uses \in [Node -> Bag] /\ n \in Node /\ b \in Bag
    BY <1>0, <1>1
  <2>2. QED BY <2>1, <1>2, UsesPlusEntry
<1>v. \A x \in Node : IsNone(f.uses[x]) <=> IsNone(h.uses[x]) /\ b[x] = 0
  BY <1>0, <1>1, <1>2, UsesPlusNone
<1>a. Typed(f) <=> /\ f.alive \in SUBSET Node /\ f.operands \in [Node -> Bag]
                   /\ f.uses \in [Node -> Bag]
                   /\ f.sources \in SUBSET Node /\ f.sinks \in SUBSET Node
  BY DEF f, AddOperand, Typed
<1> HIDE DEF f
<1>3. /\ f.operands \in [Node -> Bag]
      /\ \A x, y \in Node : f.operands[x][y] =
            IF x = n /\ y = m THEN h.operands[x][y] + 1 ELSE h.operands[x][y]
  BY <1>0, <1>2 DEF Bag
<1>4. Typed(f)
  <2>3. f.sources \in SUBSET Node /\ f.sinks \in SUBSET Node /\ f.alive \in SUBSET Node
    BY <1>0, <1>2 DEF SinksPlus, Typed
  <2>4. QED BY <1>a, <1>t, <2>3, <1>3
<1>5. Mirror(f)
  
  <2>1. ASSUME NEW x \in Node, NEW y \in Node PROVE f.uses[y][x] = f.operands[x][y]
    <3>1. h.uses[y][x] = h.operands[x][y]
      BY <1>0 DEF Mirror
    <3>2. f.uses[y][x] = IF x = n THEN h.uses[y][x] + b[y] ELSE h.uses[y][x]
      BY <1>u
    <3>3. b[y] = (IF y = m THEN 1 ELSE 0) /\ h.uses[y][x] \in Nat
      BY <1>0, <1>1 DEF Bag
    <3>4. QED BY <3>1, <3>2, <3>3, <1>3
  <2>2. QED BY <2>1 DEF Mirror
<1>6. Inside(f)
  <2>1. f.sources \cup f.sinks \subseteq f.alive
    BY <1>0, <1>2 DEF Inside, SinksPlus
  <2>2. QED BY <2>1, <1>0, <1>2, <1>3 DEF Inside
<1>7. \A x \in Node : IsNone(f.uses[x]) <=> IsNone(h.uses[x]) /\ x # m
  BY <1>1, <1>v
<1>8. \A x \in Node : IsNone(f.operands[x]) <=> IsNone(h.operands[x]) /\ x # n
  <2>1. ~IsNone(f.operands[n])
    BY <1>0, <1>3 DEF IsNone, Bag
  <2>2. ASSUME NEW x \in Node, x # n PROVE IsNone(f.operands[x]) <=> IsNone(h.operands[x])
    BY <1>3, <2>2 DEF IsNone
  <2>3. QED BY <2>1, <2>2
<1>9. RootsExact(f, det \ {n}, ret \ {m})
  <2>1. ASSUME NEW x \in Node
        PROVE  x \in f.sinks <=> x \in f.alive /\ IsNone(f.uses[x]) /\ x \notin ret \ {m}
    BY <1>0, <1>1, <1>2, <1>7 DEF RootsExact, SinksPlus
  <2>2. ASSUME NEW x \in Node
        PROVE  x \in f.sources <=>
                 x \in f.alive /\ IsNone(f.operands[x]) /\ x \notin det \ {n}
    BY <1>0, <1>2, <1>8 DEF RootsExact
  <2>3. QED BY <2>1, <2>2 DEF RootsExact
<1>10. HistoryIdle(f, det \ {n}, ret \ {m})
  BY <1>0, <1>7, <1>8 DEF HistoryIdle
<1>11. GraphInv(f, det \ {n}, ret \ {m})
  BY <1>4, <1>5, <1>6, <1>9, <1>10 DEF GraphInv
<1>12. QED BY <1>11 DEF f

-----------------------------------------------------------------------------
\* A sequence of addOperand calls keeps it as one does.
LEMMA AddOperandsInv ==
  ASSUME NEW h, NEW det, NEW ret, GraphInv(h, det, ret), NEW n \in h.alive,
         NEW b \in Bag, ~IsNone(b), Elements(b) \subseteq h.alive
  PROVE  GraphInv(AddOperands(h, n, b), det \ {n}, ret \ Elements(b))
<1> DEFINE f == AddOperands(h, n, b)
<1>0. /\ Typed(h) /\ Mirror(h) /\ Inside(h)
      /\ RootsExact(h, det, ret) /\ HistoryIdle(h, det, ret)
      /\ n \in Node
      /\ h.uses \in [Node -> Bag] /\ h.operands \in [Node -> Bag]
  BY DEF GraphInv, Typed
<1>1. \A x \in Node : b[x] \in Nat /\ (x \in Elements(b) <=> b[x] > 0)
  BY DEF Elements, Bag
<1>2. /\ f.alive = h.alive
      /\ f.operands = [h.operands EXCEPT ![n] = [m \in Node |-> @[m] + b[m]]]
      /\ f.uses = UsesPlus(h.uses, n, b)
      /\ f.sources = h.sources \ {n}
      /\ f.sinks = SinksPlus(h.sinks, h.uses, b)
  BY DEF f, AddOperands
<1>t. f.uses \in [Node -> Bag]
  <2>1. h.uses \in [Node -> Bag] /\ n \in Node
    BY <1>0
  <2> QED
    BY <2>1, <1>2, UsesPlusType
<1>u. \A x, k \in Node : f.uses[x][k] =
            IF k = n THEN h.uses[x][k] + b[x] ELSE h.uses[x][k]
  <2>1. h.uses \in [Node -> Bag] /\ n \in Node
    BY <1>0
  <2> QED
    BY <2>1, <1>2, UsesPlusEntry
<1>v. \A x \in Node : IsNone(f.uses[x]) <=> IsNone(h.uses[x]) /\ b[x] = 0
  <2>1. h.uses \in [Node -> Bag] /\ n \in Node
    BY <1>0
  <2> QED
    BY <2>1, <1>2, UsesPlusNone
<1>a. Typed(f) <=> /\ f.alive \in SUBSET Node /\ f.operands \in [Node -> Bag]
                   /\ f.uses \in [Node -> Bag]
                   /\ f.sources \in SUBSET Node /\ f.sinks \in SUBSET Node
  BY DEF f, AddOperands, Typed
<1> HIDE DEF f
<1>3. /\ f.operands \in [Node -> Bag]
      /\ \A x, y \in Node : f.operands[x][y] =
            IF x = n THEN h.operands[x][y] + b[y] ELSE h.operands[x][y]
  <2>1. h.operands[n] \in [Node -> Nat] /\ b \in [Node -> Nat]
    BY <1>0 DEF Bag
  <2>2. [m \in Node |-> h.operands[n][m] + b[m]] \in Bag
    BY <2>1 DEF Bag
  <2> QED
    BY <1>0, <1>2, <2>2
<1>4. Typed(f)
  <2>1. f.sources \in SUBSET Node /\ f.sinks \in SUBSET Node /\ f.alive \in SUBSET Node
    BY <1>0, <1>2 DEF SinksPlus, Typed
  <2> QED
    BY <1>a, <1>t, <2>1, <1>3
<1>5. Mirror(f)
  BY <1>0, <1>u, <1>3 DEF Mirror
<1>6. Inside(f)
  <2>1. f.sources \cup f.sinks \subseteq f.alive
    BY <1>0, <1>2 DEF Inside, SinksPlus
  <2>2. ASSUME NEW x \in Node, NEW y \in Node, f.operands[x][y] > 0
        PROVE  x \in f.alive /\ y \in f.alive
    <3>1. h.operands[x][y] \in Nat
      BY <1>0 DEF Bag
    <3>2. /\ f.operands[x][y] = IF x = n THEN h.operands[x][y] + b[y] ELSE h.operands[x][y]
          /\ b[y] \in Nat
      BY <1>1, <1>3
    <3>3. h.operands[x][y] > 0 \/ (x = n /\ b[y] > 0)
      BY <2>2, <3>1, <3>2
    <3> QED
      BY <3>3, <1>0, <1>1, <1>2 DEF Inside
  <2> QED
    BY <2>1, <2>2 DEF Inside
<1>7. \A x \in Node : IsNone(f.uses[x]) <=> IsNone(h.uses[x]) /\ x \notin Elements(b)
  BY <1>1, <1>v
<1>8. \A x \in Node : IsNone(f.operands[x]) <=> IsNone(h.operands[x]) /\ x # n
  <2>1. PICK m \in Node : b[m] # 0
    BY DEF IsNone
  <2>2. h.operands[n][m] \in Nat
    BY <1>0 DEF Bag
  <2>3. f.operands[n][m] # 0
    BY <2>1, <2>2, <1>0, <1>1, <1>3
  <2>4. ~IsNone(f.operands[n])
    BY <2>3 DEF IsNone
  <2>5. ASSUME NEW x \in Node, x # n PROVE IsNone(f.operands[x]) <=> IsNone(h.operands[x])
    BY <1>3, <2>5 DEF IsNone
  <2> QED
    BY <2>4, <2>5
<1>9. RootsExact(f, det \ {n}, ret \ Elements(b))
  <2>1. ASSUME NEW x \in Node
        PROVE  x \in f.sinks <=> x \in f.alive /\ IsNone(f.uses[x]) /\ x \notin ret \ Elements(b)
    <3>1. x \in f.sinks <=> x \in h.sinks /\ ~(b[x] > 0 /\ IsNone(h.uses[x]))
      BY <1>2 DEF SinksPlus
    <3>2. x \in h.sinks <=> x \in h.alive /\ IsNone(h.uses[x]) /\ x \notin ret
      BY <1>0 DEF RootsExact
    <3>3. f.alive = h.alive /\ (x \in Elements(b) <=> b[x] > 0)
      BY <1>1, <1>2
    <3>4. IsNone(f.uses[x]) <=> IsNone(h.uses[x]) /\ x \notin Elements(b)
      BY <1>7
    <3> QED
      BY <3>1, <3>2, <3>3, <3>4
  <2>2. ASSUME NEW x \in Node
        PROVE  x \in f.sources <=>
                 x \in f.alive /\ IsNone(f.operands[x]) /\ x \notin det \ {n}
    BY <1>0, <1>2, <1>8 DEF RootsExact
  <2> QED
    BY <2>1, <2>2 DEF RootsExact
<1>10. HistoryIdle(f, det \ {n}, ret \ Elements(b))
  BY <1>0, <1>7, <1>8 DEF HistoryIdle
<1> QED
  BY <1>4, <1>5, <1>6, <1>9, <1>10 DEF GraphInv, f

-----------------------------------------------------------------------------
(* eraseUse for every operand of n empties the entry of n in every use     *)
(* list, because the list holds n exactly as often as n holds the operand. *)
LEMMA DropAllEntry ==
  ASSUME NEW h, NEW det, NEW ret, GraphInv(h, det, ret), NEW n \in h.alive
  PROVE  \A x, k \in Node : UsesMinus(h.uses, n, h.operands[n])[x][k] =
            IF k = n THEN 0 ELSE h.uses[x][k]
<1>0. /\ n \in Node /\ h.uses \in [Node -> Bag] /\ h.operands[n] \in Bag
      /\ \A x \in Node : h.uses[x][n] = h.operands[n][x]
  BY DEF GraphInv, Typed, Mirror
<1>1. \A x, k \in Node : UsesMinus(h.uses, n, h.operands[n])[x][k] =
         IF k = n THEN (IF h.uses[x][k] > h.operands[n][x]
                        THEN h.uses[x][k] - h.operands[n][x] ELSE 0)
                  ELSE h.uses[x][k]
  BY <1>0, UsesMinusEntry
<1>2. \A x \in Node : h.uses[x][n] \in Nat
  BY <1>0 DEF Bag
<1>3. QED BY <1>0, <1>1, <1>2

(* The same calls leave in the sinks exactly the live nodes that no other  *)
(* node uses, the retired ones apart: the last eraseUse of a node puts it  *)
(* back, and a retired node has no use that could be erased.               *)
LEMMA DropAllSinks ==
  ASSUME NEW h, NEW det, NEW ret, GraphInv(h, det, ret), NEW n \in h.alive
  PROVE  \A x \in Node : x \in SinksMinus(h.sinks, h.uses, n, h.operands[n]) <=>
            /\ x \in h.alive /\ x \notin ret
            /\ IsNone(UsesMinus(h.uses, n, h.operands[n])[x])
<1> DEFINE u == UsesMinus(h.uses, n, h.operands[n])
<1>0. /\ n \in Node /\ h.uses \in [Node -> Bag] /\ h.operands[n] \in Bag
      /\ \A x \in Node : h.uses[x][n] = h.operands[n][x]
      /\ \A x, y \in Node : h.operands[x][y] > 0 => y \in h.alive
      /\ \A x \in Node : x \in h.sinks <=> x \in h.alive /\ IsNone(h.uses[x]) /\ x \notin ret
      /\ \A x \in ret : IsNone(h.uses[x])
  BY DEF GraphInv, Typed, Mirror, Inside, RootsExact, HistoryIdle
<1>1. \A x, k \in Node : u[x][k] = IF k = n THEN 0 ELSE h.uses[x][k]
  BY DropAllEntry
<1> SUFFICES ASSUME NEW x \in Node
             PROVE  x \in SinksMinus(h.sinks, h.uses, n, h.operands[n]) <=>
                      x \in h.alive /\ x \notin ret /\ IsNone(u[x])
  OBVIOUS
<1>2. x \in SinksMinus(h.sinks, h.uses, n, h.operands[n]) <=>
        x \in h.sinks \/ (h.operands[n][x] > 0 /\ h.uses[x][n] > 0 /\ IsNone(u[x]))
  BY DEF SinksMinus
<1> HIDE DEF u
<1>3. h.uses[x][n] \in Nat /\ \A k \in Node : h.uses[x][k] \in Nat
  BY <1>0 DEF Bag
<1>4. CASE h.uses[x][n] > 0
  <2>1. ~IsNone(h.uses[x]) /\ x \in h.alive /\ x \notin ret
    BY <1>0, <1>4 DEF IsNone
  <2>2. QED BY <1>0, <1>2, <1>4, <2>1
<1>5. CASE h.uses[x][n] = 0
  <2>1. IsNone(u[x]) <=> IsNone(h.uses[x])
    BY <1>0, <1>1, <1>5 DEF IsNone
  <2>2. QED BY <1>0, <1>2, <1>5, <2>1
<1>6. QED BY <1>3, <1>4, <1>5

-----------------------------------------------------------------------------
(* The constructor enters an index that nothing mentions yet into both     *)
(* root sets.                                                              *)
LEMMA NewNodeInv ==
  ASSUME NEW h, NEW det, NEW ret, GraphInv(h, det, ret),
         NEW n \in Node, n \notin h.alive, n \notin det, n \notin ret
  PROVE  GraphInv(NewNode(h, n), det, ret)
<1> DEFINE f == NewNode(h, n)
<1>0. /\ Typed(h) /\ Mirror(h) /\ Inside(h)
      /\ RootsExact(h, det, ret) /\ HistoryIdle(h, det, ret)
      /\ h.uses \in [Node -> Bag] /\ h.operands \in [Node -> Bag]
  BY DEF GraphInv, Typed
<1>1. /\ f.alive = h.alive \cup {n}
      /\ f.operands = [h.operands EXCEPT ![n] = NoNodes]
      /\ f.uses = [h.uses EXCEPT ![n] = NoNodes]
      /\ f.sources = h.sources \cup {n}
      /\ f.sinks = h.sinks \cup {n}
  BY DEF f, NewNode
<1>a. Typed(f) <=> /\ f.alive \in SUBSET Node /\ f.operands \in [Node -> Bag]
                   /\ f.uses \in [Node -> Bag]
                   /\ f.sources \in SUBSET Node /\ f.sinks \in SUBSET Node
  BY DEF f, NewNode, Typed
<1> HIDE DEF f
<1>2. f.operands \in [Node -> Bag] /\ f.uses \in [Node -> Bag]
  BY <1>0, <1>1, BagFacts
<1>3. \A x \in Node : /\ h.operands[n][x] = 0 /\ h.uses[n][x] = 0
                      /\ h.operands[x][n] = 0 /\ h.uses[x][n] = 0
  BY <1>0 DEF Inside, Mirror, Bag
<1>4. \A x, y \in Node : /\ f.operands[x][y] = h.operands[x][y]
                         /\ f.uses[x][y] = h.uses[x][y]
  BY <1>0, <1>1, <1>3, BagFacts
<1>5. Typed(f)
  BY <1>0, <1>1, <1>2, <1>a DEF Typed
<1>6. Mirror(f)
  BY <1>0, <1>4 DEF Mirror
<1>7. Inside(f)
  BY <1>0, <1>1, <1>4 DEF Inside
<1>8. \A x \in Node : /\ IsNone(f.operands[x]) <=> IsNone(h.operands[x])
                      /\ IsNone(f.uses[x]) <=> IsNone(h.uses[x])
  BY <1>4 DEF IsNone
<1>9. IsNone(h.operands[n]) /\ IsNone(h.uses[n])
  BY <1>3 DEF IsNone
<1>10. RootsExact(f, det, ret)
  BY <1>0, <1>1, <1>8, <1>9 DEF RootsExact
<1>11. HistoryIdle(f, det, ret)
  BY <1>0, <1>8 DEF HistoryIdle
<1>12. GraphInv(f, det, ret)
  BY <1>5, <1>6, <1>7, <1>10, <1>11 DEF GraphInv
<1>13. QED BY <1>12 DEF f

-----------------------------------------------------------------------------
(* A node n with all its operands erased, taken out of the sources, and    *)
(* out of the sinks too when R = {n}.                                      *)
Emptied(h, n, R) ==
  [alive    |-> h.alive,
   operands |-> [h.operands EXCEPT ![n] = NoNodes],
   uses     |-> UsesMinus(h.uses, n, h.operands[n]),
   sources  |-> h.sources \ {n},
   sinks    |-> SinksMinus(h.sinks, h.uses, n, h.operands[n]) \ R]

(* Emptying a node keeps the invariant: the node is detached from now on,  *)
(* and retired if it left the sinks, which only an unused node may do.     *)
LEMMA EmptiedInv ==
  ASSUME NEW h, NEW det, NEW ret, GraphInv(h, det, ret), NEW n \in h.alive,
         NEW R \in SUBSET {n}, R = {} \/ IsNone(h.uses[n])
  PROVE  /\ GraphInv(Emptied(h, n, R), det \cup {n}, ret \cup R)
         /\ IsNone(h.uses[n]) => IsNone(Emptied(h, n, R).uses[n])
<1> DEFINE f == Emptied(h, n, R)
<1>0. /\ Typed(h) /\ Mirror(h) /\ Inside(h)
      /\ RootsExact(h, det, ret) /\ HistoryIdle(h, det, ret)
      /\ h.uses \in [Node -> Bag] /\ h.operands \in [Node -> Bag]
      /\ n \in Node /\ h.operands[n] \in Bag
  BY DEF GraphInv, Typed
<1>1. /\ f.alive = h.alive
      /\ f.operands = [h.operands EXCEPT ![n] = NoNodes]
      /\ f.uses = UsesMinus(h.uses, n, h.operands[n])
      /\ f.sources = h.sources \ {n}
      /\ f.sinks = SinksMinus(h.sinks, h.uses, n, h.operands[n]) \ R
  BY DEF f, Emptied
<1>a. Typed(f) <=> /\ f.alive \in SUBSET Node /\ f.operands \in [Node -> Bag]
                   /\ f.uses \in [Node -> Bag]
                   /\ f.sources \in SUBSET Node /\ f.sinks \in SUBSET Node
  BY DEF f, Emptied, Typed
<1> HIDE DEF f
<1>t. f.uses \in [Node -> Bag]
  <2>1. h.uses \in [Node -> Bag] /\ n \in Node /\ h.operands[n] \in Bag
    BY <1>0
  <2>2. QED BY <2>1, <1>1, UsesMinusType
<1>u. \A x, k \in Node : f.uses[x][k] = IF k = n THEN 0 ELSE h.uses[x][k]
  BY <1>1, DropAllEntry
<1>v. \A x \in Node : x \in f.sinks <=>
         x \in f.alive /\ x \notin ret \cup R /\ IsNone(f.uses[x])
  BY <1>1, DropAllSinks
<1>o. \A x, y \in Node : f.operands[x][y] = IF x = n THEN 0 ELSE h.operands[x][y]
  BY <1>0, <1>1, BagFacts
<1>2. Typed(f)
  <2>1. f.operands \in [Node -> Bag]
    BY <1>0, <1>1, BagFacts
  <2>2. f.sinks \in SUBSET Node
    BY <1>0, <1>1 DEF SinksMinus, Typed
  <2>3. QED BY <1>0, <1>1, <1>a, <1>t, <2>1, <2>2 DEF Typed
<1>3. Mirror(f)
  BY <1>0, <1>u, <1>o DEF Mirror
<1>4. Inside(f)
  <2>1. f.sources \cup f.sinks \subseteq f.alive
    BY <1>0, <1>1, <1>2, <1>v DEF Inside, Typed
  <2>2. QED BY <2>1, <1>0, <1>1, <1>o DEF Inside
<1>5. \A x \in Node : IsNone(f.operands[x]) <=> x = n \/ IsNone(h.operands[x])
  BY <1>0, <1>o DEF IsNone
<1>6. \A x \in Node : IsNone(h.uses[x]) => IsNone(f.uses[x])
  BY <1>u DEF IsNone
<1>7. RootsExact(f, det \cup {n}, ret \cup R)
  <2>1. ASSUME NEW x \in Node
        PROVE  x \in f.sources <=>
                 x \in f.alive /\ IsNone(f.operands[x]) /\ x \notin det \cup {n}
    <3>1. x \in h.sources <=> x \in h.alive /\ IsNone(h.operands[x]) /\ x \notin det
      BY <1>0 DEF RootsExact
    <3>2. QED BY <3>1, <1>1, <1>5
  <2>2. QED BY <2>1, <1>v DEF RootsExact
<1>8. HistoryIdle(f, det \cup {n}, ret \cup R)
  BY <1>0, <1>5, <1>6 DEF HistoryIdle
<1>9. GraphInv(f, det \cup {n}, ret \cup R)
  BY <1>2, <1>3, <1>4, <1>7, <1>8 DEF GraphInv
<1>10. QED BY <1>0, <1>6, <1>9 DEF f

(* eraseAllOperand on a node that has operands, hence is no source.        *)
LEMMA EraseAllOperandInv ==
  ASSUME NEW h, NEW det, NEW ret, GraphInv(h, det, ret),
         NEW n \in h.alive, ~IsNone(h.operands[n])
  PROVE  GraphInv(EraseAllOperand(h, n), det \cup {n}, ret)
<1>1. n \in Node /\ n \notin h.sources
  BY DEF GraphInv, Typed, RootsExact
<1>2. EraseAllOperand(h, n) = Emptied(h, n, {})
  BY <1>1 DEF EraseAllOperand, Emptied
<1>3. GraphInv(Emptied(h, n, {}), det \cup {n}, ret \cup {})
  BY EmptiedInv
<1>4. QED BY <1>2, <1>3

(* The clean pass on an unused node.                                       *)
LEMMA CleanNodeInv ==
  ASSUME NEW h, NEW det, NEW ret, GraphInv(h, det, ret),
         NEW n \in h.alive, IsNone(h.uses[n])
  PROVE  GraphInv(CleanNode(h, n), det \cup {n}, ret \cup {n})
<1>1. CleanNode(h, n) = Emptied(h, n, {n})
  BY DEF CleanNode, EraseAllOperand, Emptied
<1>2. QED BY <1>1, EmptiedInv

(* The destructor of an unused node takes it out of everything: what is    *)
(* left of an emptied node is only its membership of alive.                *)
LEMMA DestroyNodeInv ==
  ASSUME NEW h, NEW det, NEW ret, GraphInv(h, det, ret),
         NEW n \in h.alive, IsNone(h.uses[n])
  PROVE  GraphInv(DestroyNode(h, n), det \ {n}, ret \ {n})
<1> DEFINE e == Emptied(h, n, {n})
           f == DestroyNode(h, n)
<1>1. GraphInv(e, det \cup {n}, ret \cup {n}) /\ IsNone(e.uses[n])
  BY EmptiedInv
<1>2. n \in Node /\ h.operands \in [Node -> Bag]
      /\ (n \in h.sources => IsNone(h.operands[n]))
  BY DEF GraphInv, Typed, RootsExact
<1>3. /\ f.alive = e.alive \ {n} /\ f.operands = e.operands /\ f.uses = e.uses
      /\ f.sources = e.sources /\ f.sinks = e.sinks
  BY <1>2 DEF f, e, DestroyNode, Emptied
<1>4. IsNone(e.operands[n]) /\ n \notin e.sources /\ n \notin e.sinks
  BY <1>2, BagFacts DEF e, Emptied
<1>a. Typed(f) <=> /\ f.alive \in SUBSET Node /\ f.operands \in [Node -> Bag]
                   /\ f.uses \in [Node -> Bag]
                   /\ f.sources \in SUBSET Node /\ f.sinks \in SUBSET Node
  BY DEF f, DestroyNode, Typed
<1> HIDE DEF e, f
<1>5. Typed(f) /\ Mirror(f)
  BY <1>1, <1>3, <1>a DEF GraphInv, Typed, Mirror
<1>6. Inside(f)
  <2>1. \A x, y \in Node : e.operands[x][y] > 0 => x # n /\ y # n
    <3>1. \A x, y \in Node : e.operands[x][y] \in Nat /\ e.uses[y][x] = e.operands[x][y]
      BY <1>1 DEF GraphInv, Typed, Mirror, Bag
    <3>2. QED BY <1>1, <1>2, <1>4, <3>1 DEF IsNone
  <2>2. QED BY <1>1, <1>3, <1>4, <2>1 DEF GraphInv, Inside
<1>7. RootsExact(f, det \ {n}, ret \ {n})
  BY <1>1, <1>3, <1>4 DEF GraphInv, RootsExact
<1>8. HistoryIdle(f, det \ {n}, ret \ {n})
  BY <1>1, <1>3 DEF GraphInv, HistoryIdle
<1>9. GraphInv(f, det \ {n}, ret \ {n})
  BY <1>5, <1>6, <1>7, <1>8 DEF GraphInv
<1>10. QED BY <1>9 DEF f

-----------------------------------------------------------------------------
(* setOperands: the old operands lose a use, then the new ones gain one.   *)
LEMMA SetOperandsInv ==
  ASSUME NEW h, NEW det, NEW ret, GraphInv(h, det, ret),
         NEW n \in h.alive, NEW b \in Bag,
         \A m \in Node : b[m] > 0 => m \in h.alive
  PROVE  GraphInv(SetOperands(h, n, b), det \ {n}, ret \ Elements(b))
<1> DEFINE f == SetOperands(h, n, b)
           u == UsesMinus(h.uses, n, h.operands[n])
<1>0. /\ Typed(h) /\ Mirror(h) /\ Inside(h)
      /\ RootsExact(h, det, ret) /\ HistoryIdle(h, det, ret)
      /\ h.uses \in [Node -> Bag] /\ h.operands \in [Node -> Bag]
      /\ n \in Node /\ h.operands[n] \in Bag
  BY DEF GraphInv, Typed
<1>1. /\ f.alive = h.alive
      /\ f.operands = [h.operands EXCEPT ![n] = b]
      /\ f.uses = UsesPlus(u, n, b)
      /\ f.sources = LET s == IF IsNone(h.operands[n]) THEN h.sources \ {n} ELSE h.sources
                     IN  IF IsNone(b) THEN s \cup {n} ELSE s
      /\ f.sinks = SinksPlus(SinksMinus(h.sinks, h.uses, n, h.operands[n]), u, b)
  BY DEF f, u, SetOperands
<1>a. Typed(f) <=> /\ f.alive \in SUBSET Node /\ f.operands \in [Node -> Bag]
                   /\ f.uses \in [Node -> Bag]
                   /\ f.sources \in SUBSET Node /\ f.sinks \in SUBSET Node
  BY DEF f, SetOperands, Typed
<1>b. u \in [Node -> Bag]
  BY <1>0, UsesMinusType
<1>c. \A x, k \in Node : u[x][k] = IF k = n THEN 0 ELSE h.uses[x][k]
  BY DropAllEntry
<1>d. \A x \in Node : x \in SinksMinus(h.sinks, h.uses, n, h.operands[n]) <=>
         x \in h.alive /\ x \notin ret /\ IsNone(u[x])
  BY DropAllSinks
<1> HIDE DEF f, u
<1>e. n \in Node /\ f.uses = UsesPlus(u, n, b)
  BY <1>0, <1>1
<1>t. f.uses \in [Node -> Bag]
  BY <1>b, <1>e, UsesPlusType
<1>u. \A x, k \in Node : f.uses[x][k] = IF k = n THEN u[x][k] + b[x] ELSE u[x][k]
  BY <1>b, <1>e, UsesPlusEntry
<1>v. \A x \in Node : IsNone(f.uses[x]) <=> IsNone(u[x]) /\ b[x] = 0
  BY <1>b, <1>e, UsesPlusNone
<1>n. \A x \in Node : b[x] \in Nat
  BY DEF Bag
<1>o. \A x, y \in Node : f.operands[x][y] = IF x = n THEN b[y] ELSE h.operands[x][y]
  BY <1>0, <1>1
<1>2. Typed(f)
  <2>1. f.operands \in [Node -> Bag]
    BY <1>0, <1>1
  <2>2. f.sinks \in SUBSET Node
    BY <1>0, <1>1 DEF SinksPlus, SinksMinus, Typed
  <2>3. f.sources \in SUBSET Node
    BY <1>0, <1>1 DEF Typed
  <2>4. QED BY <1>0, <1>1, <1>a, <1>t, <2>1, <2>2, <2>3 DEF Typed
<1>3. Mirror(f)
  <2>1. ASSUME NEW x \in Node, NEW y \in Node PROVE f.uses[y][x] = f.operands[x][y]
    <3>1. h.uses[y][x] = h.operands[x][y]
      BY <1>0 DEF Mirror
    <3>2. CASE x = n
      BY <1>c, <1>u, <1>n, <1>o, <3>2
    <3>3. CASE x # n
      BY <1>c, <1>u, <1>o, <3>1, <3>3
    <3>4. QED BY <3>2, <3>3
  <2>2. QED BY <2>1 DEF Mirror
<1>4. \A x \in Node : x \in f.sinks <=>
         x \in f.alive /\ IsNone(f.uses[x]) /\ x \notin ret \ Elements(b)
  <2>1. ASSUME NEW x \in Node
        PROVE  x \in f.sinks <=> x \in h.alive /\ x \notin ret /\ IsNone(u[x]) /\ b[x] = 0
    BY <1>1, <1>d, <1>n DEF SinksPlus
  <2>2. QED BY <1>1, <1>v, <1>n, <2>1 DEF Elements
<1>5. \A x \in Node : IsNone(f.operands[x]) <=>
         IF x = n THEN IsNone(b) ELSE IsNone(h.operands[x])
  BY <1>0, <1>1
<1>6. \A x \in Node : x \in f.sources <=>
         x \in f.alive /\ IsNone(f.operands[x]) /\ x \notin det \ {n}
  <2>1. ASSUME NEW x \in Node
        PROVE  x \in f.sources <=>
                 x \in f.alive /\ IsNone(f.operands[x]) /\ x \notin det \ {n}
    <3>1. x \in h.sources <=> x \in h.alive /\ IsNone(h.operands[x]) /\ x \notin det
      BY <1>0 DEF RootsExact
    <3>2. QED BY <3>1, <1>1, <1>5
  <2>2. QED BY <2>1
<1>7. Inside(f)
  <2>1. f.sources \cup f.sinks \subseteq f.alive
    BY <1>2, <1>4, <1>6 DEF Typed
  <2>2. QED BY <2>1, <1>0, <1>1, <1>o DEF Inside
<1>8. RootsExact(f, det \ {n}, ret \ Elements(b))
  BY <1>4, <1>6 DEF RootsExact
<1>9. HistoryIdle(f, det \ {n}, ret \ Elements(b))
  <2>1. \A x \in ret \ Elements(b) : IsNone(f.uses[x])
    <3>1. \A x \in ret \ Elements(b) : x \in Node /\ b[x] = 0 /\ IsNone(h.uses[x])
      BY <1>0, <1>n DEF HistoryIdle, Elements
    <3>2. \A x \in Node : IsNone(h.uses[x]) => IsNone(u[x])
      BY <1>c DEF IsNone
    <3>3. QED BY <3>1, <3>2, <1>v
  <2>2. QED BY <2>1, <1>0, <1>5 DEF HistoryIdle
<1>10. GraphInv(f, det \ {n}, ret \ Elements(b))
  BY <1>2, <1>3, <1>7, <1>8, <1>9 DEF GraphInv
<1>11. QED BY <1>10 DEF f

-----------------------------------------------------------------------------
(* eraseOperand removes one occurrence on both sides; the last one makes   *)
(* the operand a sink, and the node a source.                              *)
LEMMA EraseOperandInv ==
  ASSUME NEW h, NEW det, NEW ret, GraphInv(h, det, ret),
         NEW n \in Node, NEW m \in Node, h.operands[n][m] > 0
  PROVE  GraphInv(EraseOperand(h, n, m), det, ret)
<1> DEFINE f == EraseOperand(h, n, m)
           b == One(m)
<1>0. /\ Typed(h) /\ Mirror(h) /\ Inside(h)
      /\ RootsExact(h, det, ret) /\ HistoryIdle(h, det, ret)
      /\ h.uses \in [Node -> Bag] /\ h.operands \in [Node -> Bag]
      /\ n \in h.alive /\ m \in h.alive
      /\ \A x, y \in Node : /\ h.uses[y][x] = h.operands[x][y]
                            /\ h.uses[y][x] \in Nat /\ h.operands[x][y] \in Nat
      /\ n \notin det /\ m \notin ret
  BY DEF GraphInv, Typed, Mirror, Inside, HistoryIdle, IsNone, Bag
<1>1. b \in Bag /\ \A x \in Node : b[x] = (IF x = m THEN 1 ELSE 0)
  BY BagFacts
<1>2. /\ f.alive = h.alive
      /\ f.operands = [h.operands EXCEPT ![n] = [h.operands[n] EXCEPT ![m] = @ - 1]]
      /\ f.uses = UsesMinus(h.uses, n, b)
      /\ f.sources = IF IsNone([h.operands[n] EXCEPT ![m] = @ - 1])
                     THEN h.sources \cup {n} ELSE h.sources
      /\ f.sinks = SinksMinus(h.sinks, h.uses, n, b)
  BY DEF f, b, EraseOperand
<1>a. Typed(f) <=> /\ f.alive \in SUBSET Node /\ f.operands \in [Node -> Bag]
                   /\ f.uses \in [Node -> Bag]
                   /\ f.sources \in SUBSET Node /\ f.sinks \in SUBSET Node
  BY DEF f, EraseOperand, Typed
<1> HIDE DEF f, b
<1>e. h.uses \in [Node -> Bag] /\ b \in Bag /\ f.uses = UsesMinus(h.uses, n, b)
  BY <1>0, <1>1, <1>2
<1>t. f.uses \in [Node -> Bag]
  BY <1>e, UsesMinusType
<1>u. \A x, k \in Node : f.uses[x][k] =
         IF k = n THEN (IF h.uses[x][k] > b[x] THEN h.uses[x][k] - b[x] ELSE 0)
                  ELSE h.uses[x][k]
  BY <1>e, UsesMinusEntry
<1>w. \A x, k \in Node : f.uses[x][k] =
         IF x = m /\ k = n THEN h.uses[x][k] - 1 ELSE h.uses[x][k]
  BY <1>0, <1>1, <1>u
<1>o. /\ f.operands \in [Node -> Bag]
      /\ \A x, y \in Node : f.operands[x][y] =
           IF x = n /\ y = m THEN h.operands[x][y] - 1 ELSE h.operands[x][y]
  BY <1>0, <1>2 DEF Bag
<1>3. Typed(f)
  <2>1. f.sinks \in SUBSET Node
    BY <1>0, <1>2 DEF SinksMinus, Typed
  <2>2. f.sources \in SUBSET Node
    BY <1>0, <1>2 DEF Typed
  <2>3. QED BY <1>0, <1>2, <1>a, <1>t, <1>o, <2>1, <2>2 DEF Typed
<1>4. Mirror(f)
  BY <1>0, <1>w, <1>o DEF Mirror
<1>5. \A x \in Node : x # m => (IsNone(f.uses[x]) <=> IsNone(h.uses[x]))
  BY <1>0, <1>w DEF IsNone
<1>6. ~IsNone(h.uses[m]) /\ ~IsNone(h.operands[n])
  BY <1>0 DEF IsNone
<1>7. ASSUME NEW x \in Node
      PROVE  x \in f.sinks <=> x \in f.alive /\ IsNone(f.uses[x]) /\ x \notin ret
  <2>1. x \in f.sinks <=> x \in h.sinks \/ (b[x] > 0 /\ h.uses[x][n] > 0 /\ IsNone(f.uses[x]))
    BY <1>2 DEF SinksMinus
  <2>2. x \in h.sinks <=> x \in h.alive /\ IsNone(h.uses[x]) /\ x \notin ret
    BY <1>0 DEF RootsExact
  <2>3. CASE x = m
    <3>1. b[x] > 0 /\ h.uses[x][n] > 0
      BY <1>0, <1>1, <2>3
    <3>2. QED BY <1>0, <1>2, <1>6, <2>1, <2>2, <2>3, <3>1
  <2>4. CASE x # m
    <3>1. ~(b[x] > 0)
      BY <1>1, <2>4
    <3>2. QED BY <1>2, <1>5, <2>1, <2>2, <2>4, <3>1
  <2>5. QED BY <2>3, <2>4
<1>8. ASSUME NEW x \in Node
      PROVE  x \in f.sources <=> x \in f.alive /\ IsNone(f.operands[x]) /\ x \notin det
  <2>1. x \in h.sources <=> x \in h.alive /\ IsNone(h.operands[x]) /\ x \notin det
    BY <1>0 DEF RootsExact
  <2>2. f.operands[n] = [h.operands[n] EXCEPT ![m] = @ - 1]
    BY <1>0, <1>2
  <2>3. x # n => f.operands[x] = h.operands[x]
    BY <1>0, <1>2
  <2>4. QED BY <1>0, <1>2, <1>6, <2>1, <2>2, <2>3
<1>9. Inside(f)
  <2>1. f.sources \cup f.sinks \subseteq f.alive
    BY <1>3, <1>7, <1>8 DEF Typed
  <2>2. \A x, y \in Node : f.operands[x][y] > 0 => h.operands[x][y] > 0
    BY <1>0, <1>o
  <2>3. QED BY <2>1, <2>2, <1>0, <1>2 DEF Inside
<1>10. RootsExact(f, det, ret)
  BY <1>7, <1>8 DEF RootsExact
<1>11. HistoryIdle(f, det, ret)
  <2>1. \A x \in det : IsNone(f.operands[x])
    BY <1>0, <1>o DEF HistoryIdle, IsNone
  <2>2. QED BY <1>0, <1>5, <2>1 DEF HistoryIdle
<1>12. GraphInv(f, det, ret)
  BY <1>3, <1>4, <1>9, <1>10, <1>11 DEF GraphInv
<1>13. QED BY <1>12 DEF f

-----------------------------------------------------------------------------
(* replaceUsesWithIf moves entries from `old' to `new' in users that have  *)
(* `old': no user changes its number of operands, so the sources stay; the *)
(* sinks gain `old' when its last use moved and lose `new' when it gained  *)
(* its first.                                                              *)
LEMMA ReplaceUsesInv ==
  ASSUME NEW h, NEW det, NEW ret, GraphInv(h, det, ret),
         NEW old \in h.alive, NEW new \in h.alive, old # new,
         NEW S \in SUBSET Node, \A s \in S : h.uses[old][s] > 0
  PROVE  GraphInv(ReplaceUses(h, old, new, S), det, IF S = {} THEN ret ELSE ret \ {new})
<1> DEFINE f == ReplaceUses(h, old, new, S)
           moved == [s \in Node |-> IF s \in S THEN h.operands[s][old] ELSE 0]
           left == [s \in Node |-> IF h.uses[old][s] > moved[s]
                                   THEN h.uses[old][s] - moved[s] ELSE 0]
           gained == [s \in Node |-> h.uses[new][s] + moved[s]]
           R == IF S = {} THEN ret ELSE ret \ {new}
<1>0. /\ Typed(h) /\ Mirror(h) /\ Inside(h)
      /\ RootsExact(h, det, ret) /\ HistoryIdle(h, det, ret)
      /\ h.uses \in [Node -> Bag] /\ h.operands \in [Node -> Bag]
      /\ old \in Node /\ new \in Node
  BY DEF GraphInv, Typed
<1>m. \A x, y \in Node : /\ h.uses[y][x] = h.operands[x][y]
                         /\ h.uses[y][x] \in Nat /\ h.operands[x][y] \in Nat
  BY <1>0 DEF Mirror, Bag
<1>1. /\ f.alive = h.alive
      /\ f.operands = [s \in Node |-> [h.operands[s] EXCEPT ![old] = @ - moved[s],
                                                            ![new] = @ + moved[s]]]
      /\ f.uses = [h.uses EXCEPT ![old] = left, ![new] = [s \in Node |-> @[s] + moved[s]]]
      /\ f.sources = h.sources
      /\ f.sinks = (h.sinks \cup (IF IsNone(left) /\ ~IsNone(h.uses[old])
                                  THEN {old} ELSE {}))
                     \ (IF IsNone(h.uses[new]) /\ ~IsNone(moved) THEN {new} ELSE {})
  BY DEF f, moved, left, ReplaceUses
<1>a. Typed(f) <=> /\ f.alive \in SUBSET Node /\ f.operands \in [Node -> Bag]
                   /\ f.uses \in [Node -> Bag]
                   /\ f.sources \in SUBSET Node /\ f.sinks \in SUBSET Node
  BY DEF f, ReplaceUses, Typed
<1>2. moved \in Bag /\ \A s \in Node : moved[s] = IF s \in S THEN h.operands[s][old] ELSE 0
  BY <1>0, <1>m DEF Bag
<1>3. left \in Bag /\ \A s \in Node : left[s] = IF s \in S THEN 0 ELSE h.uses[old][s]
  BY <1>0, <1>m DEF Bag
<1>4. gained \in Bag /\ \A s \in Node : gained[s] = h.uses[new][s] + moved[s]
  BY <1>0, <1>m, <1>2 DEF Bag
<1>5. /\ f.uses \in [Node -> Bag]
      /\ f.uses[old] = left /\ f.uses[new] = gained
      /\ \A x \in Node \ {old, new} : f.uses[x] = h.uses[x]
  <2>1. f.uses = [h.uses EXCEPT ![old] = left, ![new] = gained]
    BY <1>0, <1>1
  <2> HIDE DEF left, gained
  <2>2. QED BY <2>1, <1>0, <1>3, <1>4
<1> HIDE DEF f, moved, left, gained, R
<1>6. /\ f.operands \in [Node -> Bag]
      /\ \A s, y \in Node : f.operands[s][y] =
           IF y = old THEN h.operands[s][y] - moved[s]
           ELSE IF y = new THEN h.operands[s][y] + moved[s] ELSE h.operands[s][y]
  <2>1. \A s \in Node : h.operands[s][old] - moved[s] \in Nat
                        /\ h.operands[s][new] + moved[s] \in Nat
    BY <1>0, <1>m, <1>2 DEF Bag
  <2>2. ASSUME NEW s \in Node
        PROVE  /\ f.operands[s] \in Bag
               /\ \A y \in Node : f.operands[s][y] =
                    IF y = old THEN h.operands[s][y] - moved[s]
                    ELSE IF y = new THEN h.operands[s][y] + moved[s] ELSE h.operands[s][y]
    <3>1. f.operands[s] = [h.operands[s] EXCEPT ![old] = @ - moved[s], ![new] = @ + moved[s]]
      BY <1>1
    <3>2. h.operands[s] \in [Node -> Nat]
      BY <1>0 DEF Bag
    <3>3. \A y \in Node : f.operands[s][y] =
            IF y = old THEN h.operands[s][y] - moved[s]
            ELSE IF y = new THEN h.operands[s][y] + moved[s] ELSE h.operands[s][y]
      BY <1>0, <3>1, <3>2
    <3>4. f.operands[s] = [y \in Node |-> f.operands[s][y]]
      BY <3>1, <3>2
    <3>5. \A y \in Node : f.operands[s][y] \in Nat
      BY <1>m, <2>1, <3>3
    <3>6. QED BY <3>3, <3>4, <3>5 DEF Bag
  <2>3. f.operands = [s \in Node |-> f.operands[s]]
    BY <1>1
  <2>4. QED BY <2>2, <2>3
<1>7. Mirror(f)
  <2>1. ASSUME NEW x \in Node, NEW y \in Node PROVE f.uses[y][x] = f.operands[x][y]
    <3>1. CASE y = old
      BY <1>0, <1>m, <1>2, <1>3, <1>5, <1>6, <3>1
    <3>2. CASE y = new
      BY <1>0, <1>m, <1>2, <1>4, <1>5, <1>6, <3>2
    <3>3. CASE y # old /\ y # new
      BY <1>m, <1>5, <1>6, <3>3
    <3>4. QED BY <3>1, <3>2, <3>3
  <2>2. QED BY <2>1 DEF Mirror
<1>8. IsNone(moved) <=> S = {}
  BY <1>0, <1>m, <1>2 DEF IsNone
<1>9. IsNone(f.uses[new]) <=> IsNone(h.uses[new]) /\ S = {}
  <2>1. IsNone(gained) <=> IsNone(h.uses[new]) /\ IsNone(moved)
    <3>1. \A s \in Node : /\ h.uses[new][s] \in Nat /\ moved[s] \in Nat
                          /\ gained[s] = h.uses[new][s] + moved[s]
      BY <1>0, <1>m, <1>2, <1>4 DEF Bag
    <3>2. QED BY <3>1 DEF IsNone
  <2>2. QED BY <1>5, <1>8, <2>1
<1>10. \A s \in Node : IsNone(f.operands[s]) <=> IsNone(h.operands[s])
  <2>1. ASSUME NEW s \in Node, s \in S
        PROVE  ~IsNone(f.operands[s]) /\ ~IsNone(h.operands[s])
    <3>1. h.operands[s][old] > 0 /\ moved[s] = h.operands[s][old]
      BY <1>0, <1>m, <1>2, <2>1
    <3>2. f.operands[s][new] > 0
      BY <1>0, <1>m, <1>6, <3>1
    <3>3. QED BY <1>0, <3>1, <3>2 DEF IsNone
  <2>2. ASSUME NEW s \in Node, s \notin S, NEW y \in Node
        PROVE  f.operands[s][y] = h.operands[s][y]
    BY <1>m, <1>2, <1>6, <2>2
  <2>3. QED BY <2>1, <2>2 DEF IsNone
<1>11. IsNone(h.uses[old]) => IsNone(left)
  BY <1>3 DEF IsNone
<1>12. ASSUME NEW x \in Node
       PROVE  x \in f.sinks <=> x \in f.alive /\ IsNone(f.uses[x]) /\ x \notin R
  <2>1. x \in h.sinks <=> x \in h.alive /\ IsNone(h.uses[x]) /\ x \notin ret
    BY <1>0 DEF RootsExact
  <2>2. x \in ret => IsNone(h.uses[x])
    BY <1>0 DEF HistoryIdle
  <2>3. x \in R <=> x \in ret /\ (S = {} \/ x # new)
    BY DEF R
  <2>4. CASE x = old
    <3>1. IsNone(h.uses[old]) => S = {}
      BY <1>0 DEF IsNone
    <3>2. QED BY <1>1, <1>5, <1>11, <2>1, <2>2, <2>3, <2>4, <3>1
  <2>5. CASE x = new
    BY <1>1, <1>8, <1>9, <2>1, <2>2, <2>3, <2>5
  <2>6. CASE x # old /\ x # new
    BY <1>1, <1>5, <2>1, <2>3, <2>6
  <2>7. QED BY <2>4, <2>5, <2>6
<1>13. Typed(f)
  <2>1. f.sinks \in SUBSET Node /\ f.sources \in SUBSET Node /\ f.alive \in SUBSET Node
    BY <1>0, <1>1 DEF Typed
  <2>2. QED BY <1>a, <1>5, <1>6, <2>1
<1>14. Inside(f)
  <2>1. f.sources \cup f.sinks \subseteq f.alive
    BY <1>0, <1>1, <1>12, <1>13 DEF Inside, Typed
  <2>2. ASSUME NEW s \in Node, NEW y \in Node, f.operands[s][y] > 0
        PROVE  s \in h.alive /\ y \in h.alive
    <3>1. CASE h.operands[s][y] > 0
      BY <1>0, <3>1 DEF Inside
    <3>2. CASE ~(h.operands[s][y] > 0)
      <4>1. y = new /\ s \in S
        BY <1>m, <1>2, <1>6, <2>2, <3>2
      <4>2. h.operands[s][old] > 0
        BY <1>0, <1>m, <4>1
      <4>3. QED BY <1>0, <4>1, <4>2 DEF Inside
    <3>3. QED BY <3>1, <3>2
  <2>3. QED BY <2>1, <2>2, <1>1 DEF Inside
<1>15. RootsExact(f, det, R)
  BY <1>0, <1>1, <1>10, <1>12 DEF RootsExact
<1>16. HistoryIdle(f, det, R)
  <2>1. ASSUME NEW x \in R PROVE IsNone(f.uses[x])
    <3>1. x \in Node /\ IsNone(h.uses[x]) /\ (S = {} \/ x # new)
      BY <1>0, <2>1 DEF HistoryIdle, R
    <3>2. QED BY <1>5, <1>9, <1>11, <3>1
  <2>2. R \subseteq ret
    BY DEF R
  <2>3. QED BY <1>0, <1>10, <2>1, <2>2 DEF HistoryIdle
<1>17. GraphInv(f, det, R)
  BY <1>7, <1>13, <1>14, <1>15, <1>16 DEF GraphInv
<1>18. QED BY <1>17 DEF f, R

-----------------------------------------------------------------------------
\* A graph whose two sides and roots agree, in the direction of the pass.
Regular(G, forward) ==
  /\ Roots(G, forward) = {n \in G.alive : Preds(G, forward, n) = {}}
  /\ \A n \in Node : Succs(G, forward, n) = {s \in Node : n \in Preds(G, forward, s)}
  /\ \A n \in Node : Succs(G, forward, n) \subseteq G.alive
  /\ G.alive \subseteq Node

\* In every set of nodes there is one without a predecessor in the set.
Acyclic(G, forward) ==
  \A S \in SUBSET Node :
    S # {} => \E n \in S : Preds(G, forward, n) \cap S = {}

(* The nodes on the stack and the processed ones are those that were ready *)
(* so far: exactly the nodes whose predecessors are all processed.         *)
Ordered(T, G, forward) ==
  /\ T.ready = T.todo \cup T.processed
  /\ T.todo \cap T.processed = {}
  /\ T.ready = {n \in G.alive : Preds(G, forward, n) \subseteq T.processed}

-----------------------------------------------------------------------------
\* The traversal begins in order.
LEMMA BeginOrdered ==
  ASSUME NEW G, NEW forward, Regular(G, forward)
  PROVE  Ordered(Begin(G, forward), G, forward)
<1>1. /\ Begin(G, forward).todo = Roots(G, forward)
      /\ Begin(G, forward).ready = Roots(G, forward)
      /\ Begin(G, forward).processed = {}
  BY DEF Begin
<1> QED
  BY <1>1, Zenon DEF Ordered, Regular

(* One iteration keeps the order: the successors of the node taken are the *)
(* only nodes that can have become ready by it.                            *)
THEOREM AdvanceOrdered ==
  ASSUME NEW G, NEW forward, Regular(G, forward),
         NEW T, Ordered(T, G, forward), NEW n \in T.todo
  PROVE  Ordered(Advance(T, forward, n, G, G, TRUE), G, forward)
<1> DEFINE done    == T.processed \cup {n}
           fresh   == Roots(G, forward) \ T.ready
           checked == Succs(G, forward, n)
           enabled == {s \in checked \ T.ready : Preds(G, forward, s) \subseteq done}
           next    == Advance(T, forward, n, G, G, TRUE)
<1>1. n \in Node /\ n \in T.ready /\ n \notin T.processed
  BY DEF Ordered, Regular
<1>2. fresh = {}
  BY DEF Ordered, Regular
<1>3. /\ next.todo = (T.todo \ {n}) \cup enabled
      /\ next.ready = T.ready \cup enabled
      /\ next.processed = done
  BY <1>2 DEF Advance
<1>4. enabled \cap done = {}
  BY <1>1 DEF Ordered
<1>5. \A s \in G.alive : Preds(G, forward, s) \subseteq done =>
        s \in T.ready \/ s \in enabled
  <2> SUFFICES ASSUME NEW s \in G.alive, Preds(G, forward, s) \subseteq done,
                      s \notin T.ready
               PROVE  s \in enabled
    OBVIOUS
  <2>1. n \in Preds(G, forward, s)
    BY DEF Ordered
  <2>2. s \in checked
    BY <1>1, <2>1 DEF Regular
  <2> QED
    BY <2>2
<1>6. enabled \subseteq G.alive
  BY <1>1 DEF Regular
<1> HIDE DEF done, enabled, next
<1>7. next.ready = {s \in G.alive : Preds(G, forward, s) \subseteq next.processed}
  <2>1. \A s \in enabled : Preds(G, forward, s) \subseteq done
    BY DEF enabled
  <2>2. \A s \in T.ready : s \in G.alive /\ Preds(G, forward, s) \subseteq done
    BY DEF Ordered, done
  <2> QED
    BY <1>3, <1>5, <1>6, <2>1, <2>2
<1>8. next.ready = next.todo \cup next.processed /\ next.todo \cap next.processed = {}
  BY <1>1, <1>3, <1>4 DEF Ordered, done
<1> QED
  BY <1>7, <1>8 DEF Ordered, next

\* The loop ends when every node has been processed.
THEOREM EndComplete ==
  ASSUME NEW G, NEW forward, Regular(G, forward), Acyclic(G, forward),
         \A n \in Node : Preds(G, forward, n) \subseteq G.alive,
         NEW T, Ordered(T, G, forward), T.todo = {}
  PROVE  T.processed = G.alive
<1> DEFINE rest == G.alive \ T.processed
<1>1. T.processed \subseteq G.alive
  BY DEF Ordered
<1>2. ASSUME rest # {} PROVE FALSE
  <2>1. rest \in SUBSET Node
    BY DEF Regular
  <2>2. PICK n \in rest : Preds(G, forward, n) \cap rest = {}
    BY <1>2, <2>1 DEF Acyclic
  <2>3. Preds(G, forward, n) \subseteq T.processed
    BY <2>1, <2>2
  <2> QED
    BY <2>2, <2>3 DEF Ordered
<1> QED
  BY <1>1, <1>2
-----------------------------------------------------------------------------
(* A rewriter that changes the graph: what is still to come, the open      *)
(* nodes, and the order that every pass keeps.  entry are the nodes that   *)
(* the pass found when it began, seen the ones that it visited.            *)
OpenNodes(T, entry) == T.todo \cup (entry \ T.ready)

InOrder(T, G, forward, entry, seen) ==
  /\ T.ready = T.todo \cup seen /\ T.todo \cap seen = {}
  /\ T.processed \subseteq seen
  /\ T.ready \subseteq G.alive /\ entry \subseteq G.alive /\ G.alive \subseteq Node
  /\ Roots(G, forward) \subseteq T.ready
  /\ \A s \in Node :
       Preds(G, forward, s) \cap OpenNodes(T, entry) # {} => s \in entry \ T.ready
  /\ \A s \in T.todo : Preds(G, forward, s) \subseteq T.processed
  /\ \A s \in entry \ T.ready :
       /\ Preds(G, forward, s) \subseteq T.processed \cup OpenNodes(T, entry)
       /\ Preds(G, forward, s) \cap OpenNodes(T, entry) # {}

(* What the rewriter of n may do: n's place as a predecessor of open nodes *)
(* can go to processed nodes and to new roots, and nothing else that is    *)
(* open gets or loses a successor.                                         *)
Gentle(T, G, H, forward, entry, n, keep) ==
  LET fresh == Roots(H, forward) \ T.ready
      open  == OpenNodes(T, entry)
      still == IF keep THEN {n} ELSE {}
  IN  /\ G.alive \subseteq H.alive /\ H.alive \subseteq Node /\ fresh \subseteq H.alive
      /\ \A s \in fresh : Preds(H, forward, s) = {}
      /\ \A s \in Node :
           /\ Preds(H, forward, s) \cap fresh # {} => s \in entry \ T.ready
           /\ Preds(H, forward, s) \cap (open \ {n}) \subseteq Preds(G, forward, s)
      /\ \A s \in T.todo \ {n} : Preds(H, forward, s) \subseteq Preds(G, forward, s)
      /\ \A s \in entry \ T.ready :
           /\ Preds(H, forward, s) \subseteq
                (Preds(G, forward, s) \ {n}) \cup T.processed \cup fresh \cup still
           /\ n \notin Preds(G, forward, s) =>
                Preds(G, forward, s) \subseteq Preds(H, forward, s)
      /\ \A s \in Node : s \in Succs(G, forward, n) <=> n \in Preds(G, forward, s)
      /\ keep => Succs(H, forward, n) \subseteq Succs(G, forward, n)

\* One iteration with a gentle rewriter keeps the order.
LEMMA AdvanceInOrder ==
  ASSUME NEW G, NEW H, NEW forward, NEW T, NEW entry, NEW seen, NEW keep \in BOOLEAN,
         InOrder(T, G, forward, entry, seen), NEW n \in T.todo,
         Gentle(T, G, H, forward, entry, n, keep)
  PROVE  InOrder(Advance(T, forward, n, G, H, keep), H, forward, entry, seen \cup {n})
<1> DEFINE P(s) == Preds(G, forward, s)
           Q(s) == Preds(H, forward, s)
           fresh == Roots(H, forward) \ T.ready
           still == IF keep THEN {n} ELSE {}
           done  == T.processed \cup still
           open  == OpenNodes(T, entry)
           after == Succs(H, forward, n)
           checked == Succs(G, forward, n) \cup (IF keep THEN after ELSE {})
           enabled == {s \in checked \ (T.ready \cup fresh) : Q(s) \subseteq done}
           U == Advance(T, forward, n, G, H, keep)
           now == OpenNodes(U, entry)
<1>1. /\ U.todo = (T.todo \ {n}) \cup fresh \cup enabled
      /\ U.ready = T.ready \cup fresh \cup enabled
      /\ U.processed = done
  <2>1. done = IF keep THEN T.processed \cup {n} ELSE T.processed
    OBVIOUS
  <2> QED
    BY <2>1 DEF Advance
<1>2. /\ T.ready = T.todo \cup seen /\ T.todo \cap seen = {} /\ T.processed \subseteq seen
      /\ T.ready \subseteq G.alive /\ entry \subseteq G.alive
      /\ T.ready \subseteq Node /\ entry \subseteq Node
      /\ \A s \in Node : P(s) \cap open # {} => s \in entry \ T.ready
      /\ \A s \in T.todo : P(s) \subseteq T.processed
      /\ \A s \in entry \ T.ready : P(s) \subseteq T.processed \cup open /\ P(s) \cap open # {}
  BY DEF InOrder
<1>3. /\ fresh \subseteq Node
      /\ G.alive \subseteq H.alive /\ H.alive \subseteq Node /\ fresh \subseteq H.alive
      /\ \A s \in fresh : Q(s) = {}
      /\ \A s \in Node : /\ Q(s) \cap fresh # {} => s \in entry \ T.ready
                         /\ Q(s) \cap (open \ {n}) \subseteq P(s)
      /\ \A s \in T.todo \ {n} : Q(s) \subseteq P(s)
      /\ \A s \in entry \ T.ready :
           /\ Q(s) \subseteq (P(s) \ {n}) \cup T.processed \cup fresh \cup still
           /\ n \notin P(s) => P(s) \subseteq Q(s)
      /\ \A s \in Node : s \in Succs(G, forward, n) <=> n \in P(s)
      /\ keep => after \subseteq Succs(G, forward, n)
  BY DEF Gentle
<1>4. /\ open = T.todo \cup (entry \ T.ready)
      /\ now = U.todo \cup (entry \ U.ready)
  BY DEF OpenNodes
<1>5. Succs(G, forward, n) \subseteq Node
  BY DEF Succs, Preds
<1> HIDE DEF P, Q, U, open, now, fresh, after
<1>6. n \in open /\ n \in T.ready /\ n \in Node
  BY <1>2, <1>4
<1>7. checked = Succs(G, forward, n)
  BY <1>3
<1>8. enabled \subseteq entry \ T.ready
  BY <1>2, <1>3, <1>5, <1>6, <1>7
<1>9. \A s \in Node : n \in P(s) => s \in checked
  BY <1>3, <1>7
<1>10. \A s \in enabled : Q(s) \subseteq done /\ s \notin fresh
  OBVIOUS
<1>11. \A s \in checked : s \in T.ready \/ s \in fresh \/ s \in enabled \/ ~(Q(s) \subseteq done)
  OBVIOUS
<1> HIDE DEF checked, enabled
<1>12. /\ U.ready = U.todo \cup (seen \cup {n}) /\ U.todo \cap (seen \cup {n}) = {}
       /\ U.processed \subseteq seen \cup {n}
       /\ U.ready \subseteq H.alive
  <2>1. /\ fresh \cap T.ready = {} /\ enabled \cap T.ready = {}
        /\ enabled \subseteq G.alive
        /\ done \subseteq T.processed \cup {n}
    BY <1>2, <1>8 DEF fresh
  <2> QED
    BY <2>1, <1>1, <1>2, <1>3, <1>6
<1>13. Roots(H, forward) \subseteq U.ready
  BY <1>1 DEF fresh
<1>14. now \subseteq (open \ {n}) \cup fresh /\ open \ {n} \subseteq now /\ fresh \subseteq now
  BY <1>1, <1>2, <1>4, <1>6, <1>8
<1>15. done \cap now = {}
  BY <1>4, <1>12, <1>1
<1>16. ASSUME NEW s \in Node, Q(s) \cap now # {}
       PROVE  s \in entry \ U.ready
  <2>1. PICK y \in Q(s) : y \in now
    BY <1>16
  <2>2. s \in entry \ T.ready
    <3>1. CASE y \in fresh
      BY <3>1, <2>1, <1>3
    <3>2. CASE y \in open \ {n}
      BY <3>2, <2>1, <1>3, <1>2
    <3> QED
      BY <2>1, <3>1, <3>2, <1>14
  <2>3. s \notin fresh
    BY <2>1, <1>3
  <2>4. s \notin enabled
    BY <2>1, <1>10, <1>15
  <2> QED
    BY <2>2, <2>3, <2>4, <1>1
<1>17. \A s \in U.todo : Q(s) \subseteq U.processed
  <2>1. \A s \in T.todo \ {n} : Q(s) \subseteq done
    BY <1>2, <1>3 DEF done
  <2> QED
    BY <2>1, <1>1, <1>3, <1>10
<1>18. ASSUME NEW s \in entry \ U.ready
       PROVE  Q(s) \subseteq U.processed \cup now /\ Q(s) \cap now # {}
  <2>1. s \in entry \ T.ready /\ s \notin fresh /\ s \notin enabled /\ s \in Node
    BY <1>1, <1>2
  <2>2. Q(s) \subseteq done \cup now
    <3>1. Q(s) \subseteq (P(s) \ {n}) \cup T.processed \cup fresh \cup still
      BY <2>1, <1>3
    <3>2. P(s) \subseteq T.processed \cup open
      BY <2>1, <1>2
    <3> QED
      BY <3>1, <3>2, <1>14 DEF done
  <2>3. CASE n \in P(s)
    <3>1. ~(Q(s) \subseteq done)
      BY <2>1, <2>3, <1>9, <1>11
    <3> QED
      BY <3>1, <2>2, <1>1
  <2>4. CASE n \notin P(s)
    <3>1. P(s) \subseteq Q(s) /\ P(s) \cap open # {}
      BY <2>1, <2>4, <1>2, <1>3
    <3> QED
      BY <3>1, <2>2, <2>4, <1>1, <1>14
  <2> QED
    BY <2>3, <2>4
<1> QED
  BY <1>12, <1>13, <1>16, <1>17, <1>18, <1>2, <1>3 DEF InOrder, U, Q, now

\* A pass begins in order, if every node with a predecessor is one that it finds.
LEMMA BeginInOrder ==
  ASSUME NEW G, NEW forward, NEW entry \in SUBSET G.alive,
         G.alive \subseteq Node, Roots(G, forward) \subseteq G.alive,
         \A s \in Roots(G, forward) : Preds(G, forward, s) = {},
         \A s \in Node : Preds(G, forward, s) # {} => s \in entry,
         \A s \in entry \ Roots(G, forward) :
            Preds(G, forward, s) # {} /\ Preds(G, forward, s) \subseteq entry
  PROVE  InOrder(Begin(G, forward), G, forward, entry, {})
<1> DEFINE T == Begin(G, forward)
<1>1. T.todo = Roots(G, forward) /\ T.ready = Roots(G, forward) /\ T.processed = {}
  BY DEF Begin
<1>2. OpenNodes(T, entry) = Roots(G, forward) \cup entry
  BY <1>1 DEF OpenNodes
<1> HIDE DEF T
<1> QED
  BY <1>1, <1>2 DEF InOrder, T

\* A pass that has nothing ready any more has visited all that it found.
LEMMA EndInOrder ==
  ASSUME NEW G, NEW forward, Acyclic(G, forward),
         NEW T, NEW entry, NEW seen, InOrder(T, G, forward, entry, seen), T.todo = {}
  PROVE  entry \subseteq seen
<1> DEFINE rest == entry \ T.ready
<1>1. /\ rest \in SUBSET Node /\ OpenNodes(T, entry) = rest
      /\ \A s \in rest : Preds(G, forward, s) \cap rest # {}
      /\ T.ready = seen
  BY DEF InOrder, OpenNodes
<1>2. rest = {}
  BY <1>1 DEF Acyclic
<1> QED
  BY <1>1, <1>2
-----------------------------------------------------------------------------
\* Without an edge more there is no cycle more.
LEMMA FewerEdges ==
  ASSUME NEW h, NEW f, NEW forward, Acyclic(h, forward),
         \A x \in Node : Preds(f, forward, x) \subseteq Preds(h, forward, x)
  PROVE  Acyclic(f, forward)
<1> SUFFICES ASSUME NEW S \in SUBSET Node, S # {}
             PROVE  \E x \in S : Preds(f, forward, x) \cap S = {}
  BY DEF Acyclic
<1>1. PICK x \in S : Preds(h, forward, x) \cap S = {}
  BY DEF Acyclic
<1> QED
  BY <1>1

\* A set of numbers has a least one, and below a bound a largest one.
LEMMA LeastNumber ==
  ASSUME NEW S \in SUBSET Nat, S # {}
  PROVE  \E x \in S : \A y \in S : x <= y
<1>1. PICK x \in S : \A y \in S : ~(<<y, x>> \in OpToRel(<, Nat))
  BY NatLessThanWellFounded, WFMin, Zenon
<1>2. ASSUME NEW y \in S PROVE x <= y
  <2>1. ~(y < x)
    BY <1>1 DEF OpToRel
  <2> QED
    BY <2>1
<1> QED
  BY <1>2

\* Below a bound there is a largest one.
LEMMA LargestNumber ==
  ASSUME NEW k \in Nat, NEW S \in SUBSET (0 .. k), S # {}
  PROVE  \E x \in S : \A y \in S : y <= x
<1> DEFINE R == {k - y : y \in S}
<1>1. R \in SUBSET Nat /\ R # {}
  <2>1. \A y \in S : y \in Nat /\ y <= k
    OBVIOUS
  <2>2. \A y \in S : k - y \in Nat
    BY <2>1
  <2> QED
    BY <2>2
<1>2. PICK z \in R : \A y \in R : z <= y
  BY <1>1, LeastNumber
<1>3. PICK x \in S : z = k - x
  BY <1>2
<1>4. ASSUME NEW y \in S PROVE y <= x
  <2>1. k - x <= k - y
    BY <1>2, <1>3
  <2> QED
    BY <2>1
<1> QED
  BY <1>4

\* Two multisets together.
Both(a, b, c) == \A m \in Node : c[m] = a[m] + b[m]

\* The multiset of a sequence of one node.
LEMMA AsBagOne ==
  ASSUME NEW x \in Node
  PROVE  AsBag(<<x>>) = One(x)
<1>1. ASSUME NEW m \in Node
      PROVE  Cardinality({i \in DOMAIN <<x>> : <<x>>[i] = m}) = IF m = x THEN 1 ELSE 0
  <2>1. DOMAIN <<x>> = {1} /\ <<x>>[1] = x
    OBVIOUS
  <2>2. CASE m = x
    <3>1. {i \in DOMAIN <<x>> : <<x>>[i] = m} = {1}
      BY <2>1, <2>2
    <3> QED
      BY <3>1, <2>2, FS_Singleton
  <2>3. CASE m # x
    <3>1. {i \in DOMAIN <<x>> : <<x>>[i] = m} = {}
      BY <2>1, <2>3
    <3> QED
      BY <3>1, <2>3, FS_EmptySet
  <2> QED
    BY <2>2, <2>3
<1> QED
  BY <1>1, Zenon DEF AsBag, One

\* The multiset of two sequences in a row.
LEMMA AsBagConcat ==
  ASSUME NEW s \in Seq(Node), NEW r \in Seq(Node)
  PROVE  Both(AsBag(s), AsBag(r), AsBag(s \o r))
<1> DEFINE k == Len(s)
           l == Len(r)
<1>1. /\ k \in Nat /\ l \in Nat
      /\ DOMAIN s = 1 .. k /\ DOMAIN r = 1 .. l /\ DOMAIN (s \o r) = 1 .. (k + l)
      /\ \A i \in 1 .. (k + l) : (s \o r)[i] = IF i <= k THEN s[i] ELSE r[i - k]
  OBVIOUS
<1> SUFFICES ASSUME NEW m \in Node PROVE AsBag(s \o r)[m] = AsBag(s)[m] + AsBag(r)[m]
  BY DEF Both
<1> DEFINE A == {i \in 1 .. k : s[i] = m}
           B == {i \in 1 .. l : r[i] = m}
           C == {i \in 1 .. (k + l) : (s \o r)[i] = m}
           D == {i \in C : i > k}
           h == [i \in B |-> i + k]
<1>2. /\ AsBag(s)[m] = Cardinality(A) /\ AsBag(r)[m] = Cardinality(B)
      /\ AsBag(s \o r)[m] = Cardinality(C)
  BY <1>1 DEF AsBag
<1>3. IsFiniteSet(1 .. k) /\ IsFiniteSet(1 .. l)
  BY <1>1, FS_Interval
<1>4. IsFiniteSet(A) /\ IsFiniteSet(B)
  BY <1>3, FS_Subset
<1> HIDE DEF k, l
<1>5. h \in Bijection(B, D)
  <2>1. \A i \in B : h[i] \in D
    BY <1>1
  <2>2. \A i, j \in B : h[i] = h[j] => i = j
    BY <1>1
  <2>3. ASSUME NEW d \in D PROVE \E i \in B : h[i] = d
    <3>1. d - k \in B /\ (d - k) + k = d
      BY <1>1
    <3> QED
      BY <3>1
  <2> QED
    BY <2>1, <2>2, <2>3 DEF Bijection, Injection, Surjection, IsInjective
<1>6. IsFiniteSet(D) /\ Cardinality(D) = Cardinality(B)
  <2> HIDE DEF B, D, h
  <2>1. ExistsBijection(B, D)
    BY <1>5 DEF ExistsBijection
  <2> QED
    BY <1>4, <2>1, FS_Bijection
<1>7. C = A \cup D /\ A \cap D = {}
  BY <1>1
<1> HIDE DEF A, B, C, D, h
<1>8. Cardinality(C) = Cardinality(A) + Cardinality(D)
  <2>1. Cardinality(A \cup D) = Cardinality(A) + Cardinality(D) - Cardinality(A \cap D)
    BY <1>4, <1>6, FS_Union
  <2>2. Cardinality(A \cap D) = 0
    BY <1>7, FS_EmptySet
  <2>3. Cardinality(A) \in Nat /\ Cardinality(D) \in Nat
    BY <1>4, <1>6, FS_CardinalityType
  <2> QED
    BY <1>7, <2>1, <2>2, <2>3
<1> QED
  BY <1>2, <1>6, <1>8

\* The multiset of a sequence has its elements.
LEMMA AsBagFacts ==
  ASSUME NEW s \in Seq(Node)
  PROVE  /\ AsBag(s) \in Bag
         /\ \A m \in Node : AsBag(s)[m] > 0 <=> \E i \in 1 .. Len(s) : s[i] = m
<1>1. Len(s) \in Nat /\ DOMAIN s = 1 .. Len(s)
  BY LenProperties
<1>2. ASSUME NEW m \in Node
      PROVE  /\ AsBag(s)[m] \in Nat
             /\ AsBag(s)[m] > 0 <=> \E i \in 1 .. Len(s) : s[i] = m
  <2> DEFINE I == {i \in DOMAIN s : s[i] = m}
  <2>1. AsBag(s)[m] = Cardinality(I)
    BY DEF AsBag
  <2>2. IsFiniteSet(1 .. Len(s)) /\ I \in SUBSET (1 .. Len(s))
    BY <1>1, FS_Interval
  <2>3. IsFiniteSet(I)
    BY <2>2, FS_Subset
  <2>4. Cardinality(I) \in Nat /\ (Cardinality(I) = 0 <=> I = {})
    BY <2>3, FS_CardinalityType, FS_EmptySet
  <2>5. I = {} <=> ~ \E i \in 1 .. Len(s) : s[i] = m
    BY <1>1
  <2> HIDE DEF I
  <2> QED
    BY <2>1, <2>4, <2>5
<1>3. AsBag(s) \in Bag
  <2>1. \A m \in Node : AsBag(s)[m] \in Nat
    BY <1>2
  <2> QED
    BY <2>1 DEF AsBag, Bag
<1> QED
  BY <1>2, <1>3
=============================================================================
