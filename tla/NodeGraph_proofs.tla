-------------------------- MODULE NodeGraph_proofs --------------------------
(***************************************************************************)
(* Proofs about NodeGraph for every number of nodes, every set of operand  *)
(* vectors and every set of names: the type invariant, the agreement of    *)
(* operands and uses, the absence of dangling pointers, the exactness of   *)
(* the two root sets, the one operand of an output, and the round trip of  *)
(* a graph through a text.                                                 *)
(*                                                                         *)
(* The first five are proved together, as one inductive invariant GraphInv *)
(* of the graph record and the history variables: a root set can only be   *)
(* kept exact if a use list becomes empty exactly when the last operand    *)
(* that names the node goes away, which is the mirror property, and a new  *)
(* node starts clean only if nothing points at an index not yet given out. *)
(*                                                                         *)
(* The round trip is a fact about any graph that satisfies GraphInv and    *)
(* Savable (no cycle, nothing under a cleaned node): the recursive         *)
(* functions of DagText are unfolded to their steps, and each loop has an  *)
(* invariant, WalkInv of the walk with its stack and the graph made so far *)
(* of the loading.                                                         *)
(***************************************************************************)
EXTENDS GraphText, Graph_proofs

USE MaxNodeAssumption, VectorAssumption

-----------------------------------------------------------------------------
(* The inductive invariant.  Indices below next are the only ones that     *)
(* anything knows of, so a constructor always meets a clean slate.         *)
Fresh == \A n \in g.alive \cup detached \cup retired : n < next

IInv == TypeOK /\ GraphInv(g, detached, retired) /\ Fresh

LEMMA InitIInv == Init => IInv
<1> SUFFICES ASSUME Init PROVE IInv
  OBVIOUS
<1> USE DEF Init, EmptyGraph
<1>1. Typed(g)
  BY BagFacts DEF Typed
<1>2. TypeOK
  BY <1>1 DEF TypeOK, Typed, Kind
<1>3. \A n \in Node : IsNone(g.operands[n]) /\ IsNone(g.uses[n])
  BY BagFacts
<1>4. Mirror(g) /\ Inside(g)
  BY BagFacts DEF Mirror, Inside
<1>5. RootsExact(g, detached, retired) /\ HistoryIdle(g, detached, retired)
  BY <1>3 DEF RootsExact, HistoryIdle
<1>6. QED BY <1>1, <1>2, <1>4, <1>5 DEF IInv, GraphInv, Fresh

(* Every operator whose result satisfies GraphInv gives a well-typed graph. *)
LEMMA StepTypeOK ==
  ASSUME TypeOK, GraphInv(g', detached', retired'),
         next' \in 0 .. MaxNode, kind' \in [Node -> Kind],
         inputs' \in SUBSET (Name \X Node), outputs' \in SUBSET (Name \X Node)
  PROVE  TypeOK'
BY DEF TypeOK, GraphInv, Typed, HistoryIdle

LEMMA AllocateFacts ==
  ASSUME IInv, NEW k \in Kind, Allocate(k)
  PROVE  /\ next \in Node /\ next' \in 0 .. MaxNode /\ next' = next + 1
         /\ next' \in Nat /\ next' >= next
         /\ kind' \in [Node -> Kind]
         /\ next \notin g.alive /\ next \notin detached /\ next \notin retired
<1>1. next \in 0 .. MaxNode /\ next < MaxNode /\ kind \in [Node -> Kind]
  BY DEF IInv, TypeOK, Allocate
<1>2. next \in Node /\ next + 1 \in 0 .. MaxNode
  BY <1>1 DEF Node
<1>3. next \notin g.alive /\ next \notin detached /\ next \notin retired
  BY <1>1 DEF IInv, Fresh
<1>4. QED BY <1>1, <1>2, <1>3 DEF Allocate

(* What a constructor makes is the node next, and the histories only ever  *)
(* gain nodes that are alive.                                              *)
LEMMA FreshStep ==
  ASSUME IInv, next' \in Nat, next' >= next,
         \A x \in g'.alive : x \in g.alive \/ (x = next /\ next' = next + 1),
         detached' \subseteq detached \cup g.alive,
         retired' \subseteq retired \cup g.alive
  PROVE  Fresh'
<1>1. next \in Nat
  BY DEF IInv, TypeOK
<1>2. \A x \in g.alive \cup detached \cup retired : x < next /\ x \in Nat
  BY DEF IInv, Fresh, TypeOK, Node
<1>3. ASSUME NEW x \in g'.alive \cup detached' \cup retired'
      PROVE  x < next'
  BY <1>1, <1>2, <1>3
<1>4. QED BY <1>3 DEF Fresh

LEMMA MakeNodeStep ==
  ASSUME IInv, NEW b \in Vector, MakeNode(b)
  PROVE  IInv'
<1> DEFINE fresh == NewNode(g, next)
<1>1. /\ next \in Node /\ next' \in 0 .. MaxNode /\ next' = next + 1
      /\ next' \in Nat /\ next' >= next
      /\ kind' \in [Node -> Kind]
      /\ next \notin g.alive /\ next \notin detached /\ next \notin retired
  BY AllocateFacts DEF MakeNode, Kind
<1>2. b \in Bag /\ \A m \in Node : b[m] > 0 => m \in g.alive
  BY DEF MakeNode, Holdable, Usable
<1>3. GraphInv(fresh, detached, retired) /\ fresh.alive = g.alive \cup {next}
  BY <1>1, NewNodeInv DEF IInv, NewNode
<1> HIDE DEF fresh
<1>4. GraphInv(g', detached', retired') /\ g'.alive = g.alive \cup {next}
  <2>1. CASE IsNone(b)
    <3>1. Elements(b) = {}
      BY <2>1 DEF IsNone, Elements
    <3>2. g' = fresh /\ retired' = retired /\ detached' = detached
      BY <2>1, <3>1 DEF MakeNode, fresh
    <3>3. QED BY <1>3, <3>2
  <2>2. CASE ~IsNone(b)
    <3>1. /\ g' = SetOperands(fresh, next, b)
          /\ retired' = retired \ Elements(b) /\ detached' = detached
      BY <2>2 DEF MakeNode, fresh
    <3>2. GraphInv(SetOperands(fresh, next, b), detached \ {next}, retired \ Elements(b))
      BY <1>2, <1>3, SetOperandsInv
    <3>3. detached \ {next} = detached
      BY <1>1
    <3>4. SetOperands(fresh, next, b).alive = fresh.alive
      BY DEF SetOperands
    <3>5. QED BY <1>3, <3>1, <3>2, <3>3, <3>4
  <2>3. QED BY <2>1, <2>2
<1>5. TypeOK'
  BY <1>1, <1>4, StepTypeOK DEF IInv, TypeOK, MakeNode
<1>6. Fresh'
  BY <1>1, <1>4, FreshStep DEF MakeNode
<1>7. QED BY <1>4, <1>5, <1>6 DEF IInv

LEMMA MakeInputStep ==
  ASSUME IInv, NEW name \in Name, MakeInput(name)
  PROVE  IInv'
<1>1. /\ next \in Node /\ next' \in 0 .. MaxNode /\ next' = next + 1
      /\ next' \in Nat /\ next' >= next
      /\ kind' \in [Node -> Kind]
      /\ next \notin g.alive /\ next \notin detached /\ next \notin retired
  BY AllocateFacts DEF MakeInput, Kind
<1>2. /\ g' = NewNode(g, next) /\ detached' = detached /\ retired' = retired
      /\ outputs' = outputs
  BY DEF MakeInput
<1>3. GraphInv(g', detached', retired') /\ g'.alive = g.alive \cup {next}
  BY <1>1, <1>2, NewNodeInv DEF IInv, NewNode
<1>4. inputs' \in SUBSET (Name \X Node)
  BY <1>1 DEF IInv, TypeOK, MakeInput
<1>5. TypeOK'
  BY <1>1, <1>2, <1>3, <1>4, StepTypeOK DEF IInv, TypeOK
<1>6. Fresh'
  BY <1>1, <1>2, <1>3, FreshStep
<1>7. QED BY <1>3, <1>5, <1>6 DEF IInv

(* The second output with a name is built and destroyed in the same call:  *)
(* nothing uses it in between, so its destruction undoes its construction. *)
LEMMA SetOutputStep ==
  ASSUME IInv, NEW name \in Name, NEW m \in Node, SetOutput(name, m)
  PROVE  IInv'
<1> DEFINE fresh == NewNode(g, next)
           made == SetOperands(fresh, next, One(m))
           dup == \E o \in Node : <<name, o>> \in outputs
<1>1. /\ next \in Node /\ next' \in 0 .. MaxNode /\ next' = next + 1
      /\ next' \in Nat /\ next' >= next
      /\ kind' \in [Node -> Kind]
      /\ next \notin g.alive /\ next \notin detached /\ next \notin retired
  BY AllocateFacts DEF SetOutput, Kind
<1>2. m \in g.alive /\ m # next
  BY <1>1 DEF SetOutput, Usable
<1>3. GraphInv(fresh, detached, retired) /\ fresh.alive = g.alive \cup {next}
  BY <1>1, NewNodeInv DEF IInv, NewNode
<1>4. /\ One(m) \in Bag /\ One(m)[next] = 0
      /\ \A x \in Node : One(m)[x] > 0 <=> x = m
  BY <1>1, <1>2, BagFacts
<1>5. Elements(One(m)) = {m}
  BY <1>4 DEF Elements
<1>6. IsNone(made.uses[next])
  <2>1. IsNone(fresh.uses[next]) /\ fresh.uses \in [Node -> Bag] /\ fresh.operands[next] \in Bag
    <3>1. g.uses \in [Node -> Bag] /\ fresh.uses = [g.uses EXCEPT ![next] = NoNodes]
          /\ g.operands \in [Node -> Bag]
          /\ fresh.operands = [g.operands EXCEPT ![next] = NoNodes]
      BY DEF IInv, GraphInv, Typed, NewNode, fresh
    <3>2. QED BY <1>1, <3>1, BagFacts
  <2> DEFINE u == UsesMinus(fresh.uses, next, fresh.operands[next])
  <2>2. u \in [Node -> Bag]
    BY <1>1, <2>1, UsesMinusType
  <2>3. IsNone(u[next])
    <3>1. \A x, k \in Node : u[x][k] = IF k = next THEN 0 ELSE fresh.uses[x][k]
      BY <1>3, DropAllEntry
    <3>2. QED BY <1>1, <2>1, <3>1 DEF IsNone
  <2> HIDE DEF u
  <2>4. \A x \in Node : IsNone(UsesPlus(u, next, One(m))[x]) <=>
           IsNone(u[x]) /\ One(m)[x] = 0
    BY <1>1, <1>4, <2>2, UsesPlusNone
  <2>5. made.uses = UsesPlus(u, next, One(m))
    BY DEF made, SetOperands, u
  <2> HIDE DEF fresh, made
  <2>6. QED BY <1>1, <1>4, <2>3, <2>4, <2>5
<1>7. /\ GraphInv(made, detached, retired \ {m}) /\ made.alive = g.alive \cup {next}
  <2>1. GraphInv(made, detached \ {next}, retired \ Elements(One(m)))
    BY <1>2, <1>3, <1>4, SetOperandsInv
  <2>2. made.alive = fresh.alive /\ detached \ {next} = detached
    BY <1>1 DEF made, SetOperands
  <2>3. QED BY <1>3, <1>5, <2>1, <2>2
<1>8. /\ retired' = retired \ {m} /\ detached' = detached /\ inputs' = inputs
      /\ dup => g' = DestroyNode(made, next) /\ outputs' = outputs
      /\ ~dup => g' = made /\ outputs' = outputs \cup {<<name, next>>}
  BY DEF SetOutput
<1> HIDE DEF fresh, made, dup
<1>9. GraphInv(g', detached', retired') /\ g'.alive \subseteq g.alive \cup {next}
  <2>1. CASE dup
    <3>1. GraphInv(DestroyNode(made, next), detached \ {next}, (retired \ {m}) \ {next})
      BY <1>6, <1>7, DestroyNodeInv
    <3>2. detached \ {next} = detached /\ (retired \ {m}) \ {next} = retired \ {m}
      BY <1>1
    <3>3. DestroyNode(made, next).alive \subseteq made.alive
      BY DEF DestroyNode
    <3>4. QED BY <1>7, <1>8, <2>1, <3>1, <3>2, <3>3
  <2>2. CASE ~dup
    BY <1>7, <1>8, <2>2
  <2>3. QED BY <2>1, <2>2
<1>10. outputs' \in SUBSET (Name \X Node)
  BY <1>1, <1>8 DEF IInv, TypeOK
<1>11. TypeOK'
  BY <1>1, <1>8, <1>9, <1>10, StepTypeOK DEF IInv, TypeOK
<1>12. Fresh'
  BY <1>1, <1>8, <1>9, FreshStep
<1>13. QED BY <1>9, <1>11, <1>12 DEF IInv

(* The calls that make no node: the graph lemma of the method gives the    *)
(* new graph, the rest is unchanged.                                       *)
LEMMA RewireStep ==
  ASSUME IInv, GraphInv(g', detached', retired'), g'.alive \subseteq g.alive,
         detached' \subseteq detached \cup g.alive,
         retired' \subseteq retired \cup g.alive,
         UNCHANGED <<next, kind, inputs, outputs>>
  PROVE  IInv'
<1>1. TypeOK'
  BY StepTypeOK DEF IInv, TypeOK
<1>2. next' \in Nat /\ next' >= next
  BY DEF IInv, TypeOK
<1>3. Fresh'
  BY <1>2, FreshStep
<1>4. QED BY <1>1, <1>3 DEF IInv

LEMMA DropInputStep == ASSUME IInv, NEW n \in Node, DropInput(n) PROVE IInv'
<1>1. IsNone(g.uses[n]) /\ n \in g.alive /\ g' = DestroyNode(g, n)
  BY DEF DropInput, IInv, GraphInv, Mirror, IsNone
<1>2. GraphInv(g', detached', retired')
  BY <1>1, DestroyNodeInv DEF DropInput, IInv
<1>3. g'.alive \subseteq g.alive
  BY <1>1 DEF DestroyNode
<1>4. QED BY <1>2, <1>3, RewireStep DEF DropInput

LEMMA AddStep == ASSUME IInv, NEW n \in Node, NEW m \in Node, Add(n, m) PROVE IInv'
<1>1. n \in g.alive /\ m \in g.alive /\ g' = AddOperand(g, n, m)
  BY DEF Add, IsOp, Usable
<1>2. GraphInv(g', detached', retired')
  BY <1>1, AddOperandInv DEF Add, IInv
<1>3. g'.alive = g.alive
  BY <1>1 DEF AddOperand
<1>4. QED BY <1>2, <1>3, RewireStep DEF Add

LEMMA EraseStep == ASSUME IInv, NEW n \in Node, NEW m \in Node, Erase(n, m) PROVE IInv'
<1>1. GraphInv(g', detached', retired')
  BY EraseOperandInv DEF Erase, IInv
<1>2. g'.alive = g.alive
  BY DEF Erase, EraseOperand
<1>3. QED BY <1>1, <1>2, RewireStep DEF Erase

LEMMA EraseAllStep == ASSUME IInv, NEW n \in Node, EraseAll(n) PROVE IInv'
<1>1. n \in g.alive
  BY DEF EraseAll, IsOp
<1>2. GraphInv(g', detached', retired')
  BY <1>1, EraseAllOperandInv DEF EraseAll, IInv
<1>3. g'.alive = g.alive
  BY DEF EraseAll, EraseAllOperand
<1>4. QED BY <1>1, <1>2, <1>3, RewireStep DEF EraseAll

LEMMA SetStep == ASSUME IInv, NEW n \in Node, NEW b \in Vector, Set(n, b) PROVE IInv'
<1>1. n \in g.alive /\ b \in Bag /\ \A m \in Node : b[m] > 0 => m \in g.alive
  BY DEF Set, IsOp, Holdable, Usable
<1>2. GraphInv(g', detached', retired')
  BY <1>1, SetOperandsInv DEF Set, IInv
<1>3. g'.alive = g.alive
  BY DEF Set, SetOperands
<1>4. QED BY <1>2, <1>3, RewireStep DEF Set

LEMMA ReplaceStep ==
  ASSUME IInv, NEW old \in Node, NEW new \in Node, NEW S \in SUBSET Node,
         Replace(old, new, S)
  PROVE  IInv'
<1>1. /\ old \in g.alive /\ new \in g.alive /\ old # new
      /\ \A s \in S : g.uses[old][s] > 0
  BY DEF Replace, Usable
<1>2. GraphInv(g', detached', retired')
  BY <1>1, ReplaceUsesInv DEF Replace, IInv
<1>3. g'.alive = g.alive
  BY DEF Replace, ReplaceUses
<1>4. QED BY <1>2, <1>3, RewireStep DEF Replace

LEMMA CleanStep ==
  ASSUME IInv, NEW n \in Node, NEW all \in BOOLEAN, Clean(n, all)
  PROVE  IInv'
<1>1. n \in g.alive /\ IsNone(g.uses[n])
  BY DEF Clean
<1>2. GraphInv(g', detached', retired')
  BY <1>1, CleanNodeInv DEF Clean, IInv
<1>3. g'.alive = g.alive
  BY DEF Clean, CleanNode, EraseAllOperand
<1>4. QED BY <1>1, <1>2, <1>3, RewireStep DEF Clean

(* Every step of the specification keeps the inductive invariant.          *)
LEMMA NextIInv == IInv /\ [Next]_vars => IInv'
<1> SUFFICES ASSUME IInv, [Next]_vars PROVE IInv'
  OBVIOUS
<1>1. CASE \E b \in Vector : MakeNode(b)
  BY <1>1, MakeNodeStep
<1>2. CASE \E name \in Name : MakeInput(name)
  BY <1>2, MakeInputStep
<1>3. CASE \E name \in Name, m \in Node : SetOutput(name, m)
  BY <1>3, SetOutputStep
<1>4. CASE \E n \in Node : DropInput(n)
  BY <1>4, DropInputStep
<1>5. CASE \E n, m \in Node : Add(n, m)
  BY <1>5, AddStep
<1>6. CASE \E n, m \in Node : Erase(n, m)
  BY <1>6, EraseStep
<1>7. CASE \E n \in Node : EraseAll(n)
  BY <1>7, EraseAllStep
<1>8. CASE \E n \in Node, b \in Vector : Set(n, b)
  BY <1>8, SetStep
<1>9. CASE \E old, new \in Node, S \in SUBSET Node : Replace(old, new, S)
  BY <1>9, ReplaceStep
<1>10. CASE \E n \in Node, all \in BOOLEAN : Clean(n, all)
  BY <1>10, CleanStep
<1>11. CASE UNCHANGED vars
  BY <1>11 DEF vars, IInv, TypeOK, GraphInv, Typed, Mirror, Inside, RootsExact,
               HistoryIdle, Fresh
<1>12. QED BY <1>1, <1>2, <1>3, <1>4, <1>5, <1>6, <1>7, <1>8, <1>9, <1>10, <1>11 DEF Next

(* Every call on Node and Dag keeps the inductive invariant: the type, the *)
(* two sides of the edges, the root sets and the histories together.       *)
THEOREM IInvHolds == Spec => []IInv
BY InitIInv, NextIInv, PTL DEF Spec

-----------------------------------------------------------------------------
(* Every variable keeps its type, whatever calls are made.                 *)
THEOREM TypeCorrect == Spec => []TypeOK
<1>1. IInv => TypeOK
  BY DEF IInv
<1>2. QED BY <1>1, IInvHolds, PTL

(* node.cpp keeps m_uses the mirror image of m_operands, duplicates        *)
(* included, for any number of nodes and any sequence of calls.            *)
THEOREM MirrorHolds == Spec => []UsesMirrorOperands
<1>1. IInv => UsesMirrorOperands
  BY DEF IInv, GraphInv, Mirror, UsesMirrorOperands
<1>2. QED BY <1>1, IInvHolds, PTL

(* No raw pointer of a use list or of a root set outlives its node while   *)
(* the Dag is in use.                                                      *)
THEOREM NoDanglingHolds == Spec => []NoDanglingPointer
<1>1. IInv => NoDanglingPointer
  BY DEF IInv, GraphInv, Mirror, Inside, NoDanglingPointer
<1>2. QED BY <1>1, IInvHolds, PTL

(* Backward passes start from every node that nothing uses, and from no    *)
(* other, the nodes that the clean pass removed apart.                     *)
THEOREM SinksExactHolds == Spec => []SinksExact
<1>1. IInv => SinksExact
  BY DEF IInv, GraphInv, Typed, RootsExact, SinksExact
<1>2. QED BY <1>1, IInvHolds, PTL

(* Forward passes and executors start from every node without operands,    *)
(* and from no other, the nodes that eraseAllOperand emptied apart.        *)
THEOREM SourcesExactHolds == Spec => []SourcesExact
<1>1. IInv => SourcesExact
  BY DEF IInv, GraphInv, Typed, RootsExact, SourcesExact
<1>2. QED BY <1>1, IInvHolds, PTL

-----------------------------------------------------------------------------
(* An output node exists and is an output; no other node is one, so that   *)
(* no call rewires it, and nothing can use it and take it back out of      *)
(* retirement.                                                             *)
HasOperand(h, n) == \E m \in Node : h.operands[n] = One(m)

OutputsInv ==
  \A e \in outputs :
    /\ e[2] < next /\ kind[e[2]] = "Output"
    /\ e[2] \in retired \/ HasOperand(g, e[2])

(* A call that leaves the operands of the old outputs, and takes no output *)
(* out of retirement.                                                      *)
LEMMA OutputsStay ==
  ASSUME IInv, OutputsInv, next' \in Nat, next' >= next,
         \A n \in Node : n # next => kind'[n] = kind[n],
         \A n \in Node : n < next /\ kind[n] = "Output" =>
            /\ n \in retired => n \in retired'
            /\ HasOperand(g, n) => n \in retired' \/ HasOperand(g', n),
         \A e \in outputs' : e \in outputs \/
            /\ e[2] < next' /\ kind'[e[2]] = "Output" /\ HasOperand(g', e[2])
  PROVE  OutputsInv'
<1>1. next \in Nat /\ \A e \in outputs : e[2] \in Node /\ e[2] \in Nat
  BY DEF IInv, TypeOK, Node
<1>2. ASSUME NEW e \in outputs, e \in outputs'
      PROVE  /\ e[2] < next' /\ kind'[e[2]] = "Output"
             /\ e[2] \in retired' \/ HasOperand(g', e[2])
  <2>1. e[2] \in Node /\ e[2] < next /\ kind[e[2]] = "Output" /\ e[2] \in Nat
    BY <1>1 DEF OutputsInv
  <2>2. e[2] < next' /\ kind'[e[2]] = "Output"
    BY <1>1, <2>1
  <2>3. e[2] \in retired \/ HasOperand(g, e[2])
    BY DEF OutputsInv
  <2> QED
    BY <2>1, <2>2, <2>3
<1>3. ASSUME NEW e \in outputs'
      PROVE  /\ e[2] < next' /\ kind'[e[2]] = "Output"
             /\ e[2] \in retired' \/ HasOperand(g', e[2])
  BY <1>2, <1>3
<1> QED
  BY <1>3 DEF OutputsInv, HasOperand

\* A call that makes no node and rewires operations only.
LEMMA OutputsAside ==
  ASSUME IInv, OutputsInv, UNCHANGED <<next, kind, outputs>>,
         \A n \in Node : kind[n] = "Output" =>
            /\ n \in retired => n \in retired'
            /\ g'.operands[n] = g.operands[n]
  PROVE  OutputsInv'
<1>1. next' \in Nat /\ next' >= next
  BY DEF IInv, TypeOK
<1>2. \A n \in Node : kind[n] = "Output" =>
        /\ n \in retired => n \in retired'
        /\ HasOperand(g, n) => n \in retired' \/ HasOperand(g', n)
  BY DEF HasOperand
<1> QED
  BY <1>1, <1>2, OutputsStay

\* The calls that make a node.
LEMMA OutputsMake ==
  ASSUME IInv, OutputsInv,
         \/ \E b \in Vector : MakeNode(b)
         \/ \E name \in Name : MakeInput(name)
         \/ \E name \in Name, m \in Node : SetOutput(name, m)
  PROVE  OutputsInv'
<1>1. next' \in Nat /\ next' >= next /\ next \in Nat /\ next' = next + 1
      /\ \A n \in Node : n # next => kind'[n] = kind[n]
  BY DEF IInv, TypeOK, Allocate, MakeNode, MakeInput, SetOutput
<1>2. g.operands \in [Node -> Bag] /\ next \in Node
  BY DEF IInv, TypeOK, Allocate, MakeNode, MakeInput, SetOutput, Node
<1>3. \A n \in Node : n < next => g'.operands[n] = g.operands[n]
  <2>1. ASSUME NEW b \in Vector, MakeNode(b)
        PROVE  \A n \in Node : n < next => g'.operands[n] = g.operands[n]
    <3> DEFINE fresh == NewNode(g, next)
    <3>1. fresh.operands = [g.operands EXCEPT ![next] = NoNodes]
      BY DEF NewNode
    <3>2. g' = fresh \/ g' = SetOperands(fresh, next, b)
      BY <2>1 DEF MakeNode
    <3> HIDE DEF fresh
    <3>3. CASE g' = SetOperands(fresh, next, b)
      BY <1>1, <1>2, <3>1, <3>3 DEF SetOperands
    <3> QED
      BY <1>1, <1>2, <3>1, <3>2, <3>3
  <2>2. ASSUME NEW name \in Name, MakeInput(name)
        PROVE  \A n \in Node : n < next => g'.operands[n] = g.operands[n]
    BY <1>1, <1>2, <2>2 DEF MakeInput, NewNode
  <2>3. ASSUME NEW name \in Name, NEW m \in Node, SetOutput(name, m)
        PROVE  \A n \in Node : n < next => g'.operands[n] = g.operands[n]
    <3> DEFINE fresh == NewNode(g, next)
               made  == SetOperands(fresh, next, One(m))
    <3>1. fresh.operands = [g.operands EXCEPT ![next] = NoNodes]
      BY DEF NewNode
    <3>2. made.operands = [fresh.operands EXCEPT ![next] = One(m)]
      BY DEF SetOperands
    <3>3. g' = made \/ g' = DestroyNode(made, next)
      BY <2>3 DEF SetOutput
    <3> HIDE DEF made
    <3>4. DestroyNode(made, next).operands = [made.operands EXCEPT ![next] = NoNodes]
      BY DEF DestroyNode
    <3> HIDE DEF fresh
    <3> QED
      BY <1>1, <1>2, <3>1, <3>2, <3>3, <3>4
  <2> QED
    BY <2>1, <2>2, <2>3
<1>4. \A n \in Node : n < next /\ kind[n] = "Output" => (n \in retired => n \in retired')
  BY DEF MakeNode, MakeInput, SetOutput, Holdable, Usable, Elements
<1>5. \A n \in Node : n < next /\ kind[n] = "Output" =>
        /\ n \in retired => n \in retired'
        /\ HasOperand(g, n) => n \in retired' \/ HasOperand(g', n)
  BY <1>3, <1>4 DEF HasOperand
<1>6. \A e \in outputs' : e \in outputs \/
        /\ e[2] < next' /\ kind'[e[2]] = "Output" /\ HasOperand(g', e[2])
  <2>1. CASE outputs' = outputs
    BY <2>1
  <2>2. ASSUME NEW name \in Name, NEW m \in Node, SetOutput(name, m), outputs' # outputs
        PROVE  \A e \in outputs' : e \in outputs \/
                 /\ e[2] < next' /\ kind'[e[2]] = "Output" /\ HasOperand(g', e[2])
    <3>1. /\ g' = SetOperands(NewNode(g, next), next, One(m))
          /\ outputs' = outputs \cup {<<name, next>>}
          /\ kind' = [kind EXCEPT ![next] = "Output"]
      BY <2>2 DEF SetOutput, Allocate
    <3>2. g'.operands[next] = One(m)
      BY <1>2, <3>1 DEF SetOperands, NewNode
    <3>3. kind'[next] = "Output"
      BY <1>2, <3>1 DEF IInv, TypeOK
    <3> QED
      BY <1>1, <3>1, <3>2, <3>3 DEF HasOperand
  <2> QED
    BY <2>1, <2>2 DEF MakeNode, MakeInput
<1> QED
  BY <1>1, <1>5, <1>6, OutputsStay

\* The one operand of an output is replaced by another one.
LEMMA OutputsReplace ==
  ASSUME IInv, OutputsInv, NEW old \in Node, NEW new \in Node, NEW S \in SUBSET Node,
         Replace(old, new, S)
  PROVE  OutputsInv'
<1>1. g' = ReplaceUses(g, old, new, S) /\ old # new /\ kind[new] # "Output"
  BY DEF Replace, Usable
<1>2. \A n \in Node : HasOperand(g, n) => HasOperand(g', n)
  <2> TAKE n \in Node
  <2> HAVE HasOperand(g, n)
  <2>1. PICK m \in Node : g.operands[n] = One(m)
    BY DEF HasOperand
  <2> DEFINE moved == IF n \in S THEN g.operands[n][old] ELSE 0
  <2>2. g'.operands[n] = [g.operands[n] EXCEPT ![old] = @ - moved, ![new] = @ + moved]
    BY <1>1 DEF ReplaceUses
  <2>3. g.operands[n] \in Bag
    BY <2>1, BagFacts
  <2>4. CASE moved = 0
    BY <2>1, <2>2, <2>3, <2>4 DEF HasOperand, Bag
  <2>5. CASE moved # 0
    <3>1. m = old /\ moved = 1
      BY <2>1, <2>5 DEF One
    <3>2. g'.operands[n] = One(new)
      BY <1>1, <2>1, <2>2, <3>1 DEF One
    <3> QED
      BY <3>2 DEF HasOperand
  <2> QED
    BY <2>4, <2>5
<1>3. next' \in Nat /\ next' >= next /\ UNCHANGED <<kind, outputs>>
  BY DEF IInv, TypeOK, Replace
<1>4. \A n \in Node : kind[n] = "Output" => (n \in retired => n \in retired')
  BY <1>1 DEF Replace
<1> QED
  BY <1>2, <1>3, <1>4, OutputsStay

\* Every call leaves an output its one operand.
LEMMA OutputsNext ==
  ASSUME IInv, OutputsInv, [Next]_vars
  PROVE  OutputsInv'
<1>0. g.operands \in [Node -> Bag]
  BY DEF IInv, TypeOK
<1>1. CASE \/ \E b \in Vector : MakeNode(b)
           \/ \E name \in Name : MakeInput(name)
           \/ \E name \in Name, m \in Node : SetOutput(name, m)
  BY <1>1, OutputsMake
<1>2. ASSUME NEW n \in Node, DropInput(n) PROVE OutputsInv'
  BY <1>0, <1>2, OutputsAside DEF DropInput, DestroyNode
<1>3. ASSUME NEW n \in Node, NEW m \in Node, Add(n, m) PROVE OutputsInv'
  BY <1>0, <1>3, OutputsAside DEF Add, IsOp, Usable, AddOperand
<1>4. ASSUME NEW n \in Node, NEW m \in Node, Erase(n, m) PROVE OutputsInv'
  BY <1>0, <1>4, OutputsAside DEF Erase, IsOp, EraseOperand
<1>5. ASSUME NEW n \in Node, EraseAll(n) PROVE OutputsInv'
  BY <1>0, <1>5, OutputsAside DEF EraseAll, IsOp, EraseAllOperand
<1>6. ASSUME NEW n \in Node, NEW b \in Vector, Set(n, b) PROVE OutputsInv'
  BY <1>0, <1>6, OutputsAside DEF Set, IsOp, SetOperands, Holdable, Usable, Elements
<1>7. ASSUME NEW n \in Node, NEW all \in BOOLEAN, Clean(n, all) PROVE OutputsInv'
  <2>1. next' \in Nat /\ next' >= next /\ UNCHANGED <<kind, outputs>>
    BY <1>7 DEF Clean, IInv, TypeOK
  <2>2. \A k \in Node : k \in retired' \/ g'.operands[k] = g.operands[k]
    BY <1>0, <1>7 DEF Clean, CleanNode, EraseAllOperand
  <2>3. \A k \in Node : /\ k \in retired => k \in retired'
                        /\ HasOperand(g, k) => k \in retired' \/ HasOperand(g', k)
    BY <1>7, <2>2 DEF Clean, HasOperand
  <2> QED
    BY <2>1, <2>3, OutputsStay
<1>8. CASE UNCHANGED vars
  BY <1>8, OutputsAside DEF vars
<1> QED
  BY <1>1, <1>2, <1>3, <1>4, <1>5, <1>6, <1>7, <1>8, OutputsReplace DEF Next

(* makeOutput gives a node its one operand, and no call takes it away.     *)
THEOREM OutputsInvHolds == Spec => []OutputsInv
<1>1. Init => OutputsInv
  BY DEF Init, OutputsInv
<1>2. IInv /\ OutputsInv /\ [Next]_vars => OutputsInv'
  BY OutputsNext
<1> QED
  BY <1>1, <1>2, IInvHolds, PTL DEF Spec

(* Whatever replaceUsesWithIf and the passes do, an output node has one    *)
(* operand until it is released: the arg_size == 1 of the executors.       *)
THEOREM OneOperandHolds == Spec => []OutputsHaveOneOperand
<1>1. OutputsInv => OutputsHaveOneOperand
  BY DEF OutputsInv, HasOperand, OutputsHaveOneOperand
<1> QED
  BY <1>1, OutputsInvHolds, PTL

-----------------------------------------------------------------------------
(* What a text needs of the graph that is saved: no cycle in either        *)
(* direction, nothing under a cleaned node, and no name for a node that    *)
(* is gone.                                                                *)
NoCycle(h) == \A forward \in BOOLEAN : Acyclic(h, forward)
Idle(h, ret) == \A n \in ret : IsNone(h.operands[n])
NamesAlive == \A e \in inputs \cup outputs : e[2] \in g.alive

Savable == NoCycle(g) /\ Idle(g, retired) /\ NamesAlive

(* New edges that lead into a closed set from outside close no cycle: one  *)
(* would have to come out again.                                           *)
LEMMA LinkedAcyclic ==
  ASSUME NEW h, NEW f, NoCycle(h), Mirror(h), Mirror(f),
         NEW T \in SUBSET Node, Closed(h, T),
         \A x, y \in Node : f.operands[x][y] > 0 =>
            h.operands[x][y] > 0 \/ (x \notin T /\ y \in T)
  PROVE  NoCycle(f)
<1>1. \A x \in T : \A y \in Node : h.operands[x][y] > 0 => y \in T
  BY DEF Closed
<1>2. ASSUME NEW R \in SUBSET Node, R # {}
      PROVE  \E x \in R : \A y \in R : ~(h.operands[x][y] > 0)
  <2>1. PICK x \in R : Preds(h, TRUE, x) \cap R = {}
    BY <1>2 DEF NoCycle, Acyclic
  <2> QED
    BY <2>1 DEF Preds
<1>5. ASSUME NEW R \in SUBSET Node, R # {}
      PROVE  \E y \in R : \A x \in R : ~(h.operands[x][y] > 0)
  <2>1. PICK y \in R : Preds(h, FALSE, y) \cap R = {}
    BY <1>5 DEF NoCycle, Acyclic
  <2> QED
    BY <2>1 DEF Preds, Mirror
<1> SUFFICES ASSUME NEW S \in SUBSET Node, S # {}
             PROVE  /\ \E x \in S : \A y \in S : ~(f.operands[x][y] > 0)
                    /\ \E y \in S : \A x \in S : ~(f.operands[x][y] > 0)
  <2>1. ASSUME NEW forward \in BOOLEAN, NEW S \in SUBSET Node, S # {}
        PROVE  \E n \in S : Preds(f, forward, n) \cap S = {}
    <3>1. PICK x \in S : \A y \in S : ~(f.operands[x][y] > 0)
      BY <2>1
    <3>2. PICK y \in S : \A z \in S : ~(f.operands[z][y] > 0)
      BY <2>1
    <3>3. Preds(f, TRUE, x) \cap S = {}
      BY <3>1 DEF Preds
    <3>4. Preds(f, FALSE, y) \cap S = {}
      BY <3>2 DEF Preds, Mirror
    <3> QED
      BY <3>3, <3>4
  <2> QED
    BY <2>1 DEF NoCycle, Acyclic
<1>3. \E x \in S : \A y \in S : ~(f.operands[x][y] > 0)
  <2>1. CASE S \cap T = {}
    BY <2>1, <1>2
  <2>2. CASE S \cap T # {}
    <3>1. PICK x \in S \cap T : \A y \in S \cap T : ~(h.operands[x][y] > 0)
      BY <2>2, <1>2
    <3>2. \A y \in S : ~(f.operands[x][y] > 0)
      BY <1>1, <3>1
    <3> QED
      BY <3>2
  <2> QED
    BY <2>1, <2>2
<1>4. \E y \in S : \A x \in S : ~(f.operands[x][y] > 0)
  <2>1. CASE S \ T = {}
    <3>1. \A x, y \in S : f.operands[x][y] > 0 => h.operands[x][y] > 0
      BY <2>1
    <3> QED
      BY <3>1, <1>5
  <2>2. CASE S \ T # {}
    <3>1. PICK y \in S \ T : \A x \in S \ T : ~(h.operands[x][y] > 0)
      BY <2>2, <1>5
    <3>2. \A x \in S : ~(f.operands[x][y] > 0)
      BY <1>1, <3>1
    <3> QED
      BY <3>2
  <2> QED
    BY <2>1, <2>2
<1> QED
  BY <1>3, <1>4

\* What a node depends on is closed, and has the node.
LEMMA DependedClosed ==
  ASSUME NEW h, NEW b \in SUBSET Node
  PROVE  LET T == {x \in Node : \E m \in b : DependsOn(h, m, x)}
         IN  Closed(h, T) /\ b \subseteq T
<1> DEFINE T == {x \in Node : \E m \in b : DependsOn(h, m, x)}
<1>1. ASSUME NEW m \in b PROVE m \in T
  BY DEF DependsOn
<1>2. ASSUME NEW x \in T, NEW y \in Node, h.operands[x][y] > 0 PROVE y \in T
  <2>1. PICK m \in b : DependsOn(h, m, x)
    OBVIOUS
  <2>2. DependsOn(h, m, y)
    BY <1>2, <2>1 DEF DependsOn, Closed
  <2> QED
    BY <2>1, <2>2
<1> QED
  BY <1>1, <1>2 DEF Closed

(* A call adds edges from outside of a closed set into it, from nodes that *)
(* are not cleaned, and cleans nodes only by emptying them.                *)
LEMMA SavableStep ==
  ASSUME IInv, IInv', Savable, NEW T \in SUBSET Node, Closed(g, T),
         \A x, y \in Node : g'.operands[x][y] > 0 =>
            g.operands[x][y] > 0 \/ (x \notin T /\ x \notin retired /\ y \in T),
         \A x \in Node : x \in retired' => x \in retired \/ IsNone(g'.operands[x]),
         \A e \in inputs' \cup outputs' : e[2] \in g'.alive
  PROVE  Savable'
<1>1. Mirror(g) /\ Mirror(g') /\ NoCycle(g)
  BY DEF IInv, GraphInv, Savable
<1>2. NoCycle(g')
  BY <1>1, LinkedAcyclic
<1>3. retired' \subseteq Node /\ \A x, y \in Node : g'.operands[x][y] \in Nat
  BY DEF IInv, TypeOK, Bag
<1>4. ASSUME NEW x \in retired' PROVE IsNone(g'.operands[x])
  <2>1. CASE x \in retired
    <3>1. \A y \in Node : g.operands[x][y] = 0
      BY <2>1 DEF Savable, Idle, IsNone
    <3>2. \A y \in Node : ~(g'.operands[x][y] > 0)
      BY <1>3, <2>1, <3>1
    <3> QED
      BY <1>3, <3>2 DEF IsNone
  <2> QED
    BY <1>3, <2>1
<1> QED
  BY <1>2, <1>4 DEF Savable, Idle, NamesAlive, NoCycle, Acyclic, Preds

\* A call that adds no edge, and leaves the names.
LEMMA SavableFewer ==
  ASSUME IInv, IInv', Savable, UNCHANGED <<inputs, outputs>>,
         \A x, y \in Node : g'.operands[x][y] > 0 => g.operands[x][y] > 0,
         \A x \in Node : x \in retired' => x \in retired \/ IsNone(g'.operands[x]),
         \A e \in inputs \cup outputs : e[2] \in g'.alive
  PROVE  Savable'
<1>1. Closed(g, {})
  BY DEF Closed
<1> QED
  BY <1>1, SavableStep

\* The calls that make a node: nothing depends on it yet.
LEMMA SavableMake ==
  ASSUME IInv, IInv', Savable, next \in Node, next \notin g.alive, next \notin retired,
         \A x, y \in Node : x # next => ~(g'.operands[x][y] > 0) \/ g.operands[x][y] > 0,
         \A y \in Node : g'.operands[next][y] > 0 => y \in g.alive,
         retired' \subseteq retired,
         \A e \in inputs' \cup outputs' : e[2] \in g'.alive
  PROVE  Savable'
<1>1. Closed(g, g.alive) /\ g.alive \in SUBSET Node
  BY DEF Closed, IInv, GraphInv, Inside, TypeOK
<1>2. \A x, y \in Node : g'.operands[x][y] > 0 =>
         g.operands[x][y] > 0 \/ (x \notin g.alive /\ x \notin retired /\ y \in g.alive)
  OBVIOUS
<1> QED
  BY <1>1, <1>2, SavableStep

LEMMA MakeSavable ==
  ASSUME IInv, IInv', Savable,
         \/ \E b \in Vector : MakeNode(b)
         \/ \E name \in Name : MakeInput(name)
         \/ \E name \in Name, m \in Node : SetOutput(name, m)
  PROVE  Savable'
<1>1. /\ next \in Node /\ next \notin g.alive /\ next \notin retired
      /\ g.operands \in [Node -> Bag] /\ NoNodes[next] = 0
      /\ \A e \in inputs \cup outputs : e[2] \in g.alive
  <2>1. \E k \in Kind : Allocate(k)
    BY DEF MakeNode, MakeInput, SetOutput, Kind
  <2>2. next \in Node /\ next \notin g.alive /\ next \notin retired
    BY <2>1, AllocateFacts
  <2> QED
    BY <2>2, BagFacts DEF IInv, TypeOK, Savable, NamesAlive
<1>2. ASSUME NEW b \in Vector, MakeNode(b) PROVE Savable'
  <2> DEFINE fresh == NewNode(g, next)
  <2>1. fresh.operands = [g.operands EXCEPT ![next] = NoNodes] /\ fresh.alive = g.alive \cup {next}
    BY DEF NewNode
  <2>2. g' = IF IsNone(b) THEN fresh ELSE SetOperands(fresh, next, b)
    BY <1>2 DEF MakeNode
  <2> HIDE DEF fresh
  <2>3. g'.operands = [g.operands EXCEPT ![next] = IF IsNone(b) THEN NoNodes ELSE b]
    BY <1>1, <2>1, <2>2 DEF SetOperands
  <2>4. g'.alive = g.alive \cup {next}
    BY <2>1, <2>2 DEF SetOperands
  <2>5. \A x, y \in Node : x # next => ~(g'.operands[x][y] > 0) \/ g.operands[x][y] > 0
    BY <1>1, <2>3
  <2>6. \A y \in Node : g'.operands[next][y] > 0 => y \in g.alive
    <3>1. b \in Bag /\ \A m \in Node : b[m] > 0 => m \in g.alive
      BY <1>2 DEF MakeNode, Holdable, Usable
    <3>2. \A y \in Node : NoNodes[y] = 0
      BY BagFacts
    <3> QED
      BY <1>1, <2>3, <3>1, <3>2
  <2>7. retired' \subseteq retired /\ \A e \in inputs' \cup outputs' : e[2] \in g'.alive
    BY <1>1, <1>2, <2>4 DEF MakeNode
  <2> QED
    BY <1>1, <2>5, <2>6, <2>7, SavableMake
<1>3. ASSUME NEW name \in Name, MakeInput(name) PROVE Savable'
  <2>1. /\ g'.operands = [g.operands EXCEPT ![next] = NoNodes] /\ g'.alive = g.alive \cup {next}
        /\ retired' = retired /\ outputs' = outputs
        /\ inputs' \subseteq inputs \cup {<<name, next>>}
    BY <1>3 DEF MakeInput, NewNode
  <2>2. \A x, y \in Node : x # next => ~(g'.operands[x][y] > 0) \/ g.operands[x][y] > 0
    BY <1>1, <2>1
  <2>3. \A y \in Node : g'.operands[next][y] > 0 => y \in g.alive
    BY <1>1, <2>1, BagFacts
  <2>4. \A e \in inputs' \cup outputs' : e[2] \in g'.alive
    BY <1>1, <2>1
  <2> QED
    BY <1>1, <2>1, <2>2, <2>3, <2>4, SavableMake
<1>4. ASSUME NEW name \in Name, NEW m \in Node, SetOutput(name, m) PROVE Savable'
  <2> DEFINE fresh == NewNode(g, next)
             made == SetOperands(fresh, next, One(m))
  <2>1. fresh.operands = [g.operands EXCEPT ![next] = NoNodes] /\ fresh.alive = g.alive \cup {next}
    BY DEF NewNode
  <2>2. /\ m \in g.alive /\ retired' \subseteq retired /\ inputs' = inputs
        /\ \/ g' = DestroyNode(made, next) /\ outputs' = outputs
           \/ g' = made /\ outputs' = outputs \cup {<<name, next>>}
    BY <1>4 DEF SetOutput, Usable
  <2>3. made.operands = [fresh.operands EXCEPT ![next] = One(m)] /\ made.alive = fresh.alive
    BY DEF SetOperands
  <2> HIDE DEF made
  <2>4. /\ DestroyNode(made, next).operands = [made.operands EXCEPT ![next] = NoNodes]
        /\ DestroyNode(made, next).alive = made.alive \ {next}
    BY DEF DestroyNode
  <2> HIDE DEF fresh
  <2>5. /\ g'.operands = [g.operands EXCEPT ![next] = One(m)]
           \/ g'.operands = [g.operands EXCEPT ![next] = NoNodes]
        /\ g.alive \subseteq g'.alive
        /\ \A e \in inputs' \cup outputs' : e[2] \in g'.alive
    BY <1>1, <2>1, <2>2, <2>3, <2>4
  <2>6. \A x, y \in Node : x # next => ~(g'.operands[x][y] > 0) \/ g.operands[x][y] > 0
    BY <1>1, <2>5
  <2>7. \A y \in Node : g'.operands[next][y] > 0 => y \in g.alive
    <3>1. \A y \in Node : One(m)[y] > 0 => y = m
      BY BagFacts
    <3>2. \A y \in Node : ~(NoNodes[y] > 0)
      BY BagFacts
    <3> QED
      BY <1>1, <2>2, <2>5, <3>1, <3>2
  <2> QED
    BY <1>1, <2>2, <2>5, <2>6, <2>7, SavableMake
<1> QED
  BY <1>2, <1>3, <1>4

\* A call that asks first that what it adds does not depend on the node.
LEMMA AddSavable ==
  ASSUME IInv, IInv', Savable, NEW n \in Node, NEW m \in Node, Add(n, m)
  PROVE  Savable'
<1> DEFINE b == {m}
           T == {x \in Node : \E k \in b : DependsOn(g, k, x)}
<1>1. Closed(g, T) /\ m \in T /\ T \in SUBSET Node
  <2>1. b \in SUBSET Node /\ m \in b
    OBVIOUS
  <2> HIDE DEF b
  <2> QED
    BY <2>1, DependedClosed
<1>2. n \notin T /\ n \notin retired
  BY DEF Add
<1> HIDE DEF T
<1>3. g.operands \in [Node -> Bag]
  BY DEF IInv, TypeOK
<1>4. g'.operands = [g.operands EXCEPT ![n][m] = @ + 1] /\ g'.alive = g.alive
  BY DEF Add, AddOperand
<1>5. \A x, y \in Node : g'.operands[x][y] > 0 =>
        g.operands[x][y] > 0 \/ (x \notin T /\ x \notin retired /\ y \in T)
  BY <1>1, <1>2, <1>3, <1>4 DEF Bag
<1>6. retired' \subseteq retired /\ \A e \in inputs' \cup outputs' : e[2] \in g'.alive
  BY <1>4 DEF Add, Savable, NamesAlive
<1> QED
  BY <1>1, <1>5, <1>6, SavableStep

LEMMA SetSavable ==
  ASSUME IInv, IInv', Savable, NEW n \in Node, NEW b \in Vector, Set(n, b)
  PROVE  Savable'
<1> DEFINE T == {x \in Node : \E k \in Elements(b) : DependsOn(g, k, x)}
<1>1. Closed(g, T) /\ Elements(b) \subseteq T /\ T \in SUBSET Node
  <2>1. Elements(b) \in SUBSET Node
    BY DEF Elements
  <2> QED
    BY <2>1, DependedClosed
<1>2. n \notin T /\ n \notin retired
  BY DEF Set, Elements
<1> HIDE DEF T
<1>3. g.operands \in [Node -> Bag]
  BY DEF IInv, TypeOK
<1>4. g'.operands = [g.operands EXCEPT ![n] = b] /\ g'.alive = g.alive
  BY DEF Set, SetOperands
<1>5. \A x, y \in Node : g'.operands[x][y] > 0 =>
        g.operands[x][y] > 0 \/ (x \notin T /\ x \notin retired /\ y \in T)
  BY <1>1, <1>2, <1>3, <1>4 DEF Elements
<1>6. retired' \subseteq retired /\ \A e \in inputs' \cup outputs' : e[2] \in g'.alive
  BY <1>4 DEF Set, Savable, NamesAlive
<1> QED
  BY <1>1, <1>5, <1>6, SavableStep

LEMMA ReplaceSavable ==
  ASSUME IInv, IInv', Savable, NEW old \in Node, NEW new \in Node, NEW S \in SUBSET Node,
         Replace(old, new, S)
  PROVE  Savable'
<1> DEFINE b == {new}
           T == {x \in Node : \E k \in b : DependsOn(g, k, x)}
           moved == [u \in Node |-> IF u \in S THEN g.operands[u][old] ELSE 0]
<1>1. Closed(g, T) /\ new \in T /\ T \in SUBSET Node
  <2>1. b \in SUBSET Node /\ new \in b
    OBVIOUS
  <2> HIDE DEF b
  <2> QED
    BY <2>1, DependedClosed
<1>2. \A u \in S : u \notin T /\ g.operands[u][old] > 0
  BY DEF Replace, IInv, GraphInv, Mirror
<1> HIDE DEF T
<1>3. \A u \in S : u \notin retired
  <2>1. \A u \in retired : g.operands[u][old] = 0
    BY DEF Savable, Idle, IsNone
  <2> QED
    BY <1>2, <2>1
<1>4. g.operands \in [Node -> Bag] /\ old # new
  BY DEF IInv, TypeOK, Replace
<1>5. /\ g'.alive = g.alive
      /\ g'.operands = [u \in Node |-> [g.operands[u] EXCEPT ![old] = @ - moved[u],
                                                             ![new] = @ + moved[u]]]
  BY DEF Replace, ReplaceUses
<1>6. ASSUME NEW x \in Node, NEW y \in Node, g'.operands[x][y] > 0, ~(g.operands[x][y] > 0)
      PROVE  x \in S /\ y = new
  <2>1. /\ g.operands[x] \in [Node -> Nat]
        /\ g'.operands[x] = [g.operands[x] EXCEPT ![old] = @ - moved[x], ![new] = @ + moved[x]]
    BY <1>4, <1>5 DEF Bag
  <2>2. moved[x] = IF x \in S THEN g.operands[x][old] ELSE 0
    OBVIOUS
  <2> HIDE DEF moved
  <2>3. /\ g.operands[x][y] \in Nat /\ g.operands[x][old] \in Nat /\ moved[x] \in Nat
        /\ g'.operands[x][y] = IF y = new THEN g.operands[x][new] + moved[x]
                               ELSE IF y = old THEN g.operands[x][old] - moved[x]
                               ELSE g.operands[x][y]
    BY <1>4, <2>1, <2>2
  <2> QED
    BY <1>6, <2>2, <2>3
<1>7. \A x, y \in Node : g'.operands[x][y] > 0 =>
        g.operands[x][y] > 0 \/ (x \notin T /\ x \notin retired /\ y \in T)
  BY <1>1, <1>2, <1>3, <1>6
<1>8. retired' \subseteq retired /\ \A e \in inputs' \cup outputs' : e[2] \in g'.alive
  BY <1>5 DEF Replace, Savable, NamesAlive
<1> QED
  BY <1>1, <1>7, <1>8, SavableStep

\* The calls that only take edges away.
LEMMA DropSavable ==
  ASSUME IInv, IInv', OutputsInv, Savable,
         \/ \E n \in Node : DropInput(n)
         \/ \E n, m \in Node : Erase(n, m)
         \/ \E n \in Node : EraseAll(n)
         \/ \E n \in Node, all \in BOOLEAN : Clean(n, all)
  PROVE  Savable'
<1>1. /\ g.operands \in [Node -> Bag] /\ NoNodes \in Bag /\ \A m \in Node : ~(NoNodes[m] > 0)
      /\ IsNone(NoNodes)
      /\ \A e \in inputs \cup outputs : e[2] \in g.alive
  BY BagFacts DEF IInv, TypeOK, Savable, NamesAlive
<1>2. ASSUME NEW n \in Node, DropInput(n) PROVE Savable'
  <2>1. /\ g'.operands = [g.operands EXCEPT ![n] = NoNodes] /\ g'.alive = g.alive \ {n}
        /\ retired' \subseteq retired /\ UNCHANGED <<inputs, outputs>>
    BY <1>2 DEF DropInput, DestroyNode
  <2>2. \A e \in inputs \cup outputs : e[2] # n
    <3>1. kind[n] = "Input" /\ \A name \in Name : <<name, n>> \notin inputs
      BY <1>2 DEF DropInput
    <3>2. inputs \subseteq Name \X Node
      BY DEF IInv, TypeOK
    <3>3. \A e \in inputs : e[2] # n
      BY <3>1, <3>2
    <3> QED
      BY <3>1, <3>3 DEF OutputsInv
  <2> QED
    BY <1>1, <2>1, <2>2, SavableFewer
<1>3. ASSUME NEW n \in Node, NEW m \in Node, Erase(n, m) PROVE Savable'
  <2>1. /\ g'.operands = [g.operands EXCEPT ![n] = [g.operands[n] EXCEPT ![m] = @ - 1]]
        /\ g'.alive = g.alive /\ g.operands[n][m] > 0
        /\ retired' = retired /\ UNCHANGED <<inputs, outputs>>
    BY <1>3 DEF Erase, EraseOperand
  <2>2. \A x, y \in Node : g'.operands[x][y] > 0 => g.operands[x][y] > 0
    BY <1>1, <2>1 DEF Bag
  <2> QED
    BY <1>1, <2>1, <2>2, SavableFewer
<1>4. ASSUME NEW n \in Node, EraseAll(n) PROVE Savable'
  <2>1. /\ g'.operands = [g.operands EXCEPT ![n] = NoNodes] /\ g'.alive = g.alive
        /\ retired' = retired /\ UNCHANGED <<inputs, outputs>>
    BY <1>4 DEF EraseAll, EraseAllOperand
  <2>2. \A x, y \in Node : g'.operands[x][y] > 0 => g.operands[x][y] > 0
    BY <1>1, <2>1
  <2> QED
    BY <1>1, <2>1, <2>2, SavableFewer
<1>5. ASSUME NEW n \in Node, NEW all \in BOOLEAN, Clean(n, all) PROVE Savable'
  <2>1. /\ g'.operands = [g.operands EXCEPT ![n] = NoNodes] /\ g'.alive = g.alive
        /\ retired' = retired \cup {n} /\ UNCHANGED <<inputs, outputs>>
    BY <1>5 DEF Clean, CleanNode, EraseAllOperand
  <2>2. \A x, y \in Node : g'.operands[x][y] > 0 => g.operands[x][y] > 0
    BY <1>1, <2>1
  <2>3. \A x \in Node : x \in retired' => x \in retired \/ IsNone(g'.operands[x])
    BY <1>1, <2>1
  <2> QED
    BY <1>1, <2>1, <2>2, <2>3, SavableFewer
<1> QED
  BY <1>2, <1>3, <1>4, <1>5

(* What nodesSerialize needs of a graph that calls have made: no cycle in  *)
(* either direction, no operands of a node that eraseAllOperand emptied in *)
(* a clean pass, and named inputs and outputs that are alive.              *)
THEOREM SavableHolds == Spec => []Savable
<1>1. ASSUME Init PROVE Savable
  <2>1. \A x, y \in Node : ~(g.operands[x][y] > 0) /\ ~(g.uses[x][y] > 0)
    BY <1>1, BagFacts DEF Init, EmptyGraph
  <2>2. \A forward \in BOOLEAN : \A x \in Node : Preds(g, forward, x) = {}
    BY <2>1 DEF Preds
  <2> QED
    BY <1>1, <2>2 DEF Init, Savable, NoCycle, Acyclic, Idle, NamesAlive
<1>2. ASSUME IInv, IInv', OutputsInv, Savable, [Next]_vars PROVE Savable'
  <2>1. CASE UNCHANGED vars
    BY <1>2, <2>1 DEF vars, Savable, NoCycle, Acyclic, Preds, Idle, NamesAlive
  <2> QED
    BY <1>2, <2>1, MakeSavable, AddSavable, SetSavable, ReplaceSavable, DropSavable DEF Next
<1> QED
  BY <1>1, <1>2, IInvHolds, OutputsInvHolds, PTL DEF Spec

-----------------------------------------------------------------------------
(* The tables of names: a name once in each, for a node of its kind.       *)
Named ==
  /\ \A n \in g.alive : IsValidOp(kind[n])
  /\ \A e, f \in inputs : e[1] = f[1] => e = f
  /\ \A e, f \in outputs : e[1] = f[1] => e = f
  /\ \A e \in inputs : kind[e[2]] = "Input"
  /\ \A e \in outputs : kind[e[2]] = "Output"

\* A call that makes no node.
LEMMA NamedAside ==
  ASSUME IInv, Named, UNCHANGED <<kind, inputs, outputs>>, g'.alive \subseteq g.alive
  PROVE  Named'
BY DEF Named, IsValidOp

\* A call that makes the node next, and may name it.
LEMMA NamedMake ==
  ASSUME IInv, Named, NamesAlive, NEW k \in {"Input", "Output", "Op"}, Allocate(k),
         g'.alive \subseteq g.alive \cup {next},
         \/ inputs' = inputs
         \/ \E name \in Name : /\ k = "Input" /\ inputs' = inputs \cup {<<name, next>>}
                              /\ \A m \in Node : <<name, m>> \notin inputs,
         \/ outputs' = outputs
         \/ \E name \in Name : /\ k = "Output" /\ outputs' = outputs \cup {<<name, next>>}
                              /\ \A m \in Node : <<name, m>> \notin outputs
  PROVE  Named'
<1>1. next \in Node /\ next \notin g.alive
  <2>1. k \in Kind
    BY DEF Kind
  <2> QED
    BY <2>1, AllocateFacts
<1>2. kind \in [Node -> Kind] /\ kind' = [kind EXCEPT ![next] = k]
  BY DEF IInv, TypeOK, Allocate
<1>3. /\ inputs \subseteq Name \X Node /\ outputs \subseteq Name \X Node
      /\ \A e \in inputs \cup outputs : e[2] \in g.alive
      /\ g.alive \subseteq Node
  BY DEF IInv, TypeOK, NamesAlive
<1>4. \A e \in inputs \cup outputs : e[2] \in Node /\ e[2] # next
  BY <1>1, <1>3
<1>5. \A n \in g'.alive : IsValidOp(kind'[n])
  BY <1>1, <1>2, <1>3 DEF Named, IsValidOp
<1>6. \A e \in inputs' : kind'[e[2]] = "Input"
  BY <1>1, <1>2, <1>4 DEF Named
<1>7. \A e \in outputs' : kind'[e[2]] = "Output"
  BY <1>1, <1>2, <1>4 DEF Named
<1>8. \A e, f \in inputs' : e[1] = f[1] => e = f
  BY <1>3 DEF Named
<1>9. \A e, f \in outputs' : e[1] = f[1] => e = f
  BY <1>3 DEF Named
<1> QED
  BY <1>5, <1>6, <1>7, <1>8, <1>9 DEF Named

(* Dag::createInputNode and setOutput register a name once, for a node of  *)
(* that kind, so that no emplace of nodesDeserialize is refused.           *)
THEOREM NamedHolds == Spec => []Named
<1>1. ASSUME Init PROVE Named
  BY <1>1 DEF Init, Named, EmptyGraph
<1>2. ASSUME IInv, Savable, Named, [Next]_vars PROVE Named'
  <2>0. NamesAlive
    BY <1>2 DEF Savable
  <2>1. CASE UNCHANGED vars
    BY <1>2, <2>1, NamedAside DEF vars
  <2>2. ASSUME NEW b \in Vector, MakeNode(b) PROVE Named'
    <3>1. g'.alive \subseteq g.alive \cup {next} /\ Allocate("Op") /\ UNCHANGED <<inputs, outputs>>
      BY <2>2 DEF MakeNode, SetOperands, NewNode
    <3> QED
      BY <1>2, <2>0, <3>1, NamedMake
  <2>3. ASSUME NEW name \in Name, MakeInput(name) PROVE Named'
    <3>1. /\ g'.alive \subseteq g.alive \cup {next} /\ Allocate("Input") /\ outputs' = outputs
          /\ \/ inputs' = inputs
             \/ /\ inputs' = inputs \cup {<<name, next>>}
                /\ \A m \in Node : <<name, m>> \notin inputs
      BY <2>3 DEF MakeInput, NewNode
    <3> QED
      BY <1>2, <2>0, <3>1, NamedMake
  <2>4. ASSUME NEW name \in Name, NEW m \in Node, SetOutput(name, m) PROVE Named'
    <3> DEFINE made == SetOperands(NewNode(g, next), next, One(m))
    <3>1. made.alive = g.alive \cup {next} /\ DestroyNode(made, next).alive = made.alive \ {next}
      BY DEF SetOperands, NewNode, DestroyNode
    <3>2. /\ Allocate("Output") /\ inputs' = inputs
          /\ IF \E o \in Node : <<name, o>> \in outputs
             THEN g' = DestroyNode(made, next) /\ UNCHANGED outputs
             ELSE g' = made /\ outputs' = outputs \cup {<<name, next>>}
      BY <2>4 DEF SetOutput
    <3> HIDE DEF made
    <3>3. g'.alive \subseteq g.alive \cup {next}
      BY <3>1, <3>2
    <3>4. \/ outputs' = outputs
          \/ /\ outputs' = outputs \cup {<<name, next>>}
             /\ \A o \in Node : <<name, o>> \notin outputs
      BY <3>2
    <3> QED
      BY <1>2, <2>0, <3>2, <3>3, <3>4, NamedMake
  <2>5. ASSUME NEW n \in Node, DropInput(n) PROVE Named'
    <3>1. UNCHANGED <<kind, inputs, outputs>> /\ g'.alive \subseteq g.alive
      BY <2>5 DEF DropInput, DestroyNode
    <3> QED
      BY <1>2, <3>1, NamedAside
  <2>6. ASSUME \/ \E n, m \in Node : Add(n, m)
               \/ \E n, m \in Node : Erase(n, m)
               \/ \E n \in Node : EraseAll(n)
        PROVE  Named'
    <3>1. UNCHANGED <<kind, inputs, outputs>> /\ g'.alive = g.alive
      <4>1. \A n, m \in Node : Add(n, m)
              => UNCHANGED <<kind, inputs, outputs>> /\ g'.alive = g.alive
        BY DEF Add, AddOperand
      <4>2. \A n, m \in Node : Erase(n, m)
              => UNCHANGED <<kind, inputs, outputs>> /\ g'.alive = g.alive
        BY DEF Erase, EraseOperand
      <4>3. \A n \in Node : EraseAll(n)
              => UNCHANGED <<kind, inputs, outputs>> /\ g'.alive = g.alive
        BY DEF EraseAll, EraseAllOperand
      <4> QED
        BY <2>6, <4>1, <4>2, <4>3
    <3> QED
      BY <1>2, <3>1, NamedAside
  <2>7. ASSUME NEW n \in Node, NEW b \in Vector, Set(n, b) PROVE Named'
    <3>1. UNCHANGED <<kind, inputs, outputs>> /\ g'.alive = g.alive
      BY <2>7 DEF Set, SetOperands
    <3> QED
      BY <1>2, <3>1, NamedAside
  <2>8. ASSUME NEW old \in Node, NEW new \in Node, NEW S \in SUBSET Node, Replace(old, new, S)
        PROVE  Named'
    <3>1. UNCHANGED <<kind, inputs, outputs>> /\ g'.alive = g.alive
      BY <2>8 DEF Replace, ReplaceUses
    <3> QED
      BY <1>2, <3>1, NamedAside
  <2>9. ASSUME NEW n \in Node, NEW all \in BOOLEAN, Clean(n, all) PROVE Named'
    <3>1. UNCHANGED <<kind, inputs, outputs>> /\ g'.alive = g.alive
      BY <2>9 DEF Clean, CleanNode, EraseAllOperand
    <3> QED
      BY <1>2, <3>1, NamedAside
  <2> QED
    BY <1>2, <2>1, <2>2, <2>3, <2>4, <2>5, <2>6, <2>7, <2>8, <2>9 DEF Next
<1> QED
  BY <1>1, <1>2, IInvHolds, SavableHolds, PTL DEF Spec

\* One set after the other: what the recursion of AttrsSet denotes.
LEMMA AttrsSetSteps ==
  ASSUME NEW sets, Len(sets) \in Nat
  PROVE  \E q : /\ q[0] = <<>>
                /\ \A i \in 1 .. Len(sets) : q[i] = SetAttr(q[i - 1], sets[i].key, sets[i].value)
                /\ AttrsSet(sets) = q[Len(sets)]
<1> DEFINE first == <<>>
           k == Len(sets)
           Solves(q, j) == q = [i \in 0 .. j |-> IF i = 0 THEN first ELSE SetAttr(q[i - 1], sets[i].key, sets[i].value)]
           Bad == {j \in Nat : ~ \E q : Solves(q, j)}
           list == CHOOSE q : Solves(q, k)
<1>1. k \in Nat /\ AttrsSet(sets) = list[k]
  BY DEF AttrsSet
<1> HIDE DEF first, k
<1>2. ASSUME Bad # {} PROVE FALSE
  <2>1. PICK j \in Bad : \A i \in Bad : j <= i
    BY <1>2, LeastNumber
  <2>2. j # 0
    <3>1. Solves([i \in 0 .. 0 |-> first], 0)
      OBVIOUS
    <3> QED
      BY <3>1, <2>1
  <2>3. j - 1 \in Nat /\ ~(j <= j - 1)
    BY <2>1, <2>2
  <2>4. PICK p : Solves(p, j - 1)
    BY <2>1, <2>3
  <2> DEFINE q == [i \in 0 .. j |-> IF i = j THEN SetAttr(p[j - 1], sets[j].key, sets[j].value) ELSE p[i]]
  <2>5. ASSUME NEW i \in 0 .. j
        PROVE  q[i] = IF i = 0 THEN first ELSE SetAttr(q[i - 1], sets[i].key, sets[i].value)
    <3>1. CASE i = 0
      <4>1. 0 \in 0 .. (j - 1) /\ i # j
        BY <2>3, <3>1
      <4>2. p[0] = first
        BY <2>4, <4>1
      <4> QED
        BY <3>1, <4>1, <4>2
    <3>2. CASE i = j
      <4>1. q[i - 1] = p[j - 1] /\ i # 0
        BY <2>3, <3>2
      <4> QED
        BY <3>2, <4>1
    <3>3. CASE i # 0 /\ i # j
      <4>1. i \in 0 .. (j - 1) /\ i - 1 \in 0 .. j /\ i - 1 # j
        BY <2>3, <3>3
      <4>2. q[i] = p[i] /\ q[i - 1] = p[i - 1]
        BY <3>3, <4>1
      <4>3. p[i] = SetAttr(p[i - 1], sets[i].key, sets[i].value)
        BY <2>4, <3>3, <4>1
      <4> QED
        BY <3>3, <4>2, <4>3
    <3> QED
      BY <3>1, <3>2, <3>3
  <2>6. Solves(q, j)
    BY <2>5
  <2> QED
    BY <2>1, <2>6
<1>3. \E q : Solves(q, k)
  BY <1>1, <1>2
<1>4. list = [i \in 0 .. k |-> IF i = 0 THEN first ELSE SetAttr(list[i - 1], sets[i].key, sets[i].value)]
  BY <1>3
<1> HIDE DEF list
<1>5. list[0] = first
  BY <1>1, <1>4
<1>6. ASSUME NEW i \in 1 .. k PROVE list[i] = SetAttr(list[i - 1], sets[i].key, sets[i].value)
  <2>1. i \in 0 .. k /\ i # 0
    BY <1>1
  <2> QED
    BY <1>4, <2>1
<1> QED
  BY <1>1, <1>5, <1>6 DEF first, k

\* The turns of nodesSerialize.
LEMMA NodesTextSteps ==
  ASSUME NEW dag, NEW sinks, TurnsEnough(dag, sinks) \in Nat
  PROVE  \E q : /\ q[0] = [work |-> [j \in DOMAIN sinks |-> Entry(TRUE, sinks[j])],
                       index |-> [n \in {} |-> 0], nodes |-> <<>>]
                /\ \A i \in 1 .. TurnsEnough(dag, sinks) : q[i] = Turn(dag, q[i - 1])
                /\ NodesText(dag, sinks) = q[TurnsEnough(dag, sinks)]
<1> DEFINE first == [work |-> [j \in DOMAIN sinks |-> Entry(TRUE, sinks[j])],
                       index |-> [n \in {} |-> 0], nodes |-> <<>>]
           k == TurnsEnough(dag, sinks)
           Solves(q, j) == q = [i \in 0 .. j |-> IF i = 0 THEN first ELSE Turn(dag, q[i - 1])]
           Bad == {j \in Nat : ~ \E q : Solves(q, j)}
           list == CHOOSE q : Solves(q, k)
<1>1. k \in Nat /\ NodesText(dag, sinks) = list[k]
  BY DEF NodesText
<1> HIDE DEF first, k
<1>2. ASSUME Bad # {} PROVE FALSE
  <2>1. PICK j \in Bad : \A i \in Bad : j <= i
    BY <1>2, LeastNumber
  <2>2. j # 0
    <3>1. Solves([i \in 0 .. 0 |-> first], 0)
      OBVIOUS
    <3> QED
      BY <3>1, <2>1
  <2>3. j - 1 \in Nat /\ ~(j <= j - 1)
    BY <2>1, <2>2
  <2>4. PICK p : Solves(p, j - 1)
    BY <2>1, <2>3
  <2> DEFINE q == [i \in 0 .. j |-> IF i = j THEN Turn(dag, p[j - 1]) ELSE p[i]]
  <2>5. ASSUME NEW i \in 0 .. j
        PROVE  q[i] = IF i = 0 THEN first ELSE Turn(dag, q[i - 1])
    <3>1. CASE i = 0
      <4>1. 0 \in 0 .. (j - 1) /\ i # j
        BY <2>3, <3>1
      <4>2. p[0] = first
        BY <2>4, <4>1
      <4> QED
        BY <3>1, <4>1, <4>2
    <3>2. CASE i = j
      <4>1. q[i - 1] = p[j - 1] /\ i # 0
        BY <2>3, <3>2
      <4> QED
        BY <3>2, <4>1
    <3>3. CASE i # 0 /\ i # j
      <4>1. i \in 0 .. (j - 1) /\ i - 1 \in 0 .. j /\ i - 1 # j
        BY <2>3, <3>3
      <4>2. q[i] = p[i] /\ q[i - 1] = p[i - 1]
        BY <3>3, <4>1
      <4>3. p[i] = Turn(dag, p[i - 1])
        BY <2>4, <3>3, <4>1
      <4> QED
        BY <3>3, <4>2, <4>3
    <3> QED
      BY <3>1, <3>2, <3>3
  <2>6. Solves(q, j)
    BY <2>5
  <2> QED
    BY <2>1, <2>6
<1>3. \E q : Solves(q, k)
  BY <1>1, <1>2
<1>4. list = [i \in 0 .. k |-> IF i = 0 THEN first ELSE Turn(dag, list[i - 1])]
  BY <1>3
<1> HIDE DEF list
<1>5. list[0] = first
  BY <1>1, <1>4
<1>6. ASSUME NEW i \in 1 .. k PROVE list[i] = Turn(dag, list[i - 1])
  <2>1. i \in 0 .. k /\ i # 0
    BY <1>1
  <2> QED
    BY <1>4, <2>1
<1> QED
  BY <1>1, <1>5, <1>6 DEF first, k

\* The messages of nodesDeserialize.
LEMMA NodesLoadedSteps ==
  ASSUME NEW nodes, Len(nodes) \in Nat
  PROVE  \E q : /\ q[0] = NothingLoaded
                /\ \A i \in 1 .. Len(nodes) : q[i] = NodeLoaded(q[i - 1], nodes[i])
                /\ NodesLoaded(nodes) = q[Len(nodes)]
<1> DEFINE first == NothingLoaded
           k == Len(nodes)
           Solves(q, j) == q = [i \in 0 .. j |-> IF i = 0 THEN first ELSE NodeLoaded(q[i - 1], nodes[i])]
           Bad == {j \in Nat : ~ \E q : Solves(q, j)}
           list == CHOOSE q : Solves(q, k)
<1>1. k \in Nat /\ NodesLoaded(nodes) = list[k]
  BY DEF NodesLoaded
<1> HIDE DEF first, k
<1>2. ASSUME Bad # {} PROVE FALSE
  <2>1. PICK j \in Bad : \A i \in Bad : j <= i
    BY <1>2, LeastNumber
  <2>2. j # 0
    <3>1. Solves([i \in 0 .. 0 |-> first], 0)
      OBVIOUS
    <3> QED
      BY <3>1, <2>1
  <2>3. j - 1 \in Nat /\ ~(j <= j - 1)
    BY <2>1, <2>2
  <2>4. PICK p : Solves(p, j - 1)
    BY <2>1, <2>3
  <2> DEFINE q == [i \in 0 .. j |-> IF i = j THEN NodeLoaded(p[j - 1], nodes[j]) ELSE p[i]]
  <2>5. ASSUME NEW i \in 0 .. j
        PROVE  q[i] = IF i = 0 THEN first ELSE NodeLoaded(q[i - 1], nodes[i])
    <3>1. CASE i = 0
      <4>1. 0 \in 0 .. (j - 1) /\ i # j
        BY <2>3, <3>1
      <4>2. p[0] = first
        BY <2>4, <4>1
      <4> QED
        BY <3>1, <4>1, <4>2
    <3>2. CASE i = j
      <4>1. q[i - 1] = p[j - 1] /\ i # 0
        BY <2>3, <3>2
      <4> QED
        BY <3>2, <4>1
    <3>3. CASE i # 0 /\ i # j
      <4>1. i \in 0 .. (j - 1) /\ i - 1 \in 0 .. j /\ i - 1 # j
        BY <2>3, <3>3
      <4>2. q[i] = p[i] /\ q[i - 1] = p[i - 1]
        BY <3>3, <4>1
      <4>3. p[i] = NodeLoaded(p[i - 1], nodes[i])
        BY <2>4, <3>3, <4>1
      <4> QED
        BY <3>3, <4>2, <4>3
    <3> QED
      BY <3>1, <3>2, <3>3
  <2>6. Solves(q, j)
    BY <2>5
  <2> QED
    BY <2>1, <2>6
<1>3. \E q : Solves(q, k)
  BY <1>1, <1>2
<1>4. list = [i \in 0 .. k |-> IF i = 0 THEN first ELSE NodeLoaded(list[i - 1], nodes[i])]
  BY <1>3
<1> HIDE DEF list
<1>5. list[0] = first
  BY <1>1, <1>4
<1>6. ASSUME NEW i \in 1 .. k PROVE list[i] = NodeLoaded(list[i - 1], nodes[i])
  <2>1. i \in 0 .. k /\ i # 0
    BY <1>1
  <2> QED
    BY <1>4, <2>1
<1> QED
  BY <1>1, <1>5, <1>6 DEF first, k

-----------------------------------------------------------------------------
(* Attributes                                                              *)

\* A function on the first k numbers is a sequence of that length.
LEMMA FunctionSeq ==
  ASSUME NEW S, NEW k \in Nat, NEW f \in [1 .. k -> S]
  PROVE  f \in Seq(S) /\ Len(f) = k
<1>1. f \in Seq(S)
  BY SeqDef
<1>2. Len(f) \in Nat /\ 1 .. Len(f) = 1 .. k
  BY <1>1, LenProperties
<1>3. Len(f) = k
  <2>1. ASSUME Len(f) < k PROVE FALSE
    <3>1. k \in 1 .. k /\ k \notin 1 .. Len(f)
      BY <1>2, <2>1
    <3> QED
      BY <1>2, <3>1
  <2>2. ASSUME k < Len(f) PROVE FALSE
    <3>1. Len(f) \in 1 .. Len(f) /\ Len(f) \notin 1 .. k
      BY <1>2, <2>2
    <3> QED
      BY <1>2, <3>1
  <2> QED
    BY <1>2, <2>1, <2>2
<1> QED
  BY <1>1, <1>3

Sorted(list) == \A i, j \in DOMAIN list : i < j => list[i].key < list[j].key
In(e, list) == \E i \in DOMAIN list : list[i] = e
Attr(key, value) == [key |-> key, value |-> value]

\* AttrList::set keeps the order, and replaces what there was with the key.
LEMMA SetAttrFacts ==
  ASSUME NEW S, \A e \in S : e.key \in Nat, NEW list \in Seq(S), Sorted(list),
         NEW key \in Nat, NEW value, Attr(key, value) \in S
  PROVE  LET new == SetAttr(list, key, value)
         IN  /\ new \in Seq(S) /\ Sorted(new)
             /\ \A e : In(e, new) <=> e = Attr(key, value) \/ (In(e, list) /\ e.key # key)
<1> DEFINE l == Len(list)
           Passed(i) == /\ \A j \in 1 .. i : list[j].key < key
                        /\ i < l => list[i + 1].key >= key
           p == CHOOSE i \in 0 .. l : Passed(i)
           equal == p < l /\ list[p + 1].key = key
           r == IF equal THEN 2 ELSE 1
           a == Attr(key, value)
           new == SetAttr(list, key, value)
<1>1. /\ l \in Nat /\ DOMAIN list = 1 .. l /\ \A i \in 1 .. l : list[i] \in S /\ list[i].key \in Nat
      /\ \A i, j \in 1 .. l : i < j => list[i].key < list[j].key
  <2>1. l \in Nat /\ DOMAIN list = 1 .. l
    BY LenProperties
  <2>2. \A i \in 1 .. l : list[i] \in S
    BY ElementOfSeq
  <2> QED
    BY <2>1, <2>2 DEF Sorted
<1>2. p \in 0 .. l /\ Passed(p)
  <2> DEFINE R == {i \in 0 .. l : i < l => list[i + 1].key >= key}
  <2>1. l \in R /\ R \in SUBSET Nat
    BY <1>1
  <2>2. PICK i \in R : \A j \in R : i <= j
    BY <2>1, LeastNumber
  <2>3. ASSUME NEW j \in 1 .. i PROVE list[j].key < key
    <3>0. i \in 0 .. l /\ ~(i <= j - 1)
      BY <1>1
    <3>1. j - 1 \notin R /\ j - 1 \in 0 .. l /\ j \in 1 .. l
      <4>1. j - 1 \notin R
        <5> HIDE DEF R
        <5> QED
          BY <2>2, <3>0
      <4> QED
        BY <1>1, <3>0, <4>1
    <3>2. j - 1 < l /\ ~(list[(j - 1) + 1].key >= key) /\ (j - 1) + 1 = j
      BY <1>1, <3>1
    <3> QED
      BY <1>1, <3>1, <3>2
  <2>4. i \in 0 .. l /\ Passed(i)
    BY <2>2, <2>3
  <2> HIDE DEF Passed
  <2> QED
    BY <2>4
<1>3. new = SubSeq(list, 1, p) \o <<a>> \o SubSeq(list, p + r, l)
  <2>1. (p + IF equal THEN 2 ELSE 1) = p + r
    OBVIOUS
  <2> QED
    BY <2>1 DEF SetAttr, Attr
<1>4. /\ p < l => (list[p + 1].key >= key /\ (r = 1 => list[p + 1].key > key) /\ (r = 2 => list[p + 1].key = key))
      /\ r = 1 \/ (r = 2 /\ p < l)
      /\ \A j \in 1 .. p : list[j].key < key
  <2>1. p < l => p + 1 \in 1 .. l
    BY <1>1, <1>2
  <2> QED
    BY <1>1, <1>2, <2>1
<1> HIDE DEF p, r, equal, a, Passed, new
<1> DEFINE front == SubSeq(list, 1, p)
           back == SubSeq(list, p + r, l)
           m == l - (p + r) + 1
<1>5. p \in Nat /\ p <= l /\ r \in 1 .. 2 /\ m \in Nat /\ a \in S /\ l \in Nat
      /\ m = l - (p + r) + 1
  BY <1>1, <1>2, <1>4 DEF a
<1> HIDE DEF m
<1>6. front \in Seq(S) /\ Len(front) = p /\ \A i \in 1 .. p : front[i] = list[i]
  <2>1. \A i \in 1 .. p : list[i] \in S
    BY <1>1, <1>5
  <2>2. /\ front \in Seq(S) /\ Len(front) = (IF 1 <= p THEN p - 1 + 1 ELSE 0)
        /\ \A i \in 1 .. p - 1 + 1 : front[i] = list[1 + i - 1]
    BY <1>5, <2>1, SubSeqProperties
  <2>3. p - 1 + 1 = p /\ (IF 1 <= p THEN p - 1 + 1 ELSE 0) = p /\ \A i \in 1 .. p : 1 + i - 1 = i
    BY <1>5
  <2> HIDE DEF front
  <2> QED
    BY <2>2, <2>3
<1>7. back \in Seq(S) /\ Len(back) = m /\ \A i \in 1 .. m : back[i] = list[p + r + i - 1]
  <2>1. \A i \in p + r .. l : list[i] \in S
    BY <1>1, <1>5
  <2>2. /\ back \in Seq(S) /\ Len(back) = (IF p + r <= l THEN l - (p + r) + 1 ELSE 0)
        /\ \A i \in 1 .. l - (p + r) + 1 : back[i] = list[p + r + i - 1]
    BY <1>5, <2>1, SubSeqProperties
  <2>3. (IF p + r <= l THEN l - (p + r) + 1 ELSE 0) = m
    BY <1>5
  <2> HIDE DEF back
  <2> QED
    BY <2>2, <2>3
<1> HIDE DEF front, back
<1>8. /\ new \in Seq(S) /\ Len(new) = p + 1 + m /\ DOMAIN new = 1 .. (p + 1 + m)
      /\ \A i \in 1 .. (p + 1 + m) :
           new[i] = IF i <= p THEN list[i] ELSE IF i = p + 1 THEN a ELSE list[i + r - 2]
  <2>1. <<a>> \in Seq(S) /\ Len(<<a>>) = 1 /\ <<a>>[1] = a
    BY <1>5
  <2> DEFINE both == front \o <<a>>
  <2>2. /\ both \in Seq(S) /\ Len(both) = p + 1
        /\ \A i \in 1 .. p + 1 : both[i] = IF i <= p THEN front[i] ELSE <<a>>[i - p]
    BY <1>6, <2>1, ConcatProperties
  <2>3. both[p + 1] = a /\ \A i \in 1 .. p : both[i] = list[i]
    <3>1. p + 1 \in 1 .. p + 1 /\ ~(p + 1 <= p) /\ (p + 1) - p = 1
      BY <1>5
    <3>2. \A i \in 1 .. p : i \in 1 .. p + 1 /\ i <= p
      BY <1>5
    <3> HIDE DEF both
    <3>3. both[p + 1] = a
      BY <2>1, <2>2, <3>1
    <3>4. \A i \in 1 .. p : both[i] = list[i]
      BY <1>6, <2>2, <3>2
    <3> QED
      BY <3>3, <3>4
  <2> HIDE DEF both
  <2>4. new = both \o back
    BY <1>3 DEF both, front, back
  <2>5. /\ new \in Seq(S) /\ Len(new) = p + 1 + m
        /\ \A i \in 1 .. p + 1 + m : new[i] = IF i <= p + 1 THEN both[i] ELSE back[i - (p + 1)]
    <3>1. both \in Seq(S) /\ back \in Seq(S) /\ Len(both) = p + 1 /\ Len(back) = m
      BY <1>7, <2>2
    <3>2. /\ both \o back \in Seq(S) /\ Len(both \o back) = Len(both) + Len(back)
          /\ \A i \in 1 .. Len(both) + Len(back) :
               (both \o back)[i] = IF i <= Len(both) THEN both[i] ELSE back[i - Len(both)]
      BY <3>1, ConcatProperties, Zenon
    <3> QED
      BY <2>4, <3>1, <3>2
  <2>6. ASSUME NEW i \in 1 .. (p + 1 + m)
        PROVE  new[i] = IF i <= p THEN list[i] ELSE IF i = p + 1 THEN a ELSE list[i + r - 2]
    <3>1. CASE i <= p + 1
      <4>1. new[i] = both[i]
        BY <2>5, <3>1
      <4>2. i \in 1 .. p \/ (i = p + 1 /\ ~(i <= p))
        BY <1>5, <3>1
      <4>3. CASE i \in 1 .. p
        <5>1. i <= p
          BY <4>3
        <5> QED
          BY <2>3, <4>1, <4>3, <5>1
      <4> QED
        BY <2>3, <4>1, <4>2, <4>3
    <3>2. CASE i > p + 1
      <4>1. i - (p + 1) \in 1 .. m /\ p + r + (i - (p + 1)) - 1 = i + r - 2
        BY <1>5, <3>2
      <4>2. new[i] = back[i - (p + 1)] /\ ~(i <= p) /\ i # p + 1
        BY <1>5, <2>5, <3>2
      <4> QED
        BY <1>7, <4>1, <4>2
    <3> QED
      BY <1>5, <3>1, <3>2
  <2>7. DOMAIN new = 1 .. (p + 1 + m)
    BY <2>5, LenProperties
  <2> QED
    BY <2>5, <2>6, <2>7
<1>9. Sorted(new)
  <2>1. a.key = key
    BY DEF a, Attr
  <2>2. \A i \in p + 2 .. p + 1 + m : i + r - 2 \in 1 .. l /\ i + r - 2 >= p + r /\ list[i + r - 2].key > key
    <3> TAKE i \in p + 2 .. p + 1 + m
    <3>1. i + r - 2 \in 1 .. l /\ i + r - 2 >= p + r
      BY <1>5
    <3>2. p < l /\ p + 1 \in 1 .. l
      BY <1>5, <3>1
    <3>3. CASE r = 1
      <4>1. list[p + 1].key > key /\ list[p + 1].key \in Nat
        BY <1>1, <1>4, <3>2, <3>3
      <4>2. i + r - 2 = p + 1 \/ p + 1 < i + r - 2
        BY <1>5, <3>1, <3>3
      <4> QED
        BY <1>1, <3>1, <3>2, <4>1, <4>2
    <3>4. CASE r = 2
      <4>1. list[p + 1].key = key /\ p + 1 < i + r - 2
        BY <1>4, <1>5, <3>1, <3>2, <3>4
      <4> QED
        BY <1>1, <3>1, <3>2, <4>1
    <3> QED
      BY <1>5, <3>1, <3>3, <3>4
  <2>3. SUFFICES ASSUME NEW i \in 1 .. (p + 1 + m), NEW j \in 1 .. (p + 1 + m), i < j
                 PROVE  new[i].key < new[j].key
    BY <1>8 DEF Sorted
  <2>4. CASE j <= p
    <3>1. new[i] = list[i] /\ new[j] = list[j] /\ i \in 1 .. l /\ j \in 1 .. l
      BY <1>5, <1>8, <2>3, <2>4
    <3> QED
      BY <1>1, <2>3, <3>1
  <2>5. CASE j = p + 1
    <3>1. new[i] = list[i] /\ new[j] = a /\ i \in 1 .. p
      BY <1>5, <1>8, <2>3, <2>5
    <3> QED
      BY <1>4, <2>1, <3>1
  <2>6. CASE j > p + 1
    <3>1. new[j] = list[j + r - 2] /\ j \in p + 2 .. p + 1 + m
      BY <1>5, <1>8, <2>6
    <3>2. list[j + r - 2].key > key /\ j + r - 2 \in 1 .. l /\ list[j + r - 2].key \in Nat
      BY <1>1, <2>2, <3>1
    <3>3. CASE i <= p
      <4>1. new[i] = list[i] /\ list[i].key < key /\ i \in 1 .. l
        BY <1>4, <1>5, <1>8, <3>3
      <4> QED
        BY <1>1, <3>1, <3>2, <4>1
    <3>4. CASE i = p + 1
      <4>1. new[i] = a
        BY <1>5, <1>8, <3>4
      <4> QED
        BY <2>1, <3>1, <3>2, <4>1
    <3>5. CASE i > p + 1
      <4>1. new[i] = list[i + r - 2] /\ i + r - 2 \in 1 .. l /\ i + r - 2 < j + r - 2
        BY <1>5, <1>8, <2>2, <2>3, <3>5
      <4> QED
        BY <1>1, <3>1, <3>2, <4>1
    <3> QED
      BY <1>5, <3>3, <3>4, <3>5
  <2> QED
    BY <1>5, <2>4, <2>5, <2>6
<1>10. ASSUME NEW e PROVE In(e, new) <=> e = a \/ (In(e, list) /\ e.key # key)
  <2>1. a.key = key
    BY DEF a, Attr
  <2>2. In(e, new) <=> \E i \in 1 .. (p + 1 + m) : new[i] = e
    BY <1>8 DEF In
  <2>3. In(e, list) <=> \E i \in 1 .. l : list[i] = e
    BY <1>1 DEF In
  <2>4. ASSUME NEW i \in 1 .. (p + 1 + m), new[i] = e
        PROVE  e = a \/ (In(e, list) /\ e.key # key)
    <3>1. CASE i <= p
      <4>1. i \in 1 .. l /\ list[i] = e /\ list[i].key < key /\ list[i].key \in Nat
        BY <1>1, <1>4, <1>5, <1>8, <2>4, <3>1
      <4> QED
        BY <2>3, <4>1
    <3>2. CASE i = p + 1
      BY <1>5, <1>8, <2>4, <3>2
    <3>3. CASE i > p + 1
      <4>1. i + r - 2 \in 1 .. l /\ list[i + r - 2] = e
        BY <1>5, <1>8, <2>4, <3>3
      <4>2. list[i + r - 2].key # key
        <5>1. p + 1 \in 1 .. l /\ p < l /\ list[p + 1].key \in Nat /\ list[i + r - 2].key \in Nat
          BY <1>1, <1>5, <3>3, <4>1
        <5>2. CASE p + 1 < i + r - 2
          <6>1. list[p + 1].key < list[i + r - 2].key /\ list[p + 1].key >= key
            BY <1>1, <1>4, <4>1, <5>1, <5>2
          <6> QED
            BY <5>1, <6>1
        <5>3. CASE p + 1 = i + r - 2
          <6>1. r = 1
            BY <1>5, <3>3, <5>3
          <6>2. list[p + 1].key > key
            BY <1>4, <5>1, <6>1
          <6> QED
            BY <5>1, <5>3, <6>2
        <5> QED
          BY <1>5, <3>3, <5>2, <5>3
      <4> QED
        BY <2>3, <4>1, <4>2
    <3> QED
      BY <1>5, <3>1, <3>2, <3>3
  <2>5. e = a => In(e, new)
    <3>1. p + 1 \in 1 .. (p + 1 + m) /\ new[p + 1] = a
      BY <1>5, <1>8
    <3> QED
      BY <2>2, <3>1
  <2>6. ASSUME NEW i \in 1 .. l, list[i] = e, e.key # key PROVE In(e, new)
    <3>1. CASE i <= p
      <4>1. i \in 1 .. (p + 1 + m) /\ new[i] = e
        BY <1>5, <1>8, <2>6, <3>1
      <4> QED
        BY <2>2, <4>1
    <3>2. CASE i > p
      <4>1. i >= p + r
        <5>1. r = 2 => list[p + 1].key = key
          BY <1>4
        <5>2. r = 2 => i # p + 1
          BY <2>6, <5>1
        <5> QED
          BY <1>5, <3>2, <5>2
      <4>2. i + 2 - r \in 1 .. (p + 1 + m) /\ i + 2 - r > p + 1 /\ (i + 2 - r) + r - 2 = i
        BY <1>5, <4>1
      <4>3. new[i + 2 - r] = list[i]
        BY <1>5, <1>8, <4>2
      <4> QED
        BY <2>2, <2>6, <4>2, <4>3
    <3> QED
      BY <1>5, <3>1, <3>2
  <2> QED
    BY <2>2, <2>3, <2>4, <2>5, <2>6
<1> QED
  BY <1>8, <1>9, <1>10 DEF new, a

\* The set at position m is the last with its key up to position k.
LastSet(sets, m, k) == \A j \in 1 .. k : j > m => sets[j].key # sets[m].key

\* A list is sorted, and has for every key what was set last.
LEMMA AttrsSetFacts ==
  ASSUME NEW sets, Len(sets) \in Nat, \A i \in 1 .. Len(sets) : sets[i].key \in Nat
  PROVE  LET list == AttrsSet(sets)
             S    == {Attr(sets[i].key, sets[i].value) : i \in 1 .. Len(sets)}
         IN  /\ list \in Seq(S) /\ Sorted(list)
             /\ \A e : In(e, list) <=>
                  \E m \in 1 .. Len(sets) : /\ e = Attr(sets[m].key, sets[m].value)
                                            /\ LastSet(sets, m, Len(sets))
<1> DEFINE k == Len(sets)
           A(m) == Attr(sets[m].key, sets[m].value)
           S == {A(i) : i \in 1 .. k}
           Good(q, i) == /\ q[i] \in Seq(S) /\ Sorted(q[i])
                         /\ \A e : In(e, q[i]) <=>
                              \E m \in 1 .. i : e = A(m) /\ LastSet(sets, m, i)
<1>1. /\ k \in Nat /\ \A i \in 1 .. k : A(i) \in S /\ sets[i].key \in Nat
      /\ \A e \in S : e.key \in Nat
  BY DEF Attr
<1>2. PICK q : /\ q[0] = <<>>
               /\ \A i \in 1 .. k : q[i] = SetAttr(q[i - 1], sets[i].key, sets[i].value)
               /\ AttrsSet(sets) = q[k]
  BY AttrsSetSteps
<1> HIDE DEF k, S
<1>3. Good(q, 0)
  <2>1. q[0] \in Seq(S) /\ DOMAIN q[0] = {} /\ 1 .. 0 = {}
    BY <1>2, EmptySeq
  <2> QED
    BY <2>1 DEF Sorted, In
<1>4. ASSUME NEW i \in 1 .. k, Good(q, i - 1) PROVE Good(q, i)
  <2> DEFINE a == A(i)
  <2>1. /\ sets[i].key \in Nat /\ Attr(sets[i].key, sets[i].value) \in S /\ a.key = sets[i].key
        /\ q[i] = SetAttr(q[i - 1], sets[i].key, sets[i].value)
    BY <1>1, <1>2 DEF Attr
  <2>2. /\ q[i] \in Seq(S) /\ Sorted(q[i])
        /\ \A e : In(e, q[i]) <=> e = a \/ (In(e, q[i - 1]) /\ e.key # sets[i].key)
    BY <1>1, <1>4, <2>1, SetAttrFacts
  <2>3. i - 1 \in Nat /\ i \in Nat /\ i \in 1 .. i
    BY <1>1
  <2>4. LastSet(sets, i, i)
    BY <2>3 DEF LastSet
  <2>5. \A m \in 1 .. (i - 1) : m \in 1 .. i /\ A(m).key = sets[m].key /\
           (LastSet(sets, m, i) <=> LastSet(sets, m, i - 1) /\ sets[m].key # sets[i].key)
    <3> TAKE m \in 1 .. (i - 1)
    <3>1. m \in 1 .. i /\ i > m /\ A(m).key = sets[m].key
      BY <2>3 DEF Attr
    <3>2. \A j \in 1 .. i : j \in 1 .. (i - 1) \/ j = i
      BY <2>3
    <3>3. \A j \in 1 .. (i - 1) : j \in 1 .. i
      BY <2>3
    <3> QED
      BY <2>3, <3>1, <3>2, <3>3 DEF LastSet
  <2>6. \A m \in 1 .. i : m = i \/ m \in 1 .. (i - 1)
    BY <2>3
  <2> HIDE DEF A
  <2>7. ASSUME NEW e
        PROVE  In(e, q[i]) <=> \E m \in 1 .. i : e = A(m) /\ LastSet(sets, m, i)
    <3>1. In(e, q[i - 1]) <=> \E m \in 1 .. (i - 1) : e = A(m) /\ LastSet(sets, m, i - 1)
      BY <1>4
    <3>2. In(e, q[i]) <=> e = a \/ (In(e, q[i - 1]) /\ e.key # sets[i].key)
      BY <2>2
    <3> HIDE DEF a
    <3>3. a = A(i)
      BY DEF a
    <3>4. ASSUME NEW m \in 1 .. i, e = A(m), LastSet(sets, m, i)
          PROVE  e = a \/ (In(e, q[i - 1]) /\ e.key # sets[i].key)
      BY <2>5, <2>6, <3>1, <3>3, <3>4
    <3>5. ASSUME NEW m \in 1 .. (i - 1), e = A(m), LastSet(sets, m, i - 1), e.key # sets[i].key
          PROVE  m \in 1 .. i /\ LastSet(sets, m, i)
      BY <2>5, <3>5
    <3> QED
      BY <2>3, <2>4, <3>1, <3>2, <3>3, <3>4, <3>5
  <2> QED
    BY <2>2, <2>7
<1> HIDE DEF Good
<1>5. Good(q, k)
  <2> DEFINE Bad == {i \in 0 .. k : ~Good(q, i)}
  <2>1. ASSUME Bad # {} PROVE FALSE
    <3>1. Bad \in SUBSET Nat
      BY <1>1
    <3>2. PICK i \in Bad : \A j \in Bad : i <= j
      BY <2>1, <3>1, LeastNumber
    <3>3. i # 0 /\ i \in 0 .. k
      BY <1>3, <3>2
    <3>4. i \in 1 .. k /\ i - 1 \in 0 .. k /\ ~(i <= i - 1)
      BY <1>1, <3>3
    <3>5. Good(q, i - 1)
      BY <3>2, <3>4
    <3> QED
      BY <1>4, <3>2, <3>4, <3>5
  <2>2. k \in 0 .. k
    BY <1>1
  <2> QED
    BY <2>1, <2>2
<1> QED
  BY <1>2, <1>5 DEF Good, k, S

(* What a node was given comes back from the text of its list: the same    *)
(* value under the same keys, of the kind that its key asks for.           *)
LEMMA AttrsComeBack ==
  ASSUME NEW n \in Node
  PROVE  LET text == AttrsText(AttrsOf(n))
         IN  AttrsLoadable(text) /\ SameAttrs(n, AttrsLoaded(text))
<1> DEFINE given == Assigned[n]
           k == Len(given)
           A(m) == Attr(given[m].key, given[m].value)
           S == {A(i) : i \in 1 .. k}
           list == AttrsOf(n)
           text == AttrsText(list)
           sets == [i \in DOMAIN text |-> [key |-> text[i].key, value |-> ValueLoaded(text[i].value)]]
           back == AttrsLoaded(text)
<1>1. /\ k \in Nat /\ DOMAIN given = 1 .. k
      /\ \A i \in 1 .. k : Settable(given[i])
  BY AssignedAssumption
<1>2. \A i \in 1 .. k : /\ given[i] = Attr(given[i].key, given[i].value)
                        /\ given[i].key \in 1 .. 10 /\ given[i].key \in Nat
                        /\ IsValidAttr(given[i].key, given[i].value)
                        /\ ValueLoaded(IF IsConstant(given[i].value)
                                       THEN [given[i].value EXCEPT !.data = ConstantText(@)]
                                       ELSE given[i].value) = given[i].value
  <2> TAKE i \in 1 .. k
  <2> DEFINE v == given[i].value
  <2>1. Settable(given[i])
    BY <1>1
  <2>2. /\ given[i] = [key |-> given[i].key, value |-> v]
        /\ v = [alternative |-> v.alternative, data |-> v.data]
        /\ IsValidAttr(given[i].key, v)
        /\ IsConstant(v) => /\ v.data = Dense(v.data.size, v.data.values)
                            /\ v.data.size # 0 /\ v.data.values # <<>>
    BY <2>1, Zenon DEF Settable
  <2>3. DOMAIN Alternative = 1 .. 10
    BY DEF Alternative
  <2>4. given[i].key \in 1 .. 10 /\ given[i].key \in Nat
    BY <2>2, <2>3 DEF IsValidAttr
  <2> HIDE DEF v
  <2>5. ValueLoaded(IF IsConstant(v) THEN [v EXCEPT !.data = ConstantText(@)] ELSE v) = v
    <3>1. CASE ~IsConstant(v)
      BY <3>1 DEF ValueLoaded
    <3>2. CASE IsConstant(v)
      <4> DEFINE c == v.data
                 t == ConstantText(c)
                 w == [alternative |-> v.alternative, data |-> t]
      <4>1. [v EXCEPT !.data = ConstantText(@)] = w
        BY <2>2
      <4>2. ConstantLoaded(t) = c
        <5>1. t.size = c.size /\ t.values = c.values /\ t.sparse_indices = <<>>
          BY DEF ConstantText
        <5>2. Len(t.sparse_indices) \in {0, Len(t.values)}
          BY <5>1
        <5>3. c = Dense(c.size, c.values) /\ c.size # 0 /\ c.values # <<>>
          BY <2>2, <3>2
        <5> HIDE DEF t, c
        <5> QED
          BY <5>1, <5>2, <5>3 DEF ConstantLoaded
      <4>3. w.alternative = v.alternative /\ w.data = t
        OBVIOUS
      <4>4. IsConstant(w)
        BY <3>2, <4>3 DEF IsConstant
      <4>5. [w EXCEPT !.data = ConstantLoaded(@)] = [alternative |-> v.alternative, data |-> c]
        BY <4>2
      <4>6. ValueLoaded(w) = [w EXCEPT !.data = ConstantLoaded(@)]
        BY <4>4 DEF ValueLoaded
      <4> QED
        BY <2>2, <3>2, <4>1, <4>5, <4>6
    <3> QED
      BY <3>1, <3>2
  <2> QED
    BY <2>2, <2>4, <2>5 DEF v, Attr
<1>3. /\ list \in Seq(S) /\ Sorted(list)
      /\ \A e : In(e, list) <=> \E m \in 1 .. k : e = A(m) /\ LastSet(given, m, k)
  BY <1>1, <1>2, AttrsSetFacts DEF AttrsOf
<1>4. Len(list) \in Nat /\ DOMAIN list = 1 .. Len(list) /\ \A i \in 1 .. Len(list) : list[i] \in S
  BY <1>3, LenProperties, ElementOfSeq
<1> DEFINE l == Len(list)
<1> HIDE DEF list, k, l, given
<1>5. \A i \in 1 .. l : \E m \in 1 .. k : list[i] = given[m]
  BY <1>2, <1>4 DEF l
<1>6. DOMAIN text = 1 .. l /\ \A i \in 1 .. l : /\ text[i].key = list[i].key
                                               /\ ValueLoaded(text[i].value) = list[i].value
                                               /\ IsValidAttr(list[i].key, list[i].value)
                                               /\ list[i].key \in Nat
                                               /\ list[i] = Attr(list[i].key, list[i].value)
  <2>1. text = [i \in 1 .. l |-> [key |-> list[i].key,
                                  value |-> IF IsConstant(list[i].value)
                                            THEN [list[i].value EXCEPT !.data = ConstantText(@)]
                                            ELSE list[i].value]]
    BY <1>4 DEF AttrsText, l
  <2> HIDE DEF text
  <2>2. ASSUME NEW i \in 1 .. l
        PROVE  /\ text[i].key = list[i].key
               /\ ValueLoaded(text[i].value) = list[i].value
               /\ IsValidAttr(list[i].key, list[i].value)
               /\ list[i].key \in Nat
               /\ list[i] = Attr(list[i].key, list[i].value)
    <3>1. PICK m \in 1 .. k : list[i] = given[m]
      BY <1>5
    <3>2. /\ text[i].key = list[i].key
          /\ text[i].value = IF IsConstant(list[i].value)
                             THEN [list[i].value EXCEPT !.data = ConstantText(@)]
                             ELSE list[i].value
      BY <2>1
    <3> QED
      BY <1>2, <3>1, <3>2
  <2> QED
    BY <2>1, <2>2
<1>7. AttrsLoadable(text)
  BY <1>6, Zenon DEF AttrsLoadable
<1>8. l \in Nat /\ DOMAIN list = 1 .. l /\ Len(sets) = l /\ \A i \in 1 .. l : sets[i] = list[i]
  <2>1. l \in Nat /\ DOMAIN list = 1 .. l /\ \A i \in 1 .. l : list[i] \in S
    BY <1>4 DEF l
  <2> HIDE DEF text
  <2>2. \A i \in 1 .. l : sets[i] = list[i]
    BY <1>6 DEF Attr
  <2>3. sets \in [1 .. l -> S]
    BY <1>6, <2>1, <2>2
  <2> HIDE DEF sets
  <2> QED
    BY <2>1, <2>2, <2>3, FunctionSeq
<1>9. /\ back \in Seq({Attr(sets[i].key, sets[i].value) : i \in 1 .. l})
      /\ \A e : In(e, back) <=> In(e, list)
  <2>1. back = AttrsSet(sets)
    BY DEF AttrsLoaded
  <2> HIDE DEF sets, back
  <2>2. \A i \in 1 .. Len(sets) : sets[i].key \in Nat
    BY <1>6, <1>8
  <2>3. /\ back \in Seq({Attr(sets[i].key, sets[i].value) : i \in 1 .. l})
        /\ \A e : In(e, back) <=>
             \E m \in 1 .. l : /\ e = Attr(sets[m].key, sets[m].value)
                               /\ LastSet(sets, m, l)
    BY <1>8, <2>1, <2>2, AttrsSetFacts
  <2>4. \A m \in 1 .. l : LastSet(sets, m, l) /\ Attr(sets[m].key, sets[m].value) = list[m]
    <3> TAKE m \in 1 .. l
    <3>1. \A j \in 1 .. l : j > m => list[m].key < list[j].key
      BY <1>3, <1>8 DEF Sorted
    <3>2. \A j \in 1 .. l : j > m => sets[j].key # sets[m].key
      BY <1>6, <1>8, <3>1
    <3> QED
      BY <1>6, <1>8, <3>2 DEF LastSet
  <2>5. \A e : In(e, list) <=> \E m \in 1 .. l : e = list[m]
    BY <1>8 DEF In
  <2> QED
    BY <2>3, <2>4, <2>5
<1> HIDE DEF text, sets, back
<1>10. \A i \in DOMAIN back : \E m \in 1 .. k : back[i] = given[m] /\ LastSet(given, m, k)
  <2> TAKE i \in DOMAIN back
  <2>1. In(back[i], back)
    BY DEF In
  <2>2. In(back[i], list)
    BY <1>9, <2>1
  <2> QED
    BY <1>2, <1>3, <2>2
<1>11. ASSUME NEW key \in DOMAIN Alternative
       PROVE  LET same == {i \in DOMAIN given : given[i].key = key}
              IN  /\ HasAttr(back, key) <=> same # {}
                  /\ same # {} => SameValue(given[Max(same)].value, GetAttr(back, key))
  <2> DEFINE same == {i \in 1 .. k : given[i].key = key}
  <2>1. ASSUME HasAttr(back, key) PROVE same # {}
    <3>1. PICK i \in DOMAIN back : back[i].key = key
      BY <2>1 DEF HasAttr
    <3>2. PICK m \in 1 .. k : back[i] = given[m]
      BY <1>10
    <3> QED
      BY <3>1, <3>2
  <2>2. ASSUME same # {}
        PROVE  /\ HasAttr(back, key)
               /\ Max(same) \in same
               /\ SameValue(given[Max(same)].value, GetAttr(back, key))
    <3>1. PICK x \in same : \A y \in same : y <= x
      <4>1. same \in SUBSET (0 .. k) /\ k \in Nat
        BY <1>1 DEF k, given
      <4> HIDE DEF same
      <4> QED
        BY <2>2, <4>1, LargestNumber
    <3>2. same \in SUBSET Nat
      BY <1>1
    <3>3. Max(same) = x
      <4> DEFINE Top(z) == z \in same /\ \A y \in same : z >= y
      <4>1. Max(same) = (CHOOSE z \in same : \A y \in same : z >= y)
        BY DEF Max
      <4> HIDE DEF same
      <4>2. \E z \in same : \A y \in same : z >= y
        BY <3>1, <3>2
      <4>3. Max(same) \in same /\ \A y \in same : Max(same) >= y
        BY <4>1, <4>2
      <4>4. Max(same) \in Nat /\ x \in Nat /\ Max(same) >= x /\ Max(same) <= x
        BY <3>1, <3>2, <4>3
      <4> QED
        BY <4>4
    <3>4. \A m \in 1 .. k : given[m].key = key /\ LastSet(given, m, k) => m = x
      <4> TAKE m \in 1 .. k
      <4> HAVE given[m].key = key /\ LastSet(given, m, k)
      <4>1. m \in same /\ m <= x /\ x \in 1 .. k /\ given[x].key = key
        BY <3>1
      <4>2. ~(x > m)
        BY <4>1 DEF LastSet
      <4> QED
        BY <3>2, <4>1, <4>2
    <3>5. LastSet(given, x, k) /\ x \in 1 .. k /\ given[x].key = key
      <4>1. \A j \in 1 .. k : j > x => j \notin same
        BY <3>1, <3>2
      <4> QED
        BY <4>1 DEF LastSet
    <3>6. In(given[x], list)
      BY <1>2, <1>3, <3>5
    <3>7. \E i \in DOMAIN back : back[i].key = key
      BY <1>9, <3>5, <3>6 DEF In
    <3> DEFINE i == CHOOSE j \in DOMAIN back : back[j].key = key
    <3>8. i \in DOMAIN back /\ back[i].key = key
      BY <3>7
    <3>9. back[i] = given[x]
      <4> HIDE DEF i
      <4>1. PICK m \in 1 .. k : back[i] = given[m] /\ LastSet(given, m, k)
        BY <1>10, <3>8
      <4> QED
        BY <3>4, <3>8, <4>1
    <3>10. GetAttr(back, key) = given[x].value
      BY <3>9 DEF GetAttr
    <3> QED
      BY <3>1, <3>3, <3>7, <3>10 DEF HasAttr, SameValue
  <2>3. same = {i \in DOMAIN given : given[i].key = key}
    BY <1>1 DEF k, given
  <2> QED
    BY <2>1, <2>2, <2>3
<1>12. SameAttrs(n, back)
  BY <1>11, Zenon DEF SameAttrs, given
<1> QED
  BY <1>7, <1>12 DEF text, back, list

-----------------------------------------------------------------------------
(* Vectors of nodes as sequences                                           *)

Below(h, n) == {m \in Node : h.operands[n][m] > 0}

\* dag has the operands of h, in some order.
Lists(dag, h) ==
  \A n \in Node : dag.operands[n] \in Seq(Node) /\ AsBag(dag.operands[n]) = h.operands[n]

\* The operands of a node as a sequence.
LEMMA OperandsFacts ==
  ASSUME NEW h, NEW dag, Lists(dag, h), NEW n \in Node
  PROVE  LET ops == dag.operands[n]
         IN  /\ ops \in Seq(Node) /\ Len(ops) \in Nat /\ DOMAIN ops = 1 .. Len(ops)
             /\ \A m \in Node : AsBag(ops)[m] = h.operands[n][m]
             /\ \A i \in 1 .. Len(ops) : ops[i] \in Below(h, n)
             /\ \A m \in Below(h, n) : \E i \in 1 .. Len(ops) : ops[i] = m
<1> DEFINE ops == dag.operands[n]
<1>1. ops \in Seq(Node) /\ \A m \in Node : AsBag(ops)[m] = h.operands[n][m]
  BY DEF Lists
<1> HIDE DEF ops
<1>2. Len(ops) \in Nat /\ DOMAIN ops = 1 .. Len(ops) /\ \A i \in 1 .. Len(ops) : ops[i] \in Node
  BY <1>1, LenProperties, ElementOfSeq
<1>3. \A m \in Node : h.operands[n][m] > 0 <=> \E i \in 1 .. Len(ops) : ops[i] = m
  BY <1>1, AsBagFacts
<1>4. \A m \in Node : m \in Below(h, n) <=> h.operands[n][m] > 0
  BY DEF Below
<1>5. Below(h, n) \subseteq Node
  BY DEF Below
<1> QED
  BY <1>1, <1>2, <1>3, <1>4, <1>5 DEF ops

LEMMA OperandListed ==
  ASSUME NEW h, NEW dag, Lists(dag, h), NEW n \in Node,
         NEW m \in Node, h.operands[n][m] > 0
  PROVE  \E i \in 1 .. Len(dag.operands[n]) : dag.operands[n][i] = m
<1> DEFINE ops == dag.operands[n]
<1>1. ops \in Seq(Node) /\ AsBag(ops)[m] = h.operands[n][m]
  BY DEF Lists
<1> HIDE DEF ops
<1>2. AsBag(ops)[m] > 0
  BY <1>1
<1>3. \E i \in 1 .. Len(ops) : ops[i] = m
  BY <1>1, <1>2, AsBagFacts
<1> QED
  BY <1>3 DEF ops

\* Operands that are numbered anew keep their multiplicities.
LEMMA AsBagNumbered ==
  ASSUME NEW s, NEW r, DOMAIN r = DOMAIN s, NEW x \in Node, NEW y \in Node,
         \A i \in DOMAIN s : r[i] = y <=> s[i] = x
  PROVE  AsBag(r)[y] = AsBag(s)[x]
<1>1. {i \in DOMAIN r : r[i] = y} = {i \in DOMAIN s : s[i] = x}
  OBVIOUS
<1> QED
  BY <1>1 DEF AsBag

\* The lists of operands have a longest one.
LEMMA LongestFacts ==
  ASSUME NEW h, NEW dag, Lists(dag, h)
  PROVE  /\ LongestOperands(dag) \in Nat
         /\ \A n \in Node : Len(dag.operands[n]) <= LongestOperands(dag)
<1> DEFINE len(n) == Len(dag.operands[n])
           Bounded(i) == \E b \in Nat : \A n \in Node : n < i => len(n) <= b
           Bad == {i \in 0 .. MaxNode : ~Bounded(i)}
<1>1. \A n \in Node : len(n) \in Nat
  BY OperandsFacts
<1>2. MaxNode \in Nat /\ \A n \in Node : n \in Nat /\ n < MaxNode
  BY DEF Node
<1> HIDE DEF len
<1>3. ASSUME Bad # {} PROVE FALSE
  <2>1. PICK i \in Bad : \A j \in Bad : i <= j
    <3>1. Bad \in SUBSET Nat
      BY <1>2
    <3> HIDE DEF Bad
    <3> QED
      BY <1>3, <3>1, LeastNumber
  <2>2. i # 0
    <3>1. Bounded(0)
      BY <1>2
    <3> QED
      BY <2>1, <3>1
  <2>3. i - 1 \in 0 .. MaxNode /\ ~(i <= i - 1) /\ i - 1 \in Node /\ i \in Nat
    BY <1>2, <2>1, <2>2 DEF Node
  <2>4. PICK b \in Nat : \A n \in Node : n < i - 1 => len(n) <= b
    BY <2>1, <2>3
  <2> DEFINE c == IF len(i - 1) <= b THEN b ELSE len(i - 1)
  <2>5. c \in Nat /\ \A n \in Node : n < i => len(n) <= c
    <3>1. \A n \in Node : n < i => n < i - 1 \/ n = i - 1
      BY <1>2, <2>3
    <3>2. c \in Nat /\ len(i - 1) <= c /\ b <= c
      BY <1>1, <2>3
    <3> HIDE DEF c
    <3> QED
      BY <1>1, <2>4, <3>1, <3>2
  <2> QED
    BY <2>1, <2>5
<1>4. PICK b \in Nat : \A n \in Node : len(n) <= b
  <2>1. MaxNode \in 0 .. MaxNode
    BY <1>2
  <2>2. Bounded(MaxNode)
    BY <1>3, <2>1
  <2> QED
    BY <1>2, <2>2
<1> DEFINE S == {len(n) : n \in Node}
<1>5. S \in SUBSET (0 .. b) /\ S # {}
  <2>1. 0 \in Node
    BY DEF Node
  <2> QED
    BY <1>1, <1>4, <2>1
<1>6. S \in SUBSET Nat /\ \A n \in Node : len(n) \in S
  BY <1>1
<1>7. LongestOperands(dag) = (CHOOSE x \in S : \A y \in S : x >= y)
  BY DEF LongestOperands, Max, len
<1> HIDE DEF S
<1>8. \E x \in S : \A y \in S : x >= y
  BY <1>5, <1>6, LargestNumber
<1>9. LongestOperands(dag) \in S /\ \A y \in S : LongestOperands(dag) >= y
  BY <1>7, <1>8
<1> QED
  BY <1>1, <1>6, <1>9 DEF len

-----------------------------------------------------------------------------
(* The walk of nodesSerialize                                              *)

LEMMA PopFacts ==
  ASSUME NEW S, NEW s \in Seq(S), s # <<>>
  PROVE  /\ Len(s) \in Nat \ {0}
         /\ Last(s) = s[Len(s)] /\ s[Len(s)] \in S
         /\ Front(s) \in Seq(S) /\ Len(Front(s)) = Len(s) - 1
         /\ \A i \in 1 .. Len(s) - 1 : Front(s)[i] = s[i]
<1> DEFINE p == Len(s) - 1
           front == SubSeq(s, 1, p)
<1>1. Len(s) \in Nat \ {0} /\ p \in Nat /\ Len(s) = p + 1
  BY EmptySeq
<1>2. (\A i \in 1 .. p : s[i] \in S) /\ s[Len(s)] \in S
  BY <1>1, ElementOfSeq
<1> HIDE DEF p
<1>3. front \in Seq(S) /\ Len(front) = p /\ \A i \in 1 .. p : front[i] = s[i]
  <2>1. /\ front \in Seq(S) /\ Len(front) = (IF 1 <= p THEN p - 1 + 1 ELSE 0)
        /\ \A i \in 1 .. p - 1 + 1 : front[i] = s[1 + i - 1]
    BY <1>1, <1>2, SubSeqProperties
  <2>2. p - 1 + 1 = p /\ (IF 1 <= p THEN p - 1 + 1 ELSE 0) = p /\ \A i \in 1 .. p : 1 + i - 1 = i
    BY <1>1
  <2> HIDE DEF front
  <2> QED
    BY <2>1, <2>2
<1> QED
  BY <1>1, <1>2, <1>3 DEF Front, Last, p

LEMMA PushFacts ==
  ASSUME NEW S, NEW r \in Seq(S), NEW e \in S, NEW t \in Seq(S),
         NEW s, s = r \o <<e>> \o t
  PROVE  /\ s \in Seq(S) /\ Len(s) = Len(r) + 1 + Len(t)
         /\ \A i \in 1 .. Len(r) : s[i] = r[i]
         /\ s[Len(r) + 1] = e
         /\ \A i \in 1 .. Len(t) : s[Len(r) + 1 + i] = t[i]
<1> DEFINE a == r \o <<e>>
<1>1. Len(r) \in Nat /\ Len(t) \in Nat
  BY LenProperties
<1>2. <<e>> \in Seq(S) /\ Len(<<e>>) = 1 /\ <<e>>[1] = e
  OBVIOUS
<1>3. /\ a \in Seq(S) /\ Len(a) = Len(r) + Len(<<e>>)
      /\ \A i \in 1 .. Len(r) + Len(<<e>>) : a[i] =
            IF i <= Len(r) THEN r[i] ELSE <<e>>[i - Len(r)]
  BY <1>2, ConcatProperties, Zenon
<1>4. Len(a) = Len(r) + 1 /\ (\A i \in 1 .. Len(r) : a[i] = r[i]) /\ a[Len(r) + 1] = e
  BY <1>1, <1>2, <1>3
<1> HIDE DEF a
<1>5. /\ s \in Seq(S) /\ Len(s) = Len(a) + Len(t)
      /\ \A i \in 1 .. Len(a) + Len(t) : s[i] = IF i <= Len(a) THEN a[i] ELSE t[i - Len(a)]
  <2>1. /\ a \o t \in Seq(S) /\ Len(a \o t) = Len(a) + Len(t)
        /\ \A i \in 1 .. Len(a) + Len(t) : (a \o t)[i] = IF i <= Len(a) THEN a[i] ELSE t[i - Len(a)]
    BY <1>3, ConcatProperties, Zenon
  <2>2. s = a \o t
    BY DEF a
  <2> QED
    BY <2>1, <2>2, Zenon
<1>6. \A i \in 1 .. Len(r) : s[i] = r[i]
  BY <1>1, <1>4, <1>5
<1>7. s[Len(r) + 1] = e
  BY <1>1, <1>4, <1>5
<1>8. \A i \in 1 .. Len(t) : s[Len(r) + 1 + i] = t[i]
  <2> TAKE i \in 1 .. Len(t)
  <2>1. /\ Len(r) + 1 + i \in 1 .. Len(a) + Len(t) /\ ~(Len(r) + 1 + i <= Len(a))
        /\ Len(r) + 1 + i - Len(a) = i
    BY <1>1, <1>4
  <2> QED
    BY <1>5, <2>1
<1> QED
  BY <1>4, <1>5, <1>6, <1>7, <1>8

\* What a node depends on, itself left out if there is no cycle.
Under(h, n) == {m \in Node : \E c \in Below(h, n) : DependsOn(h, c, m)}

LEMMA UnderFacts ==
  ASSUME NEW h, NEW n \in Node
  PROVE  /\ Below(h, n) \subseteq Under(h, n)
         /\ \A m \in Under(h, n) : Below(h, m) \subseteq Under(h, n)
         /\ Acyclic(h, TRUE) => n \notin Under(h, n)
<1>1. \A c \in Node : DependsOn(h, c, c)
  BY DEF DependsOn
<1>2. ASSUME NEW c \in Node, NEW m \in Node, DependsOn(h, c, m), NEW k \in Below(h, m)
      PROVE  DependsOn(h, c, k)
  <2> SUFFICES ASSUME NEW S \in SUBSET Node, c \in S, Closed(h, S) PROVE k \in S
    BY DEF DependsOn
  <2>1. m \in S
    BY <1>2 DEF DependsOn
  <2> QED
    BY <1>2, <2>1 DEF Closed, Below
<1>3. \A x \in Node : Below(h, x) \subseteq Node
  BY DEF Below
<1>4. Below(h, n) \subseteq Under(h, n)
  BY <1>1, <1>3 DEF Under
<1>5. \A m \in Under(h, n) : Below(h, m) \subseteq Under(h, n)
  BY <1>2, <1>3 DEF Under
<1>6. ASSUME Acyclic(h, TRUE), n \in Under(h, n) PROVE FALSE
  <2> DEFINE S == {x \in Under(h, n) : n \in Under(h, x)}
  <2>1. n \in S
    BY <1>6
  <2>2. S \in SUBSET Node /\ S # {}
    BY <2>1 DEF Under
  <2>3. PICK x \in S : Below(h, x) \cap S = {}
    <3>1. PICK x \in S : Preds(h, TRUE, x) \cap S = {}
      BY <1>6, <2>2 DEF Acyclic
    <3>2. Preds(h, TRUE, x) = Below(h, x)
      BY DEF Preds, Below
    <3> QED
      BY <3>1, <3>2
  <2>4. PICK c \in Below(h, x) : DependsOn(h, c, n)
    BY <2>3 DEF Under
  <2>5. c \in Node /\ c \in Under(h, n) /\ c \notin S
    BY <1>3, <1>5, <2>2, <2>3, <2>4
  <2>6. n \notin Under(h, c)
    BY <2>5
  <2> DEFINE R == {c} \cup Under(h, c)
  <2>7. R \in SUBSET Node /\ Closed(h, R)
    <3>1. R \in SUBSET Node
      BY <2>5 DEF Under
    <3>2. ASSUME NEW y \in R PROVE Below(h, y) \subseteq R
      <4>1. Below(h, c) \subseteq Under(h, c)
        BY <1>1, <1>3, <2>5 DEF Under
      <4>2. \A m \in Under(h, c) : Below(h, m) \subseteq Under(h, c)
        BY <1>2, <1>3, <2>5 DEF Under
      <4> QED
        BY <4>1, <4>2
    <3> QED
      BY <3>1, <3>2 DEF Closed, Below
  <2>8. n \in R
    BY <2>4, <2>7 DEF DependsOn
  <2>9. n = c
    BY <2>6, <2>8
  <2> QED
    BY <2>1, <2>5, <2>9
<1> QED
  BY <1>4, <1>5, <1>6

-----------------------------------------------------------------------------
(* The walk of a graph h whose nodes L are closed under operands: every    *)
(* entry above an open one is a node that the open one waits for, every    *)
(* operand of an open one is written or above it, and what is written is a *)
(* list in which every node comes after its operands.                      *)
Walkable(h, dag, L) ==
  /\ Lists(dag, h) /\ \A n \in L : IsValidOp(dag.op[n])
  /\ h.operands \in [Node -> Bag] /\ L \in SUBSET Node
  /\ \A n \in L : Below(h, n) \subseteq L
  /\ Acyclic(h, TRUE)

Done(w) == DOMAIN w.index
Top(w) == Len(w.work)
At(w, i) == w.work[i].node
IsOpen(w, i) == ~w.work[i].visit

Entries(L) == [visit : BOOLEAN, node : L]
Texts == [op : {"Input", "Output", "Op"}, operands : Seq(Nat),
          attributes : {AttrsText(AttrsOf(n)) : n \in Node}]

Stacked(h, L, sinks, w) ==
  /\ w.work \in Seq(Entries(L))
  /\ \A i, j \in 1 .. Top(w) : i < j /\ IsOpen(w, i) => At(w, j) \in Under(h, At(w, i))
  /\ \A i \in 1 .. Top(w) : IsOpen(w, i) =>
       \A m \in Below(h, At(w, i)) :
          m \in Done(w) \/ \E j \in 1 .. Top(w) : i < j /\ At(w, j) = m
  /\ \A s \in sinks : s \in Done(w) \/ \E i \in 1 .. Top(w) : At(w, i) = s

Listing(h, dag, L, index, nodes) ==
  /\ DOMAIN index \subseteq L /\ nodes \in Seq(Texts)
  /\ \A n \in DOMAIN index : index[n] \in Nat /\ index[n] < Len(nodes)
  /\ \A n, m \in DOMAIN index : index[n] = index[m] => n = m
  /\ \A i \in 1 .. Len(nodes) : \E n \in DOMAIN index : index[n] + 1 = i
  /\ \A n \in DOMAIN index : nodes[index[n] + 1] = Message(dag, index, n)
  /\ \A n \in DOMAIN index : \A m \in Below(h, n) :
       m \in DOMAIN index /\ index[m] < index[n]

WalkInv(h, dag, L, sinks, w) ==
  /\ Stacked(h, L, sinks, w)
  /\ Listing(h, dag, L, w.index, w.nodes)

\* The nodes that never had their operands put on the stack.
Unopened(w) ==
  {n \in Node : n \notin Done(w) /\ \A i \in 1 .. Top(w) : IsOpen(w, i) => At(w, i) # n}

\* The top of a stack that is not empty.
LEMMA TopFacts ==
  ASSUME NEW L \in SUBSET Node, NEW w, w.work \in Seq(Entries(L)), w.work # <<>>
  PROVE  /\ Top(w) \in Nat \ {0}
         /\ Last(w.work) = w.work[Top(w)] /\ Last(w.work) \in Entries(L)
         /\ Last(w.work) = Entry(Last(w.work).visit, Last(w.work).node)
         /\ Last(w.work).visit \in BOOLEAN /\ Last(w.work).node \in L
         /\ Front(w.work) \in Seq(Entries(L)) /\ Len(Front(w.work)) = Top(w) - 1
         /\ \A i \in 1 .. Top(w) - 1 : Front(w.work)[i] = w.work[i]
<1>1. /\ Len(w.work) \in Nat \ {0}
      /\ Last(w.work) = w.work[Len(w.work)] /\ w.work[Len(w.work)] \in Entries(L)
      /\ Front(w.work) \in Seq(Entries(L)) /\ Len(Front(w.work)) = Len(w.work) - 1
      /\ \A i \in 1 .. Len(w.work) - 1 : Front(w.work)[i] = w.work[i]
  BY PopFacts
<1>2. \A e \in Entries(L) : e = Entry(e.visit, e.node) /\ e.visit \in BOOLEAN /\ e.node \in L
  BY DEF Entries, Entry
<1> QED
  BY <1>1, <1>2, Zenon DEF Top

\* A node that has its index is passed over.
LEMMA PassKeeps ==
  ASSUME NEW h, NEW dag, NEW L, Walkable(h, dag, L), NEW sinks, NEW w, WalkInv(h, dag, L, sinks, w),
         w.work # <<>>, Last(w.work).node \in Done(w)
  PROVE  LET v == [work |-> Front(w.work), index |-> w.index, nodes |-> w.nodes]
         IN  /\ WalkInv(h, dag, L, sinks, v)
             /\ Unopened(v) = Unopened(w) /\ Top(v) = Top(w) - 1
<1> DEFINE v == [work |-> Front(w.work), index |-> w.index, nodes |-> w.nodes]
           k == Top(w)
<1>1. v.work = Front(w.work) /\ v.index = w.index /\ v.nodes = w.nodes
  OBVIOUS
<1>2. /\ k \in Nat \ {0} /\ Last(w.work) = w.work[k]
      /\ Front(w.work) \in Seq(Entries(L)) /\ Len(Front(w.work)) = k - 1
      /\ \A i \in 1 .. k - 1 : Front(w.work)[i] = w.work[i]
  BY TopFacts DEF WalkInv, Walkable, Stacked
<1> HIDE DEF v, k
<1>3. /\ Top(v) = k - 1 /\ Done(v) = Done(w)
      /\ \A i \in 1 .. k - 1 : i \in 1 .. k /\ v.work[i] = w.work[i]
      /\ \A i \in 1 .. k : i \in 1 .. k - 1 \/ i = k
      /\ At(w, k) \in Done(w)
  BY <1>1, <1>2 DEF Top, Done, At
<1>4. \A i \in 1 .. k - 1 : At(v, i) = At(w, i) /\ (IsOpen(v, i) <=> IsOpen(w, i))
  BY <1>3 DEF At, IsOpen
<1>5. Stacked(h, L, sinks, v)
  <2>1. v.work \in Seq(Entries(L))
    BY <1>1, <1>2
  <2>2. \A i, j \in 1 .. Top(v) : i < j /\ IsOpen(v, i) => At(v, j) \in Under(h, At(v, i))
    BY <1>3, <1>4 DEF WalkInv, Stacked, k
  <2>3. ASSUME NEW i \in 1 .. Top(v), IsOpen(v, i), NEW m \in Below(h, At(v, i))
        PROVE  m \in Done(v) \/ \E j \in 1 .. Top(v) : i < j /\ At(v, j) = m
    <3>1. m \in Done(w) \/ \E j \in 1 .. k : i < j /\ At(w, j) = m
      BY <1>3, <1>4, <2>3 DEF WalkInv, Stacked, k
    <3> QED
      BY <1>3, <1>4, <3>1
  <2>4. ASSUME NEW s \in sinks PROVE s \in Done(v) \/ \E i \in 1 .. Top(v) : At(v, i) = s
    <3>1. s \in Done(w) \/ \E i \in 1 .. k : At(w, i) = s
      BY DEF WalkInv, Stacked, k
    <3> QED
      BY <1>3, <1>4, <3>1
  <2> QED
    BY <2>1, <2>2, <2>3, <2>4 DEF Stacked
<1>6. Unopened(v) = Unopened(w)
  <2>1. ASSUME NEW n \in Node, n \notin Done(w)
        PROVE  (\A i \in 1 .. k - 1 : IsOpen(v, i) => At(v, i) # n)
               <=> (\A i \in 1 .. k : IsOpen(w, i) => At(w, i) # n)
    BY <1>3, <1>4, <2>1
  <2> QED
    BY <1>3, <2>1 DEF Unopened, k
<1>7. WalkInv(h, dag, L, sinks, v)
  BY <1>1, <1>5 DEF WalkInv
<1> QED
  BY <1>3, <1>6, <1>7 DEF v, k

\* A node that is visited is opened, under its operands.
LEMMA ExpandKeeps ==
  ASSUME NEW h, NEW dag, NEW L, Walkable(h, dag, L), NEW sinks, NEW w, WalkInv(h, dag, L, sinks, w),
         w.work # <<>>, Last(w.work).node \notin Done(w), Last(w.work).visit
  PROVE  LET n == Last(w.work).node
             v == Expanded(dag, w, Front(w.work), n)
         IN  /\ WalkInv(h, dag, L, sinks, v)
             /\ n \in Unopened(w) /\ Unopened(v) = Unopened(w) \ {n}
             /\ Top(v) = Top(w) + Len(dag.operands[n])
<1> DEFINE n == Last(w.work).node
           v == Expanded(dag, w, Front(w.work), n)
           k == Top(w)
           ops == dag.operands[n]
           above == [i \in DOMAIN ops |-> Entry(TRUE, ops[i])]
           rest == Front(w.work)
           e == Entry(FALSE, n)
           work == rest \o <<e>> \o above
<1>1. v.work = work /\ v.index = w.index /\ v.nodes = w.nodes
  BY DEF Expanded
<1>2. /\ k \in Nat \ {0} /\ Last(w.work) = w.work[k] /\ n \in L
      /\ Front(w.work) \in Seq(Entries(L)) /\ Len(Front(w.work)) = k - 1
      /\ \A i \in 1 .. k - 1 : Front(w.work)[i] = w.work[i]
  BY TopFacts DEF WalkInv, Walkable, Stacked
<1>3. L \in SUBSET Node /\ Lists(dag, h) /\ n \in Node
      /\ Below(h, n) \subseteq L /\ Acyclic(h, TRUE)
  BY <1>2 DEF Walkable
<1> HIDE DEF v, k, n
<1>4. /\ Len(ops) \in Nat /\ DOMAIN ops = 1 .. Len(ops)
      /\ \A i \in 1 .. Len(ops) : ops[i] \in Below(h, n)
      /\ \A m \in Below(h, n) : \E i \in 1 .. Len(ops) : ops[i] = m
  <2>1. Len(ops) \in Nat /\ DOMAIN ops = 1 .. Len(ops)
    BY <1>3, OperandsFacts
  <2>2. \A i \in 1 .. Len(ops) : ops[i] \in Below(h, n)
    BY <1>3, OperandsFacts
  <2>3. \A m \in Below(h, n) : \E i \in 1 .. Len(ops) : ops[i] = m
    <3> TAKE m \in Below(h, n)
    <3>1. m \in Node /\ h.operands[n][m] > 0
      BY DEF Below
    <3> QED
      BY <1>3, <3>1, OperandListed
  <2> QED
    BY <2>1, <2>2, <2>3
<1> DEFINE l == Len(ops)
<1>5. above \in Seq(Entries(L)) /\ Len(above) = l /\ Entry(FALSE, n) \in Entries(L)
      /\ \A i \in 1 .. l : above[i] = Entry(TRUE, ops[i])
  <2>1. \A i \in 1 .. l : Entry(TRUE, ops[i]) \in Entries(L)
    BY <1>3, <1>4 DEF Entries, Entry
  <2>2. above \in [1 .. l -> Entries(L)]
    BY <1>4, <2>1
  <2>3. above \in Seq(Entries(L)) /\ Len(above) = l
    <3> HIDE DEF above, ops
    <3> QED
      BY <1>4, <2>2, FunctionSeq
  <2>4. Entry(FALSE, n) \in Entries(L)
    BY <1>2 DEF Entries, Entry
  <2> QED
    BY <1>4, <2>3, <2>4
<1> HIDE DEF above, rest, e
<1>6. /\ work \in Seq(Entries(L)) /\ Len(work) = Len(rest) + 1 + Len(above)
      /\ \A i \in 1 .. Len(rest) : work[i] = rest[i]
      /\ work[Len(rest) + 1] = e
      /\ \A i \in 1 .. Len(above) : work[Len(rest) + 1 + i] = above[i]
  <2>1. rest \in Seq(Entries(L)) /\ e \in Entries(L) /\ above \in Seq(Entries(L))
    BY <1>2, <1>5 DEF rest, e
  <2> QED
    BY <2>1, PushFacts
<1> HIDE DEF work, ops, l
<1>7. /\ l \in Nat /\ Top(v) = k + l /\ Done(v) = Done(w)
      /\ \A i \in 1 .. k - 1 : v.work[i] = w.work[i]
      /\ v.work[k] = Entry(FALSE, n)
      /\ \A i \in 1 .. l : v.work[k + i] = Entry(TRUE, ops[i])
  <2>1. l \in Nat /\ Len(above) = l /\ Len(rest) = k - 1
    BY <1>2, <1>4, <1>5 DEF l, rest
  <2>2. /\ k - 1 + 1 = k /\ k - 1 + 1 + l = k + l
        /\ \A i \in 1 .. l : k - 1 + 1 + i = k + i
    BY <1>2, <2>1
  <2>3. Top(v) = k + l /\ Done(v) = Done(w)
    BY <1>1, <1>6, <2>1, <2>2 DEF Top, Done
  <2>4. \A i \in 1 .. k - 1 : v.work[i] = w.work[i]
    BY <1>1, <1>2, <1>6, <2>1 DEF rest
  <2>5. v.work[k] = Entry(FALSE, n)
    BY <1>1, <1>6, <2>1, <2>2 DEF e
  <2>6. \A i \in 1 .. l : v.work[k + i] = Entry(TRUE, ops[i])
    <3> TAKE i \in 1 .. l
    <3>1. work[Len(rest) + 1 + i] = above[i] /\ above[i] = Entry(TRUE, ops[i])
      BY <1>5, <1>6, <2>1
    <3>2. Len(rest) + 1 + i = k + i
      BY <2>1, <2>2
    <3> QED
      BY <1>1, <3>1, <3>2
  <2> QED
    BY <2>1, <2>3, <2>4, <2>5, <2>6
<1>8. /\ \A i \in 1 .. k : At(v, i) = At(w, i)
      /\ \A i \in 1 .. k - 1 : IsOpen(v, i) <=> IsOpen(w, i)
      /\ At(w, k) = n /\ IsOpen(v, k)
      /\ \A i \in 1 .. l : At(v, k + i) = ops[i] /\ ~IsOpen(v, k + i)
  <2>1. Entry(FALSE, n).node = n /\ ~Entry(FALSE, n).visit
        /\ \A i \in 1 .. l : Entry(TRUE, ops[i]).node = ops[i] /\ Entry(TRUE, ops[i]).visit
    BY DEF Entry
  <2>2. At(w, k) = n
    BY <1>2 DEF At, n
  <2>3. \A i \in 1 .. k : i \in 1 .. k - 1 \/ i = k
    BY <1>2
  <2> QED
    BY <1>7, <2>1, <2>2, <2>3 DEF At, IsOpen
<1>9. /\ \A i \in 1 .. k + l : \/ i \in 1 .. k - 1
                               \/ i = k
                               \/ \E c \in 1 .. l : i = k + c
      /\ \A i \in 1 .. k : i \in 1 .. k + l
      /\ \A c \in 1 .. l : k + c \in 1 .. k + l /\ \A i \in 1 .. k : i < k + c
      /\ k \in 1 .. k /\ \A i \in 1 .. k - 1 : i < k /\ i \in 1 .. k
  <2>1. ASSUME NEW i \in 1 .. k + l, i > k PROVE \E c \in 1 .. l : i = k + c
    <3>1. i - k \in 1 .. l /\ i = k + (i - k)
      BY <1>2, <1>7, <2>1
    <3> QED
      BY <3>1
  <2>2. \A i \in 1 .. k + l : i \in 1 .. k - 1 \/ i = k \/ i > k
    BY <1>2, <1>7
  <2>3. /\ \A i \in 1 .. k : i \in 1 .. k + l
        /\ \A c \in 1 .. l : k + c \in 1 .. k + l /\ \A i \in 1 .. k : i < k + c
        /\ k \in 1 .. k /\ \A i \in 1 .. k - 1 : i < k /\ i \in 1 .. k
    BY <1>2, <1>7
  <2> QED
    BY <2>1, <2>2, <2>3
<1>10. \A i \in 1 .. k : At(w, i) \in Node
  <2>1. w.work \in Seq(Entries(L)) /\ k = Len(w.work)
    BY DEF WalkInv, Stacked, k, Top
  <2>2. \A i \in 1 .. k : w.work[i] \in Entries(L)
    BY <2>1, ElementOfSeq
  <2> QED
    BY <1>3, <2>2 DEF Entries, At
<1>11. \A i, j \in 1 .. k : i < j /\ IsOpen(w, i) => At(w, j) \in Under(h, At(w, i))
  BY DEF WalkInv, Stacked, k
<1>12. Stacked(h, L, sinks, v)
  <2>1. v.work \in Seq(Entries(L))
    BY <1>1, <1>6
  <2>2. ASSUME NEW i \in 1 .. Top(v), NEW j \in 1 .. Top(v), i < j, IsOpen(v, i)
        PROVE  At(v, j) \in Under(h, At(v, i))
    <3>1. i \in 1 .. k - 1 \/ i = k
      BY <1>7, <1>8, <1>9, <2>2
    <3>2. CASE j \in 1 .. k
      <4>1. i \in 1 .. k - 1
        <5>1. i # k
          BY <1>2, <2>2, <3>2
        <5> QED
          BY <3>1, <5>1
      <4> QED
        BY <1>8, <1>9, <1>11, <2>2, <3>2, <4>1
    <3>3. CASE \E c \in 1 .. l : j = k + c
      <4>1. At(v, j) \in Below(h, n)
        BY <1>4, <1>8, <3>3 DEF l
      <4>2. CASE i = k
        BY <1>3, <1>8, <1>9, <4>1, <4>2, UnderFacts
      <4>3. CASE i \in 1 .. k - 1
        <5>1. i \in 1 .. k /\ k \in 1 .. k /\ i < k /\ IsOpen(w, i)
          BY <1>8, <1>9, <2>2, <4>3
        <5>2. n \in Under(h, At(w, i)) /\ At(w, i) \in Node /\ At(v, i) = At(w, i)
          BY <1>8, <1>10, <1>11, <5>1
        <5> QED
          BY <4>1, <5>2, UnderFacts
      <4> QED
        BY <3>1, <4>2, <4>3
    <3> QED
      BY <1>7, <1>9, <3>2, <3>3
  <2>3. ASSUME NEW i \in 1 .. Top(v), IsOpen(v, i), NEW m \in Below(h, At(v, i))
        PROVE  m \in Done(v) \/ \E j \in 1 .. Top(v) : i < j /\ At(v, j) = m
    <3>1. i \in 1 .. k - 1 \/ i = k
      BY <1>7, <1>8, <1>9, <2>3
    <3>2. CASE i = k
      <4>1. m \in Below(h, n)
        BY <1>8, <1>9, <2>3, <3>2
      <4>2. PICK c \in 1 .. l : ops[c] = m
        BY <1>4, <4>1 DEF l
      <4>3. k + c \in 1 .. Top(v) /\ i < k + c /\ At(v, k + c) = m
        BY <1>7, <1>8, <1>9, <3>2, <4>2
      <4> QED
        BY <4>3
    <3>3. CASE i \in 1 .. k - 1
      <4>1. IsOpen(w, i) /\ i \in 1 .. k /\ At(v, i) = At(w, i)
        BY <1>8, <1>9, <2>3, <3>3
      <4>2. m \in Done(w) \/ \E j \in 1 .. k : i < j /\ At(w, j) = m
        BY <2>3, <4>1 DEF WalkInv, Stacked, k
      <4> QED
        BY <1>7, <1>8, <1>9, <4>2
    <3> QED
      BY <3>1, <3>2, <3>3
  <2>4. ASSUME NEW s \in sinks PROVE s \in Done(v) \/ \E i \in 1 .. Top(v) : At(v, i) = s
    <3>1. s \in Done(w) \/ \E i \in 1 .. k : At(w, i) = s
      BY DEF WalkInv, Stacked, k
    <3> QED
      BY <1>7, <1>8, <1>9, <3>1
  <2> QED
    BY <2>1, <2>2, <2>3, <2>4 DEF Stacked
<1>13. n \notin Done(w) /\ ~IsOpen(w, k)
  BY <1>2 DEF n, IsOpen
<1>14. n \in Unopened(w)
  <2>1. ASSUME NEW i \in 1 .. k, IsOpen(w, i), At(w, i) = n PROVE FALSE
    <3>1. i \in 1 .. k - 1
      BY <1>2, <1>13, <2>1
    <3>2. n \in Under(h, n)
      BY <1>8, <1>9, <1>11, <2>1, <3>1
    <3> QED
      BY <1>3, <3>2, UnderFacts
  <2> QED
    BY <1>3, <1>13, <2>1 DEF Unopened, k
<1>15. Unopened(v) = Unopened(w) \ {n}
  <2>1. ASSUME NEW x \in Node
        PROVE  (\A i \in 1 .. k + l : IsOpen(v, i) => At(v, i) # x)
               <=> (\A i \in 1 .. k : IsOpen(w, i) => At(w, i) # x) /\ x # n
    <3>1. (\A i \in 1 .. k + l : IsOpen(v, i) => At(v, i) # x)
          <=> (\A i \in 1 .. k - 1 : IsOpen(v, i) => At(v, i) # x) /\ x # n
      BY <1>8, <1>9
    <3>2. (\A i \in 1 .. k : IsOpen(w, i) => At(w, i) # x)
          <=> (\A i \in 1 .. k - 1 : IsOpen(w, i) => At(w, i) # x)
      <4>1. \A i \in 1 .. k : i \in 1 .. k - 1 \/ i = k
        BY <1>2
      <4> QED
        BY <1>9, <1>13, <4>1
    <3>3. (\A i \in 1 .. k - 1 : IsOpen(v, i) => At(v, i) # x)
          <=> (\A i \in 1 .. k - 1 : IsOpen(w, i) => At(w, i) # x)
      BY <1>8, <1>9
    <3> QED
      BY <3>1, <3>2, <3>3
  <2> QED
    BY <1>7, <2>1 DEF Unopened, k
<1>16. WalkInv(h, dag, L, sinks, v)
  BY <1>1, <1>12 DEF WalkInv
<1> QED
  BY <1>7, <1>14, <1>15, <1>16 DEF v, k, n, l, ops

\* The message of a node whose operands have their indices.
LEMMA MessageFacts ==
  ASSUME NEW h, NEW dag, Lists(dag, h), NEW n \in Node, IsValidOp(dag.op[n]), NEW index,
         \A m \in Below(h, n) : m \in DOMAIN index /\ index[m] \in Nat
  PROVE  /\ Message(dag, index, n) \in Texts
         /\ DOMAIN Message(dag, index, n).operands = 1 .. Len(Message(dag, index, n).operands)
         /\ Len(Message(dag, index, n).operands) \in Nat
         /\ \A i \in 1 .. Len(Message(dag, index, n).operands) :
              \E m \in Below(h, n) : Message(dag, index, n).operands[i] = index[m]
         /\ \A f : (\A m \in Below(h, n) : f[m] = index[m])
                     => Message(dag, f, n) = Message(dag, index, n)
<1> DEFINE ops == dag.operands[n]
           new == [i \in DOMAIN ops |-> index[ops[i]]]
<1>1. Len(ops) \in Nat /\ DOMAIN ops = 1 .. Len(ops)
  BY OperandsFacts
<1>2. \A i \in 1 .. Len(ops) : ops[i] \in Below(h, n)
  BY OperandsFacts
<1>3. Message(dag, index, n) =
        [op |-> dag.op[n], operands |-> new, attributes |-> AttrsText(AttrsOf(n))]
  BY DEF Message, Numbered
<1>4. \A f : Message(dag, f, n) =
        [op |-> dag.op[n], operands |-> [i \in DOMAIN ops |-> f[ops[i]]],
         attributes |-> AttrsText(AttrsOf(n))]
  BY DEF Message, Numbered
<1> HIDE DEF ops
<1>5. new \in [1 .. Len(ops) -> Nat]
  BY <1>1, <1>2
<1>6. new \in Seq(Nat) /\ Len(new) = Len(ops) /\ DOMAIN new = 1 .. Len(ops)
  BY <1>1, <1>5, FunctionSeq
<1>7. Message(dag, index, n) \in Texts
  BY <1>3, <1>6 DEF Texts, IsValidOp
<1>8. \A i \in 1 .. Len(ops) : \E m \in Below(h, n) : new[i] = index[m]
  BY <1>1, <1>2
<1>9. ASSUME NEW f, \A m \in Below(h, n) : f[m] = index[m]
      PROVE  Message(dag, f, n) = Message(dag, index, n)
  <2>1. [i \in DOMAIN ops |-> f[ops[i]]] = new
    BY <1>1, <1>2, <1>9
  <2> QED
    BY <1>3, <1>4, <2>1
<1>10. Message(dag, index, n).operands = new
  BY <1>3
<1> QED
  BY <1>1, <1>6, <1>7, <1>8, <1>9, <1>10, Zenon

\* What is written stays in order when a node is written whose operands are.
LEMMA ListingGrows ==
  ASSUME NEW h, NEW dag, NEW L, Walkable(h, dag, L), NEW index, NEW nodes, Listing(h, dag, L, index, nodes),
         NEW n \in L, n \notin DOMAIN index,
         \A m \in Below(h, n) : m \in DOMAIN index
  PROVE  Listing(h, dag, L, [m \in DOMAIN index \cup {n} |-> IF m = n THEN Len(nodes) ELSE index[m]],
                 Append(nodes, Message(dag, index, n)))
<1> DEFINE D == DOMAIN index
           l == Len(nodes)
           next2 == [m \in D \cup {n} |-> IF m = n THEN l ELSE index[m]]
           t == Message(dag, index, n)
           list == Append(nodes, t)
<1>1. /\ Lists(dag, h) /\ \A m \in L : IsValidOp(dag.op[m])
      /\ L \in SUBSET Node /\ n \in Node
      /\ D \subseteq L /\ nodes \in Seq(Texts)
      /\ \A m \in D : index[m] \in Nat /\ index[m] < l
      /\ \A m, k \in D : index[m] = index[k] => m = k
      /\ \A i \in 1 .. l : \E m \in D : index[m] + 1 = i
      /\ \A m \in D : nodes[index[m] + 1] = Message(dag, index, m)
      /\ \A m \in D : \A k \in Below(h, m) : k \in D /\ index[k] < index[m]
  BY DEF Walkable, Listing
<1>2. l \in Nat
  BY <1>1, LenProperties
<1>3. t \in Texts
  BY <1>1, MessageFacts
<1> HIDE DEF t, l
<1>4. /\ list \in Seq(Texts) /\ Len(list) = l + 1
      /\ \A i \in 1 .. l : list[i] = nodes[i]
      /\ list[l + 1] = t
  BY <1>1, <1>3, AppendProperties DEF l
<1>5. /\ DOMAIN next2 = D \cup {n} /\ next2[n] = l /\ n \notin D
      /\ \A m \in D : next2[m] = index[m] /\ m # n
  OBVIOUS
<1> HIDE DEF next2, list, D
<1>6. \A m \in D : Message(dag, next2, m) = Message(dag, index, m)
  <2> TAKE m \in D
  <2>1. m \in Node /\ \A k \in Below(h, m) : k \in D /\ index[k] \in Nat
    BY <1>1
  <2>2. \A k \in Below(h, m) : next2[k] = index[k]
    BY <1>5, <2>1
  <2> QED
    BY <1>1, <2>1, <2>2, MessageFacts DEF D
<1>7. Message(dag, next2, n) = t
  <2>1. \A k \in Below(h, n) : k \in D /\ index[k] \in Nat
    BY <1>1 DEF D
  <2>2. \A k \in Below(h, n) : next2[k] = index[k]
    BY <1>5, <2>1
  <2> QED
    BY <1>1, <2>1, <2>2, MessageFacts DEF D, t
<1>8. \A m \in D \cup {n} : next2[m] \in Nat /\ next2[m] < Len(list)
  BY <1>1, <1>2, <1>4, <1>5
<1>9. \A m, k \in D \cup {n} : next2[m] = next2[k] => m = k
  BY <1>1, <1>2, <1>5
<1>10. \A i \in 1 .. Len(list) : \E m \in D \cup {n} : next2[m] + 1 = i
  <2> TAKE i \in 1 .. Len(list)
  <2>1. i \in 1 .. l \/ i = l + 1
    BY <1>2, <1>4
  <2> QED
    BY <1>1, <1>5, <2>1
<1>11. \A m \in D \cup {n} : list[next2[m] + 1] = Message(dag, next2, m)
  <2>1. \A m \in D : index[m] + 1 \in 1 .. l
    BY <1>1, <1>2
  <2> QED
    BY <1>1, <1>4, <1>5, <1>6, <1>7, <2>1
<1>12. \A m \in D \cup {n} : \A k \in Below(h, m) :
         k \in D \cup {n} /\ next2[k] < next2[m]
  <2>1. \A k \in Below(h, n) : k \in D
    BY DEF D
  <2> QED
    BY <1>1, <1>5, <2>1
<1>13. D \cup {n} \subseteq L
  BY <1>1
<1>14. Listing(h, dag, L, next2, list)
  BY <1>4, <1>5, <1>8, <1>9, <1>10, <1>11, <1>12, <1>13 DEF Listing
<1> QED
  BY <1>14 DEF next2, list, D, l, t

\* An open node on top has all its operands written, and is written.
LEMMA WriteKeeps ==
  ASSUME NEW h, NEW dag, NEW L, Walkable(h, dag, L), NEW sinks, NEW w, WalkInv(h, dag, L, sinks, w),
         w.work # <<>>, Last(w.work).node \notin Done(w), ~Last(w.work).visit
  PROVE  LET v == Written(dag, w, Front(w.work), Last(w.work).node)
         IN  /\ WalkInv(h, dag, L, sinks, v)
             /\ Unopened(v) = Unopened(w) /\ Top(v) = Top(w) - 1
<1> DEFINE n == Last(w.work).node
           v == Written(dag, w, Front(w.work), n)
           k == Top(w)
           index == [m \in Done(w) \cup {n} |-> IF m = n THEN Len(w.nodes) ELSE w.index[m]]
<1>1. /\ v.work = Front(w.work) /\ v.index = index
      /\ v.nodes = Append(w.nodes, Message(dag, w.index, n))
  BY DEF Written, Done
<1>2. /\ k \in Nat \ {0} /\ Last(w.work) = w.work[k] /\ n \in L
      /\ Front(w.work) \in Seq(Entries(L)) /\ Len(Front(w.work)) = k - 1
      /\ \A i \in 1 .. k - 1 : Front(w.work)[i] = w.work[i]
  BY TopFacts DEF WalkInv, Walkable, Stacked
<1>3. DOMAIN index = Done(w) \cup {n}
  OBVIOUS
<1> HIDE DEF v, k, n, index
<1>4. /\ Top(v) = k - 1 /\ Done(v) = Done(w) \cup {n}
      /\ \A i \in 1 .. k - 1 : i \in 1 .. k /\ v.work[i] = w.work[i]
      /\ \A i \in 1 .. k : i \in 1 .. k - 1 \/ i = k
      /\ k \in 1 .. k /\ \A i \in 1 .. k : ~(k < i)
      /\ At(w, k) = n /\ IsOpen(w, k) /\ n \notin Done(w)
  BY <1>1, <1>2, <1>3 DEF Top, Done, At, IsOpen, n
<1>5. \A i \in 1 .. k - 1 : At(v, i) = At(w, i) /\ (IsOpen(v, i) <=> IsOpen(w, i))
  BY <1>4 DEF At, IsOpen
<1>6. \A m \in Below(h, n) : m \in Done(w)
  <2> TAKE m \in Below(h, n)
  <2>1. m \in Done(w) \/ \E j \in 1 .. k : k < j /\ At(w, j) = m
    BY <1>4 DEF WalkInv, Stacked, k
  <2> QED
    BY <1>4, <2>1
<1>7. Stacked(h, L, sinks, v)
  <2>1. v.work \in Seq(Entries(L))
    BY <1>1, <1>2
  <2>2. \A i, j \in 1 .. Top(v) : i < j /\ IsOpen(v, i) => At(v, j) \in Under(h, At(v, i))
    BY <1>4, <1>5 DEF WalkInv, Stacked, k
  <2>3. ASSUME NEW i \in 1 .. Top(v), IsOpen(v, i), NEW m \in Below(h, At(v, i))
        PROVE  m \in Done(v) \/ \E j \in 1 .. Top(v) : i < j /\ At(v, j) = m
    <3>1. m \in Done(w) \/ \E j \in 1 .. k : i < j /\ At(w, j) = m
      BY <1>4, <1>5, <2>3 DEF WalkInv, Stacked, k
    <3> QED
      BY <1>4, <1>5, <3>1
  <2>4. ASSUME NEW s \in sinks PROVE s \in Done(v) \/ \E i \in 1 .. Top(v) : At(v, i) = s
    <3>1. s \in Done(w) \/ \E i \in 1 .. k : At(w, i) = s
      BY DEF WalkInv, Stacked, k
    <3> QED
      BY <1>4, <1>5, <3>1
  <2> QED
    BY <2>1, <2>2, <2>3, <2>4 DEF Stacked
<1>8. Unopened(v) = Unopened(w)
  <2>1. ASSUME NEW x \in Node, x \notin Done(w)
        PROVE  (x # n /\ \A i \in 1 .. k - 1 : IsOpen(v, i) => At(v, i) # x)
               <=> (\A i \in 1 .. k : IsOpen(w, i) => At(w, i) # x)
    BY <1>4, <1>5, <2>1
  <2> QED
    BY <1>4, <2>1 DEF Unopened, k
<1>9. Listing(h, dag, L, v.index, v.nodes)
  <2>1. Listing(h, dag, L, w.index, w.nodes) /\ n \in L /\ n \notin DOMAIN w.index
    BY <1>2, <1>4 DEF WalkInv, Done
  <2>2. \A m \in Below(h, n) : m \in DOMAIN w.index
    BY <1>6 DEF Done
  <2>3. Listing(h, dag, L, [m \in DOMAIN w.index \cup {n} |-> IF m = n THEN Len(w.nodes) ELSE w.index[m]],
                Append(w.nodes, Message(dag, w.index, n)))
    BY <2>1, <2>2, ListingGrows
  <2> QED
    BY <1>1, <2>3 DEF index, Done
<1>10. WalkInv(h, dag, L, sinks, v)
  BY <1>7, <1>9 DEF WalkInv
<1> QED
  BY <1>4, <1>8, <1>10 DEF v, k, n

\* What is left to do: the entries, and as many again for every unopened node.
Left(dag, w) == Top(w) + Cardinality(Unopened(w)) * (LongestOperands(dag) + 1)

LEMMA NodesFinite ==
  /\ IsFiniteSet(Node) /\ Cardinality(Node) = MaxNode
  /\ \A S \in SUBSET Node : /\ IsFiniteSet(S) /\ Cardinality(S) \in Nat
                            /\ Cardinality(S) <= MaxNode
<1>1. IsFiniteSet(Node) /\ Cardinality(Node) = MaxNode
  BY FS_Interval DEF Node
<1> QED
  BY <1>1, FS_Subset, FS_CardinalityType

\* A turn does some of it.
LEMMA TurnKeeps ==
  ASSUME NEW h, NEW dag, NEW L, Walkable(h, dag, L), NEW sinks, NEW w, WalkInv(h, dag, L, sinks, w),
         w.work # <<>>
  PROVE  /\ WalkInv(h, dag, L, sinks, Turn(dag, w))
         /\ Left(dag, w) \in Nat /\ Left(dag, Turn(dag, w)) \in Nat
         /\ Left(dag, Turn(dag, w)) < Left(dag, w)
<1> DEFINE n == Last(w.work).node
           rest == Front(w.work)
           l == LongestOperands(dag) + 1
           c == Cardinality(Unopened(w))
           k == Top(w)
           v == Turn(dag, w)
<1>1. /\ w.work \in Seq(Entries(L)) /\ L \in SUBSET Node /\ Lists(dag, h)
      /\ n \in Node /\ k \in Nat \ {0}
  BY TopFacts DEF WalkInv, Stacked, Walkable
<1>2. l \in Nat \ {0} /\ c \in Nat /\ l = LongestOperands(dag) + 1
  <2>1. Unopened(w) \in SUBSET Node
    BY DEF Unopened
  <2> QED
    BY <1>1, <2>1, LongestFacts, NodesFinite
<1>3. v = IF n \in Done(w) THEN [work |-> rest, index |-> w.index, nodes |-> w.nodes]
          ELSE IF Last(w.work).visit THEN Expanded(dag, w, rest, n) ELSE Written(dag, w, rest, n)
  BY DEF Turn, Step, Done
<1> HIDE DEF n, rest, l, c, k, v
<1>4. Left(dag, w) = k + c * l /\ c * l \in Nat
  BY <1>2 DEF Left, k, c, l
<1>5. CASE ~(n \notin Done(w) /\ Last(w.work).visit)
  <2>1. WalkInv(h, dag, L, sinks, v) /\ Unopened(v) = Unopened(w) /\ Top(v) = k - 1
    <3>1. CASE n \in Done(w)
      BY <1>3, <3>1, PassKeeps DEF n, rest, k
    <3>2. CASE n \notin Done(w) /\ ~Last(w.work).visit
      BY <1>3, <3>2, WriteKeeps DEF n, rest, k
    <3> QED
      BY <1>5, <3>1, <3>2
  <2>2. Left(dag, v) = k - 1 + c * l
    BY <2>1 DEF Left, c, l
  <2> QED
    BY <1>1, <1>4, <2>1, <2>2 DEF v
<1>6. CASE n \notin Done(w) /\ Last(w.work).visit
  <2>1. /\ WalkInv(h, dag, L, sinks, v)
        /\ n \in Unopened(w) /\ Unopened(v) = Unopened(w) \ {n}
        /\ Top(v) = k + Len(dag.operands[n])
    BY <1>3, <1>6, ExpandKeeps DEF n, rest, k
  <2>2. Len(dag.operands[n]) \in Nat /\ Len(dag.operands[n]) <= l - 1
    <3>1. Len(dag.operands[n]) \in Nat
      BY <1>1, OperandsFacts
    <3> QED
      BY <1>1, <1>2, <3>1, LongestFacts
  <2>3. Cardinality(Unopened(v)) = c - 1 /\ c - 1 \in Nat
    <3>1. Unopened(w) \in SUBSET Node /\ Unopened(v) \in SUBSET Node
      BY <2>1 DEF Unopened
    <3>2. IsFiniteSet(Unopened(w)) /\ Cardinality(Unopened(v)) \in Nat
      BY <3>1, NodesFinite
    <3> QED
      BY <2>1, <3>1, <3>2, FS_RemoveElement DEF c
  <2>4. Left(dag, v) = k + Len(dag.operands[n]) + (c - 1) * l
    BY <2>1, <2>3 DEF Left, l
  <2>5. (c - 1) * l = c * l - l /\ (c - 1) * l \in Nat
    BY <1>2, <2>3
  <2> HIDE DEF c, l
  <2> DEFINE p == c * l
             r == (c - 1) * l
             d == Len(dag.operands[n])
  <2>6. Left(dag, w) = k + p /\ p \in Nat /\ Left(dag, v) = k + d + r /\ r = p - l /\ r \in Nat
        /\ d \in Nat /\ d <= l - 1
    BY <1>4, <2>2, <2>4, <2>5
  <2> HIDE DEF p, r, d
  <2>7. Left(dag, w) \in Nat /\ Left(dag, v) \in Nat /\ Left(dag, v) < Left(dag, w)
    BY <1>1, <1>2, <2>6
  <2> QED
    BY <2>1, <2>7 DEF v
<1> QED
  BY <1>5, <1>6

\* The walk from the sinks ends, and has written them.
LEMMA WalkEnds ==
  ASSUME NEW h, NEW dag, NEW L, Walkable(h, dag, L), NEW sinks \in Seq(L)
  PROVE  /\ NodesText(dag, sinks).work = <<>>
         /\ Listing(h, dag, L, NodesText(dag, sinks).index, NodesText(dag, sinks).nodes)
         /\ \A i \in 1 .. Len(sinks) : sinks[i] \in DOMAIN NodesText(dag, sinks).index
<1> DEFINE k == TurnsEnough(dag, sinks)
           l == LongestOperands(dag) + 1
           S == {sinks[i] : i \in 1 .. Len(sinks)}
           Good(q, i) == /\ WalkInv(h, dag, L, S, q[i])
                         /\ q[i].work # <<>> => Left(dag, q[i]) \in Nat /\ Left(dag, q[i]) + i <= k
<1>1. /\ L \in SUBSET Node /\ Lists(dag, h)
      /\ Len(sinks) \in Nat /\ DOMAIN sinks = 1 .. Len(sinks)
      /\ \A i \in 1 .. Len(sinks) : sinks[i] \in L
  BY LenProperties, ElementOfSeq DEF Walkable
<1>2. l \in Nat \ {0} /\ MaxNode * l \in Nat
  BY <1>1, LongestFacts
<1>3. k = Len(sinks) + MaxNode * l /\ k \in Nat
  BY <1>1, <1>2 DEF TurnsEnough
<1> HIDE DEF k
<1>4. PICK q : /\ q[0] = [work |-> [j \in DOMAIN sinks |-> Entry(TRUE, sinks[j])],
                          index |-> [n \in {} |-> 0], nodes |-> <<>>]
               /\ \A i \in 1 .. k : q[i] = Turn(dag, q[i - 1])
               /\ NodesText(dag, sinks) = q[k]
  BY <1>3, NodesTextSteps DEF k
<1>5. Good(q, 0)
  <2> DEFINE w == q[0]
             work == [j \in DOMAIN sinks |-> Entry(TRUE, sinks[j])]
  <2>1. /\ w.work = work /\ w.nodes = <<>> /\ DOMAIN w.index = {}
    BY <1>4
  <2>2. /\ work \in Seq(Entries(L)) /\ Len(work) = Len(sinks)
        /\ \A i \in 1 .. Len(sinks) : work[i] = Entry(TRUE, sinks[i])
    <3>1. work \in [1 .. Len(sinks) -> Entries(L)]
      BY <1>1 DEF Entries, Entry
    <3> QED
      BY <1>1, <3>1, FunctionSeq
  <2> HIDE DEF w, work
  <2>3. /\ Top(w) = Len(sinks) /\ Done(w) = {}
        /\ \A i \in 1 .. Top(w) : At(w, i) = sinks[i] /\ ~IsOpen(w, i)
    <3>1. \A i \in 1 .. Len(sinks) : w.work[i].node = sinks[i] /\ w.work[i].visit
      <4>1. \A i \in 1 .. Len(sinks) : Entry(TRUE, sinks[i]).node = sinks[i]
                                      /\ Entry(TRUE, sinks[i]).visit
        BY DEF Entry
      <4>2. \A i \in 1 .. Len(sinks) : w.work[i] = Entry(TRUE, sinks[i])
        BY <2>1, <2>2
      <4> QED
        BY <4>1, <4>2, Zenon
    <3> QED
      BY <2>1, <2>2, <3>1 DEF Top, Done, At, IsOpen
  <2>4. Stacked(h, L, S, w)
    BY <2>1, <2>2, <2>3 DEF Stacked
  <2>5. Listing(h, dag, L, w.index, w.nodes)
    <3>1. <<>> \in Seq(Texts) /\ Len(<<>>) = 0
      BY EmptySeq
    <3> QED
      BY <2>1, <3>1 DEF Listing
  <2>6. Left(dag, w) \in Nat /\ Left(dag, w) + 0 <= k
    <3> DEFINE c == Cardinality(Unopened(w))
    <3>1. Unopened(w) \in SUBSET Node
      BY DEF Unopened
    <3>2. c \in Nat /\ c <= MaxNode
      BY <3>1, NodesFinite
    <3>3. Left(dag, w) = Len(sinks) + c * l
      BY <2>3 DEF Left
    <3> HIDE DEF c, l
    <3>4. c * l \in Nat /\ c * l <= MaxNode * l
      <4>1. MaxNode - c \in Nat /\ (MaxNode - c) * l \in Nat
        BY <1>2, <3>2
      <4>2. MaxNode * l = c * l + (MaxNode - c) * l
        BY <1>2, <3>2
      <4>3. c * l \in Nat
        BY <1>2, <3>2
      <4> QED
        BY <1>2, <4>1, <4>2, <4>3
    <3> QED
      BY <1>1, <1>2, <1>3, <3>3, <3>4
  <2> QED
    BY <2>4, <2>5, <2>6 DEF WalkInv, w
<1>6. ASSUME NEW i \in 1 .. k, Good(q, i - 1) PROVE Good(q, i)
  <2>1. q[i] = Turn(dag, q[i - 1]) /\ i - 1 \in Nat /\ i \in Nat /\ i = (i - 1) + 1
    BY <1>3, <1>4
  <2>2. CASE q[i - 1].work = <<>>
    <3>1. q[i] = q[i - 1]
      BY <2>1, <2>2 DEF Turn
    <3> QED
      BY <1>6, <2>2, <3>1
  <2>3. CASE q[i - 1].work # <<>>
    <3> DEFINE w == q[i - 1]
               v == q[i]
    <3>1. WalkInv(h, dag, L, S, w) /\ w.work # <<>> /\ Left(dag, w) + (i - 1) <= k
      BY <1>6, <2>3
    <3>2. v = Turn(dag, w)
      BY <2>1
    <3> HIDE DEF w, v, S
    <3>3. /\ WalkInv(h, dag, L, S, v) /\ Left(dag, w) \in Nat /\ Left(dag, v) \in Nat
          /\ Left(dag, v) < Left(dag, w)
      BY <3>1, <3>2, TurnKeeps
    <3>4. Left(dag, v) + i <= k
      BY <1>3, <2>1, <3>1, <3>3
    <3> QED
      BY <3>3, <3>4 DEF v
  <2> QED
    BY <2>2, <2>3
<1> HIDE DEF Good
<1>7. Good(q, k)
  <2> DEFINE Bad == {i \in 0 .. k : ~Good(q, i)}
  <2>1. ASSUME Bad # {} PROVE FALSE
    <3>1. Bad \in SUBSET Nat
      BY <1>3
    <3>2. PICK i \in Bad : \A j \in Bad : i <= j
      BY <2>1, <3>1, LeastNumber
    <3>3. i # 0 /\ i \in 0 .. k
      BY <1>5, <3>2
    <3>4. i \in 1 .. k /\ i - 1 \in 0 .. k /\ ~(i <= i - 1)
      BY <1>3, <3>3
    <3>5. Good(q, i - 1)
      BY <3>2, <3>4
    <3> QED
      BY <1>6, <3>2, <3>4, <3>5
  <2>2. k \in 0 .. k
    BY <1>3
  <2> QED
    BY <2>1, <2>2
<1> DEFINE w == q[k]
<1>8. WalkInv(h, dag, L, S, w) /\ (w.work # <<>> => Left(dag, w) \in Nat /\ Left(dag, w) + k <= k)
  BY <1>7 DEF Good
<1> HIDE DEF w, S
<1>9. w.work = <<>>
  <2>1. ASSUME w.work # <<>> PROVE FALSE
    <3>1. Left(dag, w) = 0
      BY <1>3, <1>8, <2>1
    <3>2. Left(dag, Turn(dag, w)) \in Nat /\ Left(dag, Turn(dag, w)) < Left(dag, w)
      BY <1>8, <2>1, TurnKeeps
    <3> QED
      BY <3>1, <3>2
  <2> QED
    BY <2>1
<1>10. \A s \in S : s \in Done(w)
  <2>1. Top(w) = 0
    BY <1>9, EmptySeq DEF Top
  <2> QED
    BY <1>8, <2>1 DEF WalkInv, Stacked
<1>11. \A i \in 1 .. Len(sinks) : sinks[i] \in DOMAIN w.index
  BY <1>10 DEF S, Done
<1>12. Listing(h, dag, L, w.index, w.nodes)
  BY <1>8 DEF WalkInv
<1> QED
  BY <1>4, <1>9, <1>11, <1>12 DEF w

\* Every edge is one between nodes that were not cleaned.
LEMMA LiveEdges ==
  ASSUME NEW h, NEW det, NEW ret, GraphInv(h, det, ret), Idle(h, ret),
         NEW n \in Node, NEW m \in Node, h.operands[n][m] > 0
  PROVE  n \in h.alive \ ret /\ m \in h.alive \ ret
<1>1. /\ h.uses[m][n] = h.operands[n][m] /\ n \in h.alive /\ m \in h.alive
      /\ \A x \in ret : IsNone(h.uses[x]) /\ IsNone(h.operands[x])
  BY DEF GraphInv, Mirror, Inside, HistoryIdle, Idle
<1>2. h.operands[n][m] # 0
  OBVIOUS
<1> QED
  BY <1>1, <1>2 DEF IsNone

(* What is saved are the nodes that were not cleaned: no other is under a  *)
(* sink, and each is.                                                      *)
LEMMA WalkComplete ==
  ASSUME NEW h, NEW det, NEW ret, GraphInv(h, det, ret), NoCycle(h), Idle(h, ret),
         NEW dag, Lists(dag, h), \A n \in h.alive : IsValidOp(dag.op[n]),
         NEW sinks \in SetToSeqs(h.sinks)
  PROVE  /\ NodesText(dag, sinks).work = <<>>
         /\ DOMAIN NodesText(dag, sinks).index = h.alive \ ret
         /\ Listing(h, dag, h.alive \ ret, NodesText(dag, sinks).index, NodesText(dag, sinks).nodes)
<1> DEFINE L == h.alive \ ret
           index == NodesText(dag, sinks).index
           D == DOMAIN index
<1>1. /\ h.operands \in [Node -> Bag] /\ h.uses \in [Node -> Bag]
      /\ L \in SUBSET Node /\ h.sinks \in SUBSET Node
      /\ \A n, m \in Node : h.uses[m][n] = h.operands[n][m]
      /\ \A n, m \in Node : h.operands[n][m] > 0 => n \in h.alive /\ m \in h.alive
      /\ \A n \in Node : n \in h.sinks <=> n \in h.alive /\ IsNone(h.uses[n]) /\ n \notin ret
  <2>1. /\ Typed(h) /\ Mirror(h) /\ Inside(h)
        /\ RootsExact(h, det, ret) /\ HistoryIdle(h, det, ret)
    BY DEF GraphInv
  <2> QED
    BY <2>1 DEF Typed, Mirror, Inside, RootsExact
<1>2. \A n, m \in Node : h.operands[n][m] > 0 => n \in L /\ m \in L
  BY LiveEdges
<1>3. Walkable(h, dag, L)
  <2>1. \A n \in L : Below(h, n) \subseteq L
    BY <1>1, <1>2 DEF Below
  <2>2. Acyclic(h, TRUE)
    BY DEF NoCycle
  <2> QED
    BY <1>1, <2>1, <2>2 DEF Walkable
<1>4. sinks \in Seq(L) /\ \A s \in h.sinks : \E i \in 1 .. Len(sinks) : sinks[i] = s
  <2> DEFINE c == Cardinality(h.sinks)
  <2>1. c \in Nat /\ IsFiniteSet(h.sinks)
    BY <1>1, NodesFinite
  <2>2. sinks \in [1 .. c -> h.sinks] /\ \A i, j \in 1 .. c : i # j => sinks[i] # sinks[j]
    BY DEF SetToSeqs
  <2> HIDE DEF c
  <2>3. h.sinks \subseteq L
    BY <1>1
  <2>4. sinks \in Seq(L) /\ Len(sinks) = c
    <3>1. sinks \in [1 .. c -> L]
      BY <2>2, <2>3
    <3> QED
      BY <2>1, <3>1, FunctionSeq
  <2>5. sinks \in Injection(1 .. c, h.sinks)
    BY <2>2 DEF Injection, IsInjective
  <2>6. Cardinality(1 .. c) = Cardinality(h.sinks)
    BY <2>1, FS_Interval DEF c
  <2>7. sinks \in Surjection(1 .. c, h.sinks)
    BY <2>1, <2>5, <2>6, FS_Injection
  <2> QED
    BY <2>4, <2>7 DEF Surjection
<1>5. /\ NodesText(dag, sinks).work = <<>>
      /\ Listing(h, dag, L, index, NodesText(dag, sinks).nodes)
      /\ \A i \in 1 .. Len(sinks) : sinks[i] \in D
  BY <1>3, <1>4, WalkEnds
<1> HIDE DEF index, L
<1>6. D \subseteq L /\ \A n \in D : Below(h, n) \subseteq D
  BY <1>5 DEF Listing
<1>7. h.sinks \subseteq D
  BY <1>4, <1>5
<1> HIDE DEF D
<1>8. ASSUME L \ D # {} PROVE FALSE
  <2>1. PICK n \in L \ D : Preds(h, FALSE, n) \cap (L \ D) = {}
    <3>1. L \ D \in SUBSET Node /\ Acyclic(h, FALSE)
      BY <1>1 DEF NoCycle
    <3> QED
      BY <1>8, <3>1 DEF Acyclic
  <2>2. n \in Node /\ n \in h.alive /\ n \notin ret
    BY <1>1 DEF L
  <2>3. ASSUME NEW m \in Node, h.uses[n][m] # 0 PROVE FALSE
    <3>1. h.operands[m][n] > 0 /\ h.uses[n][m] > 0
      BY <1>1, <2>2, <2>3 DEF Bag
    <3>2. m \in L /\ m \in Preds(h, FALSE, n)
      BY <1>2, <2>2, <3>1 DEF Preds
    <3>3. m \in D
      BY <2>1, <3>2
    <3>4. n \in Below(h, m)
      BY <2>2, <3>1 DEF Below
    <3> QED
      BY <1>6, <2>1, <3>3, <3>4
  <2>4. n \in h.sinks
    BY <1>1, <2>2, <2>3 DEF IsNone
  <2> QED
    BY <1>7, <2>1, <2>4
<1>9. D = L
  BY <1>6, <1>8
<1> QED
  BY <1>5, <1>9 DEF D, L, index

-----------------------------------------------------------------------------
(* The graph that is loaded                                                *)

LEMMA EmptyGraphInv == GraphInv(EmptyGraph, {}, {})
<1>1. \A n, m \in Node : EmptyGraph.operands[n][m] = 0 /\ EmptyGraph.uses[n][m] = 0
  BY DEF EmptyGraph, NoNodes
<1>2. EmptyGraph.alive = {} /\ EmptyGraph.sources = {} /\ EmptyGraph.sinks = {}
  BY DEF EmptyGraph
<1>3. EmptyGraph.operands \in [Node -> Bag] /\ EmptyGraph.uses \in [Node -> Bag]
  BY BagFacts DEF EmptyGraph
<1>4. Typed(EmptyGraph)
  BY <1>3 DEF Typed, EmptyGraph
<1>5. Mirror(EmptyGraph)
  BY <1>1 DEF Mirror
<1>6. Inside(EmptyGraph)
  BY <1>1, <1>2 DEF Inside
<1>7. RootsExact(EmptyGraph, {}, {})
  BY <1>2 DEF RootsExact
<1>8. HistoryIdle(EmptyGraph, {}, {})
  BY DEF HistoryIdle
<1> QED
  BY <1>4, <1>5, <1>6, <1>7, <1>8 DEF GraphInv

\* No operands at all are added.
LEMMA AddNone ==
  ASSUME NEW h, h.operands \in [Node -> Bag], h.uses \in [Node -> Bag],
         NEW n \in Node, NEW b \in Bag, IsNone(b)
  PROVE  AddOperands(NewNode(h, n), n, b) = NewNode(h, n)
<1> DEFINE f == NewNode(h, n)
<1>1. f.operands \in [Node -> Bag] /\ f.uses \in [Node -> Bag]
  BY BagFacts DEF NewNode
<1>2. f = [alive |-> f.alive, operands |-> f.operands, uses |-> f.uses,
           sources |-> f.sources, sinks |-> f.sinks]
  BY DEF NewNode
<1> HIDE DEF f
<1>3. \A m \in Node : b[m] = 0 /\ \A x \in Node : f.operands[x][m] \in Nat /\ f.uses[x][m] \in Nat
  BY <1>1 DEF IsNone, Bag
<1>4. [f.operands EXCEPT ![n] = [m \in Node |-> @[m] + b[m]]] = f.operands
  <2>1. [m \in Node |-> f.operands[n][m] + b[m]] = f.operands[n]
    BY <1>1, <1>3 DEF Bag
  <2> QED
    BY <1>1, <2>1
<1>5. UsesPlus(f.uses, n, b) = f.uses
  <2>1. \A m \in Node : [f.uses[m] EXCEPT ![n] = @ + b[m]] = f.uses[m]
    <3> TAKE m \in Node
    <3>1. f.uses[m] \in [Node -> Nat] /\ b[m] = 0 /\ f.uses[m][n] \in Nat
      BY <1>1, <1>3 DEF Bag
    <3>2. f.uses[m][n] + b[m] = f.uses[m][n]
      BY <3>1
    <3> QED
      BY <3>1, <3>2
  <2> QED
    BY <1>1, <2>1 DEF UsesPlus
<1>6. SinksPlus(f.sinks, f.uses, b) = f.sinks
  BY <1>3 DEF SinksPlus
<1> QED
  BY <1>2, <1>4, <1>5, <1>6 DEF AddOperands, f

\* Node k of the list, made from the first k of them.
LEMMA NodeLoadedFacts ==
  ASSUME NEW h, NEW k \in Node, GraphInv(h, {}, {}), h.alive = {a \in Node : a < k},
         NEW s \in Seq(Nat), \A j \in 1 .. Len(s) : s[j] < k,
         NEW f, f = AddOperands(NewNode(h, k), k, AsBag(s))
  PROVE  /\ GraphInv(f, {}, {}) /\ f.alive = {a \in Node : a < k + 1}
         /\ f.operands[k] = AsBag(s)
         /\ \A a \in Node : a # k => f.operands[a] = h.operands[a]
<1> DEFINE e == NewNode(h, k)
           b == AsBag(s)
<1>1. MaxNode \in Nat /\ k \in Nat /\ k < MaxNode
  BY DEF Node
<1>2. s \in Seq(Node) /\ Len(s) \in Nat
  <2>1. Len(s) \in Nat /\ \A j \in 1 .. Len(s) : s[j] \in Nat
    BY LenProperties, ElementOfSeq
  <2>2. \A j \in 1 .. Len(s) : s[j] \in Node
    BY <1>1, <2>1 DEF Node
  <2>3. s \in [1 .. Len(s) -> Nat]
    BY LenProperties
  <2>4. s \in [1 .. Len(s) -> Node]
    BY <2>2, <2>3
  <2> QED
    BY <2>1, <2>4, FunctionSeq
<1>3. b \in Bag /\ \A m \in Node : b[m] > 0 => m < k
  <2>1. b \in Bag /\ \A m \in Node : b[m] > 0 <=> \E i \in 1 .. Len(s) : s[i] = m
    BY <1>2, AsBagFacts
  <2> QED
    BY <2>1
<1> HIDE DEF b
<1>4. h.operands \in [Node -> Bag] /\ h.uses \in [Node -> Bag]
  BY DEF GraphInv, Typed
<1>5. GraphInv(e, {}, {})
  BY <1>1, NewNodeInv
<1>6. /\ e.alive = {a \in Node : a < k + 1} /\ k \in e.alive
      /\ e.operands[k] = NoNodes /\ e.operands \in [Node -> Bag]
      /\ \A a \in Node : a # k => e.operands[a] = h.operands[a]
  <2>1. e.alive = h.alive \cup {k} /\ e.operands = [h.operands EXCEPT ![k] = NoNodes]
    BY DEF NewNode
  <2>2. \A a \in Node : a < k + 1 <=> a < k \/ a = k
    BY <1>1 DEF Node
  <2> QED
    BY <1>4, <2>1, <2>2, BagFacts
<1>0. f = AddOperands(e, k, b)
  BY DEF e, b
<1> HIDE DEF e
<1>7. GraphInv(f, {}, {})
  <2>1. CASE IsNone(b)
    <3>1. f = e
      BY <1>0, <1>3, <1>4, <2>1, AddNone DEF e
    <3> QED
      BY <1>5, <3>1
  <2>2. CASE ~IsNone(b)
    <3>1. Elements(b) \subseteq e.alive
      BY <1>1, <1>3, <1>6 DEF Elements, Node
    <3>2. GraphInv(f, {} \ {k}, {} \ Elements(b))
      BY <1>0, <1>3, <1>5, <1>6, <2>2, <3>1, AddOperandsInv
    <3>3. {} \ {k} = {} /\ {} \ Elements(b) = {}
      OBVIOUS
    <3> QED
      BY <3>2, <3>3
  <2> QED
    BY <2>1, <2>2
<1>8. /\ f.alive = e.alive
      /\ f.operands = [e.operands EXCEPT ![k] = [m \in Node |-> @[m] + b[m]]]
  BY <1>0 DEF AddOperands
<1>9. f.operands[k] = b
  <2>1. f.operands[k] = [m \in Node |-> NoNodes[m] + b[m]]
    BY <1>6, <1>8
  <2>2. \A m \in Node : NoNodes[m] + b[m] = b[m]
    BY <1>3, BagFacts DEF Bag
  <2>3. b = [m \in Node |-> b[m]]
    BY <1>3 DEF Bag
  <2> QED
    BY <2>1, <2>2, <2>3
<1>10. \A a \in Node : a # k => f.operands[a] = h.operands[a]
  BY <1>6, <1>8
<1> QED
  BY <1>6, <1>7, <1>8, <1>9, <1>10 DEF e, b

(* A list of texts in which every node comes after its operands is loaded  *)
(* as the graph with these operands, each node with its attributes.        *)
LEMMA LoadedFacts ==
  ASSUME NEW nodes \in Seq(Texts), Len(nodes) <= MaxNode,
         \A i \in 1 .. Len(nodes) : \A j \in 1 .. Len(nodes[i].operands) :
            nodes[i].operands[j] < i - 1
  PROVE  LET l == NodesLoaded(nodes)
         IN  /\ GraphInv(l.g, {}, {}) /\ l.g.alive = {a \in Node : a < Len(nodes)}
             /\ \A a \in Node : a < Len(nodes) =>
                  /\ l.g.operands[a] = AsBag(nodes[a + 1].operands)
                  /\ l.attrs[a + 1] = AttrsLoaded(nodes[a + 1].attributes)
<1> DEFINE k == Len(nodes)
           list(i) == AttrsLoaded(nodes[i].attributes)
           S == {list(i) : i \in 1 .. k}
           Good(q, i) ==
             /\ GraphInv(q[i].g, {}, {}) /\ q[i].g.alive = {a \in Node : a < i}
             /\ q[i].attrs \in Seq(S) /\ Len(q[i].attrs) = i
             /\ \A a \in Node : a < i => /\ q[i].g.operands[a] = AsBag(nodes[a + 1].operands)
                                         /\ q[i].attrs[a + 1] = list(a + 1)
<1>1. MaxNode \in Nat /\ k \in Nat /\ k <= MaxNode
  BY LenProperties
<1>2. \A i \in 1 .. k : nodes[i].operands \in Seq(Nat)
  <2>1. \A i \in 1 .. k : nodes[i] \in Texts
    BY ElementOfSeq
  <2> QED
    BY <2>1 DEF Texts
<1>3. PICK q : /\ q[0] = NothingLoaded
               /\ \A i \in 1 .. k : q[i] = NodeLoaded(q[i - 1], nodes[i])
               /\ NodesLoaded(nodes) = q[k]
  BY <1>1, NodesLoadedSteps
<1>4. Good(q, 0)
  <2>1. q[0].g = EmptyGraph /\ q[0].attrs = <<>>
    BY <1>3 DEF NothingLoaded
  <2>2. \A a \in Node : ~(a < 0)
    BY DEF Node
  <2>3. EmptyGraph.alive = {}
    BY DEF EmptyGraph
  <2>4. <<>> \in Seq(S) /\ Len(<<>>) = 0
    BY EmptySeq
  <2> HIDE DEF S
  <2> QED
    BY <2>1, <2>2, <2>3, <2>4, EmptyGraphInv
<1>5. ASSUME NEW i \in 1 .. k, Good(q, i - 1) PROVE Good(q, i)
  <2> DEFINE n == i - 1
             l == q[n]
             s == nodes[i].operands
             h == l.g
             f == AddOperands(NewNode(h, n), n, AsBag(s))
  <2>1. n \in Node /\ i \in Nat /\ n \in Nat /\ i = n + 1
    BY <1>1 DEF Node
  <2>2. /\ GraphInv(l.g, {}, {}) /\ l.g.alive = {a \in Node : a < n}
        /\ l.attrs \in Seq(S) /\ Len(l.attrs) = n
        /\ \A a \in Node : a < n => /\ l.g.operands[a] = AsBag(nodes[a + 1].operands)
                                    /\ l.attrs[a + 1] = list(a + 1)
    BY <1>5
  <2>3. s \in Seq(Nat) /\ \A j \in 1 .. Len(s) : s[j] < n
    BY <1>2
  <2>4. list(i) \in S
    OBVIOUS
  <2>5. q[i].g = f /\ q[i].attrs = Append(l.attrs, list(i))
    <3>1. q[i] = NodeLoaded(l, nodes[i])
      BY <1>3
    <3> HIDE DEF l
    <3> QED
      BY <2>2, <3>1 DEF NodeLoaded
  <2> HIDE DEF n, l, s, S, list
  <2>6. /\ GraphInv(f, {}, {}) /\ f.alive = {a \in Node : a < n + 1}
        /\ f.operands[n] = AsBag(s)
        /\ \A a \in Node : a # n => f.operands[a] = l.g.operands[a]
    <3>1. GraphInv(h, {}, {}) /\ h.alive = {a \in Node : a < n}
      BY <2>2
    <3> HIDE DEF h
    <3>2. f = AddOperands(NewNode(h, n), n, AsBag(s))
      OBVIOUS
    <3> HIDE DEF f
    <3>3. /\ GraphInv(f, {}, {}) /\ f.alive = {a \in Node : a < n + 1}
          /\ f.operands[n] = AsBag(s)
          /\ \A a \in Node : a # n => f.operands[a] = h.operands[a]
      BY <2>1, <2>3, <3>1, <3>2, NodeLoadedFacts
    <3> QED
      BY <3>3 DEF h
  <2> DEFINE as == Append(l.attrs, list(i))
  <2>7. /\ as \in Seq(S) /\ Len(as) = n + 1
        /\ \A j \in 1 .. n : as[j] = l.attrs[j]
        /\ as[n + 1] = list(i)
    BY <2>2, <2>4, AppendProperties
  <2> HIDE DEF f, as
  <2>8. ASSUME NEW a \in Node, a < i
        PROVE  q[i].g.operands[a] = AsBag(nodes[a + 1].operands) /\ q[i].attrs[a + 1] = list(a + 1)
    <3>1. q[i].g = f /\ q[i].attrs = as
      BY <2>5 DEF as
    <3>2. CASE a = n
      <4>1. a + 1 = i
        BY <2>1, <3>2
      <4> QED
        BY <2>1, <2>6, <2>7, <3>1, <3>2, <4>1 DEF s
    <3>3. CASE a # n
      <4>1. a < n /\ a + 1 \in 1 .. n
        BY <2>1, <2>8, <3>3 DEF Node
      <4> QED
        BY <2>2, <2>6, <2>7, <3>1, <3>3, <4>1
    <3> QED
      BY <3>2, <3>3
  <2> QED
    BY <2>1, <2>5, <2>6, <2>7, <2>8 DEF as
<1> HIDE DEF Good
<1>6. Good(q, k)
  <2> DEFINE Bad == {i \in 0 .. k : ~Good(q, i)}
  <2>1. ASSUME Bad # {} PROVE FALSE
    <3>1. Bad \in SUBSET Nat
      BY <1>1
    <3>2. PICK i \in Bad : \A j \in Bad : i <= j
      BY <2>1, <3>1, LeastNumber
    <3>3. i # 0 /\ i \in 0 .. k
      BY <1>4, <3>2
    <3>4. i \in 1 .. k /\ i - 1 \in 0 .. k /\ ~(i <= i - 1)
      BY <1>1, <3>3
    <3>5. Good(q, i - 1)
      BY <3>2, <3>4
    <3> QED
      BY <1>5, <3>2, <3>4, <3>5
  <2>2. k \in 0 .. k
    BY <1>1
  <2> QED
    BY <2>1, <2>2
<1> QED
  BY <1>3, <1>6 DEF Good

Numbering(index, nodes) ==
  /\ Len(nodes) \in Nat /\ Len(nodes) = Cardinality(DOMAIN index) /\ Len(nodes) <= MaxNode
  /\ \A n \in DOMAIN index : index[n] \in Node /\ index[n] < Len(nodes)
  /\ {a \in Node : a < Len(nodes)} = {index[n] : n \in DOMAIN index}

\* The numbers of the text are those of its nodes.
LEMMA NumberFacts ==
  ASSUME NEW h, NEW dag, NEW L \in SUBSET Node, NEW index, NEW nodes, Listing(h, dag, L, index, nodes)
  PROVE  Numbering(index, nodes)
<1> DEFINE D == DOMAIN index
           k == Len(nodes)
           f == [n \in D |-> index[n] + 1]
<1>1. /\ D \in SUBSET Node /\ nodes \in Seq(Texts)
      /\ \A n \in D : index[n] \in Nat /\ index[n] < k
      /\ \A n, m \in D : index[n] = index[m] => n = m
      /\ \A i \in 1 .. k : \E n \in D : index[n] + 1 = i
  BY DEF Listing
<1>2. k \in Nat /\ MaxNode \in Nat
  BY <1>1, LenProperties
<1>3. IsFiniteSet(D) /\ Cardinality(D) \in Nat /\ Cardinality(D) <= MaxNode
  BY <1>1, NodesFinite
<1> HIDE DEF D, k
<1>4. IsFiniteSet(1 .. k) /\ Cardinality(1 .. k) = k
  BY <1>2, FS_Interval
<1>5. f \in [D -> 1 .. k]
  BY <1>1, <1>2
<1>6. f \in Injection(D, 1 .. k)
  BY <1>1, <1>2, <1>5 DEF Injection, IsInjective
<1>7. f \in Surjection(D, 1 .. k)
  BY <1>1, <1>5 DEF Surjection
<1>8. Cardinality(D) = k
  BY <1>4, <1>6, <1>7, FS_Injection
<1>9. \A n \in D : index[n] \in Node
  BY <1>1, <1>2, <1>3, <1>8 DEF Node
<1>10. ASSUME NEW a \in Node, a < k PROVE \E n \in D : a = index[n]
  <2>1. a \in Nat /\ a + 1 \in 1 .. k
    BY <1>2, <1>10 DEF Node
  <2>2. PICK n \in D : index[n] + 1 = a + 1
    BY <1>1, <2>1
  <2>3. index[n] = a
    BY <1>1, <2>1, <2>2
  <2> QED
    BY <2>3
<1> QED
  BY <1>1, <1>2, <1>3, <1>8, <1>9, <1>10 DEF D, k, Numbering

\* Each node is loaded with its operation and its operands in their order.
LEMMA LoadedOperations ==
  ASSUME NEW nodes \in Seq(Texts), NEW i \in 1 .. Len(nodes)
  PROVE  /\ NodesLoaded(nodes).op[i] = nodes[i].op
         /\ NodesLoaded(nodes).operands[i] = nodes[i].operands
<1> DEFINE k == Len(nodes)
           Ops == {nodes[j].op : j \in 1 .. k}
           Lists2 == {nodes[j].operands : j \in 1 .. k}
           Good(q, n) ==
             /\ q[n].op \in Seq(Ops) /\ Len(q[n].op) = n
             /\ q[n].operands \in Seq(Lists2) /\ Len(q[n].operands) = n
             /\ \A j \in 1 .. n : /\ q[n].op[j] = nodes[j].op
                                  /\ q[n].operands[j] = nodes[j].operands
<1>1. k \in Nat
  BY LenProperties
<1>2. PICK q : /\ q[0] = NothingLoaded
               /\ \A n \in 1 .. k : q[n] = NodeLoaded(q[n - 1], nodes[n])
               /\ NodesLoaded(nodes) = q[k]
  BY <1>1, NodesLoadedSteps
<1>3. Good(q, 0)
  <2>1. q[0].op = <<>> /\ q[0].operands = <<>>
    BY <1>2 DEF NothingLoaded
  <2>2. <<>> \in Seq(Ops) /\ <<>> \in Seq(Lists2) /\ Len(<<>>) = 0
    BY EmptySeq
  <2> HIDE DEF Ops, Lists2
  <2> QED
    BY <2>1, <2>2
<1>4. ASSUME NEW n \in 1 .. k, Good(q, n - 1) PROVE Good(q, n)
  <2> DEFINE l == q[n - 1]
             t == nodes[n]
  <2>1. q[n].op = Append(l.op, t.op) /\ q[n].operands = Append(l.operands, t.operands)
    <3>1. q[n] = NodeLoaded(l, t)
      BY <1>2
    <3> HIDE DEF l, t
    <3> QED
      BY <3>1 DEF NodeLoaded
  <2>2. /\ l.op \in Seq(Ops) /\ Len(l.op) = n - 1 /\ t.op \in Ops
        /\ l.operands \in Seq(Lists2) /\ Len(l.operands) = n - 1 /\ t.operands \in Lists2
        /\ \A j \in 1 .. n - 1 : l.op[j] = nodes[j].op /\ l.operands[j] = nodes[j].operands
    BY <1>4
  <2> HIDE DEF l, Ops, Lists2
  <2>3. /\ Append(l.op, t.op) \in Seq(Ops) /\ Len(Append(l.op, t.op)) = n - 1 + 1
        /\ \A j \in 1 .. n - 1 : Append(l.op, t.op)[j] = l.op[j]
        /\ Append(l.op, t.op)[n - 1 + 1] = t.op
    BY <2>2, AppendProperties
  <2>4. /\ Append(l.operands, t.operands) \in Seq(Lists2)
        /\ Len(Append(l.operands, t.operands)) = n - 1 + 1
        /\ \A j \in 1 .. n - 1 : Append(l.operands, t.operands)[j] = l.operands[j]
        /\ Append(l.operands, t.operands)[n - 1 + 1] = t.operands
    BY <2>2, AppendProperties
  <2>5. n - 1 + 1 = n /\ \A j \in 1 .. n : j \in 1 .. n - 1 \/ j = n
    BY <1>1
  <2> QED
    BY <2>1, <2>2, <2>3, <2>4, <2>5
<1> HIDE DEF Good
<1>5. Good(q, k)
  <2> DEFINE Bad == {n \in 0 .. k : ~Good(q, n)}
  <2>1. ASSUME Bad # {} PROVE FALSE
    <3>1. Bad \in SUBSET Nat
      BY <1>1
    <3>2. PICK n \in Bad : \A j \in Bad : n <= j
      BY <2>1, <3>1, LeastNumber
    <3>3. n # 0 /\ n \in 0 .. k
      BY <1>3, <3>2
    <3>4. n \in 1 .. k /\ n - 1 \in 0 .. k /\ ~(n <= n - 1)
      BY <1>1, <3>3
    <3>5. Good(q, n - 1)
      BY <3>2, <3>4
    <3> QED
      BY <1>4, <3>2, <3>4, <3>5
  <2>2. k \in 0 .. k
    BY <1>1
  <2> QED
    BY <2>1, <2>2
<1> QED
  BY <1>2, <1>5 DEF Good

(* Two graphs whose edges are the same under a numbering of the nodes are  *)
(* the same graph.                                                         *)
LEMMA SameEdges ==
  ASSUME NEW h, NEW det, NEW ret, GraphInv(h, det, ret), Idle(h, ret),
         NEW f, GraphInv(f, {}, {}),
         NEW index, DOMAIN index = h.alive \ ret,
         f.alive = {index[n] : n \in DOMAIN index},
         \A n, m \in DOMAIN index : f.operands[index[n]][index[m]] = h.operands[n][m]
  PROVE  SameGraph(h, f, index)
<1> DEFINE D == DOMAIN index
<1>1. /\ D \in SUBSET Node /\ h.operands \in [Node -> Bag] /\ h.uses \in [Node -> Bag]
      /\ \A n, m \in Node : h.uses[m][n] = h.operands[n][m]
      /\ \A n \in Node : n \in h.sinks <=> n \in D /\ IsNone(h.uses[n])
      /\ h.sinks \subseteq Node
  BY DEF GraphInv, Typed, Mirror, RootsExact
<1>2. /\ f.operands \in [Node -> Bag] /\ f.uses \in [Node -> Bag]
      /\ f.alive \subseteq Node /\ f.sinks \subseteq Node /\ f.sources \subseteq Node
      /\ \A a, b \in Node : f.uses[b][a] = f.operands[a][b]
      /\ \A a, b \in Node : f.operands[a][b] > 0 => a \in f.alive /\ b \in f.alive
      /\ \A a \in Node : a \in f.sinks <=> a \in f.alive /\ IsNone(f.uses[a])
      /\ \A a \in Node : a \in f.sources <=> a \in f.alive /\ IsNone(f.operands[a])
  BY DEF GraphInv, Typed, Mirror, Inside, RootsExact
<1>3. \A n, m \in Node : h.operands[n][m] > 0 => n \in D /\ m \in D
  BY LiveEdges
<1>4. \A n \in D : index[n] \in f.alive /\ index[n] \in Node
  BY <1>2
<1>5. \A n, m \in D : f.operands[index[n]][index[m]] = h.operands[n][m]
  OBVIOUS
<1>6. \A a \in f.alive : \E n \in D : a = index[n]
  OBVIOUS
<1> HIDE DEF D
<1>7. \A n, m \in D : f.uses[index[m]][index[n]] = h.uses[m][n]
  BY <1>1, <1>2, <1>4, <1>5
<1>8. \A n, m \in Node : h.operands[n][m] \in Nat /\ f.operands[n][m] \in Nat
  BY <1>1, <1>2 DEF Bag
<1>9. ASSUME NEW n \in D PROVE IsNone(f.operands[index[n]]) <=> IsNone(h.operands[n])
  <2>1. ASSUME IsNone(f.operands[index[n]]), NEW m \in Node, h.operands[n][m] # 0 PROVE FALSE
    <3>1. m \in D /\ n \in Node
      BY <1>1, <1>3, <1>8, <2>1
    <3>2. f.operands[index[n]][index[m]] = h.operands[n][m] /\ index[m] \in Node
      BY <1>4, <1>5, <3>1
    <3> QED
      BY <2>1, <3>2 DEF IsNone
  <2>2. ASSUME IsNone(h.operands[n]), NEW b \in Node, f.operands[index[n]][b] # 0 PROVE FALSE
    <3>1. b \in f.alive
      BY <1>2, <1>4, <1>8, <2>2
    <3>2. PICK m \in D : b = index[m]
      BY <1>6, <3>1
    <3>3. f.operands[index[n]][index[m]] = h.operands[n][m] /\ m \in Node
      BY <1>1, <1>5
    <3> QED
      BY <2>2, <3>2, <3>3 DEF IsNone
  <2> QED
    BY <2>1, <2>2 DEF IsNone
<1>10. ASSUME NEW n \in D PROVE IsNone(f.uses[index[n]]) <=> IsNone(h.uses[n])
  <2>1. ASSUME IsNone(f.uses[index[n]]), NEW m \in Node, h.uses[n][m] # 0 PROVE FALSE
    <3>1. m \in D /\ n \in Node
      BY <1>1, <1>3, <1>8, <2>1
    <3>2. f.uses[index[n]][index[m]] = h.uses[n][m] /\ index[m] \in Node
      BY <1>4, <1>7, <3>1
    <3> QED
      BY <2>1, <3>2 DEF IsNone
  <2>2. ASSUME IsNone(h.uses[n]), NEW b \in Node, f.uses[index[n]][b] # 0 PROVE FALSE
    <3>1. b \in f.alive
      BY <1>2, <1>4, <1>8, <2>2
    <3>2. PICK m \in D : b = index[m]
      BY <1>6, <3>1
    <3>3. f.uses[index[n]][index[m]] = h.uses[n][m] /\ m \in Node
      BY <1>1, <1>7
    <3> QED
      BY <2>2, <3>2, <3>3 DEF IsNone
  <2> QED
    BY <2>1, <2>2 DEF IsNone
<1>11. f.sinks = {index[n] : n \in h.sinks}
  <2>1. \A a \in f.sinks : \E n \in h.sinks : a = index[n]
    BY <1>1, <1>2, <1>6, <1>10
  <2>2. \A n \in h.sinks : index[n] \in f.sinks
    BY <1>1, <1>2, <1>4, <1>10
  <2> QED
    BY <2>1, <2>2
<1>12. f.sources = {index[n] : n \in {m \in D : IsNone(h.operands[m])}}
  <2>1. \A a \in f.sources : \E n \in D : IsNone(h.operands[n]) /\ a = index[n]
    BY <1>2, <1>6, <1>9
  <2>2. \A n \in D : IsNone(h.operands[n]) => index[n] \in f.sources
    BY <1>2, <1>4, <1>9
  <2> QED
    BY <2>1, <2>2
<1> QED
  BY <1>5, <1>7, <1>11, <1>12 DEF SameGraph, D

(* A graph that is saved and loaded, with what nodesDeserialize asks of    *)
(* the text.                                                               *)
LEMMA SavedAndLoaded ==
  ASSUME NEW h, NEW det, NEW ret, GraphInv(h, det, ret), NoCycle(h), Idle(h, ret),
         NEW dag, Lists(dag, h), \A n \in h.alive : IsValidOp(dag.op[n]),
         NEW sinks \in SetToSeqs(h.sinks)
  PROVE  LET text   == NodesText(dag, sinks)
             index  == text.index
             loaded == NodesLoaded(text.nodes)
         IN  /\ text.work = <<>>
             /\ DOMAIN index = h.alive \ ret
             /\ Len(text.nodes) = Cardinality(DOMAIN index)
             /\ Loadable(text.nodes)
             /\ SameGraph(h, loaded.g, index)
             /\ SameOperations(dag, loaded, index)
             /\ \A n \in DOMAIN index : SameAttrs(n, loaded.attrs[index[n] + 1])
<1> DEFINE text == NodesText(dag, sinks)
           index == text.index
           nodes == text.nodes
           loaded == NodesLoaded(nodes)
           D == DOMAIN index
           k == Len(nodes)
<1>1. text.work = <<>> /\ D = h.alive \ ret /\ Listing(h, dag, h.alive \ ret, index, nodes)
  BY WalkComplete
<1> HIDE DEF text, index, nodes, loaded, k
<1>2. h.operands \in [Node -> Bag] /\ h.alive \ ret \in SUBSET Node
  BY DEF GraphInv, Typed
<1>3. /\ k \in Nat /\ k = Cardinality(D) /\ k <= MaxNode
      /\ \A n \in D : index[n] \in Node /\ index[n] < k
      /\ {a \in Node : a < k} = {index[n] : n \in D}
  <2> DEFINE L == h.alive \ ret
  <2>1. L \in SUBSET Node /\ Listing(h, dag, L, index, nodes)
    BY <1>1, <1>2
  <2> HIDE DEF L, D, k
  <2>2. Numbering(index, nodes)
    BY <2>1, NumberFacts
  <2> QED
    BY <2>2 DEF Numbering, k, D
<1>4. /\ D \in SUBSET Node /\ nodes \in Seq(Texts)
      /\ \A n \in D : index[n] \in Nat
      /\ \A n, m \in D : index[n] = index[m] => n = m
      /\ \A i \in 1 .. k : \E n \in D : index[n] + 1 = i
      /\ \A n \in D : nodes[index[n] + 1] = Message(dag, index, n)
      /\ \A n \in D : \A m \in Below(h, n) : m \in D /\ index[m] < index[n]
  BY <1>1, <1>2 DEF Listing, k
<1> HIDE DEF D
<1>5. ASSUME NEW i \in 1 .. k
      PROVE  \E n \in D : nodes[i] = Message(dag, index, n) /\ index[n] = i - 1 /\ n \in Node
  <2>1. PICK n \in D : index[n] + 1 = i
    BY <1>4
  <2>2. index[n] = i - 1 /\ n \in Node /\ nodes[i] = Message(dag, index, n)
    BY <1>3, <1>4, <2>1
  <2> QED
    BY <2>2
<1>6. ASSUME NEW n \in D
      PROVE  LET ops == Message(dag, index, n).operands
             IN  DOMAIN ops = 1 .. Len(ops) /\ \A j \in 1 .. Len(ops) : ops[j] < index[n]
  <2> DEFINE ops == Message(dag, index, n).operands
  <2>0. IsValidOp(dag.op[n])
    BY <1>1
  <2>1. n \in Node /\ \A m \in Below(h, n) : m \in D /\ index[m] \in Nat
    BY <1>4
  <2>2. DOMAIN ops = 1 .. Len(ops)
        /\ \A i \in 1 .. Len(ops) : \E m \in Below(h, n) : ops[i] = index[m]
    BY <2>0, <2>1, MessageFacts DEF D
  <2> HIDE DEF ops
  <2>3. \A j \in 1 .. Len(ops) : ops[j] < index[n]
    BY <1>4, <2>2
  <2> QED
    BY <2>2, <2>3 DEF ops
<1>7. ASSUME NEW n \in D
      PROVE  /\ Message(dag, index, n).attributes = AttrsText(AttrsOf(n))
             /\ Message(dag, index, n).op = dag.op[n]
             /\ Message(dag, index, n).operands = Numbered(index, dag.operands[n])
  BY DEF Message
<1>8. DOMAIN nodes = 1 .. k
  BY <1>4, LenProperties DEF k
<1>9. ASSUME NEW i \in 1 .. k
      PROVE  /\ IsValidOp(nodes[i].op)
             /\ \A m \in ToSet(nodes[i].operands) : m < i - 1
             /\ \A j \in 1 .. Len(nodes[i].operands) : nodes[i].operands[j] < i - 1
             /\ AttrsLoadable(nodes[i].attributes)
  <2>1. PICK n \in D : nodes[i] = Message(dag, index, n) /\ index[n] = i - 1 /\ n \in Node
    BY <1>5
  <2> DEFINE ops == Message(dag, index, n).operands
  <2>2. DOMAIN ops = 1 .. Len(ops) /\ \A j \in 1 .. Len(ops) : ops[j] < index[n]
    BY <1>6
  <2>3. AttrsLoadable(nodes[i].attributes) /\ IsValidOp(nodes[i].op)
    <3>1. IsValidOp(dag.op[n])
      BY <1>1
    <3> QED
      BY <1>7, <2>1, <3>1, AttrsComeBack
  <2> HIDE DEF ops
  <2>4. \A m \in ToSet(ops) : m < index[n]
    BY <2>2 DEF ToSet
  <2> QED
    BY <2>1, <2>2, <2>3, <2>4 DEF ops
<1>10. /\ GraphInv(loaded.g, {}, {}) /\ loaded.g.alive = {a \in Node : a < k}
       /\ \A a \in Node : a < k =>
            /\ loaded.g.operands[a] = AsBag(nodes[a + 1].operands)
            /\ loaded.attrs[a + 1] = AttrsLoaded(nodes[a + 1].attributes)
  <2>1. Len(nodes) <= MaxNode /\ nodes \in Seq(Texts)
        /\ \A i \in 1 .. Len(nodes) : \A j \in 1 .. Len(nodes[i].operands) :
             nodes[i].operands[j] < i - 1
    BY <1>3, <1>4, <1>9 DEF k
  <2> QED
    BY <2>1, LoadedFacts DEF loaded, k
<1>11. ASSUME NEW n \in D PROVE SameAttrs(n, loaded.attrs[index[n] + 1])
  <2>1. loaded.attrs[index[n] + 1] = AttrsLoaded(nodes[index[n] + 1].attributes)
    BY <1>3, <1>10
  <2>2. nodes[index[n] + 1].attributes = AttrsText(AttrsOf(n)) /\ n \in Node
    BY <1>4, <1>7
  <2> QED
    BY <2>1, <2>2, AttrsComeBack
<1>12. ASSUME NEW n \in D, NEW m \in D
       PROVE  loaded.g.operands[index[n]][index[m]] = h.operands[n][m]
  <2> DEFINE ops == dag.operands[n]
             new == [i \in DOMAIN ops |-> index[ops[i]]]
  <2>1. n \in Node /\ m \in Node /\ index[m] \in Node
    BY <1>3, <1>4
  <2>2. loaded.g.operands[index[n]] = AsBag(Message(dag, index, n).operands)
    BY <1>3, <1>4, <1>10
  <2>3. Message(dag, index, n).operands = new
    BY DEF Message, Numbered
  <2>4. DOMAIN ops = 1 .. Len(ops)
    BY <2>1, OperandsFacts
  <2>5. \A i \in 1 .. Len(ops) : ops[i] \in Below(h, n)
    BY <2>1, OperandsFacts
  <2>6. AsBag(ops)[m] = h.operands[n][m]
    BY <1>2, <2>1 DEF Lists
  <2> HIDE DEF ops
  <2>7. \A i \in DOMAIN ops : ops[i] \in D
    BY <1>4, <2>4, <2>5
  <2>8. AsBag(new)[index[m]] = AsBag(ops)[m]
    <3>1. DOMAIN new = DOMAIN ops /\ \A i \in DOMAIN ops : new[i] = index[m] <=> ops[i] = m
      BY <1>4, <2>7
    <3> HIDE DEF new
    <3> QED
      BY <2>1, <3>1, AsBagNumbered
  <2> QED
    BY <2>1, <2>2, <2>3, <2>6, <2>8
<1>13. SameGraph(h, loaded.g, index)
  <2>1. loaded.g.alive = {index[n] : n \in D}
    BY <1>3, <1>10
  <2> QED
    BY <1>1, <1>10, <1>12, <2>1, SameEdges DEF D
<1>14. SameOperations(dag, loaded, index)
  <2> SUFFICES ASSUME NEW n \in D
               PROVE  /\ loaded.op[index[n] + 1] = dag.op[n]
                      /\ loaded.operands[index[n] + 1] = Numbered(index, dag.operands[n])
    BY DEF SameOperations, D
  <2> DEFINE i == index[n] + 1
  <2>1. i \in 1 .. k
    BY <1>3, <1>4
  <2>2. nodes[i].op = dag.op[n] /\ nodes[i].operands = Numbered(index, dag.operands[n])
    BY <1>4, <1>7
  <2>3. loaded.op[i] = nodes[i].op /\ loaded.operands[i] = nodes[i].operands
    BY <1>4, <2>1, LoadedOperations DEF loaded, k
  <2> QED
    BY <2>2, <2>3
<1>15. Loadable(nodes)
  BY <1>8, <1>9 DEF Loadable
<1> QED
  BY <1>1, <1>3, <1>11, <1>13, <1>14, <1>15 DEF text, index, nodes, loaded, D, k

\* A vector has finitely many elements, and an order of them is a sequence.
LEMMA OrdersFacts ==
  ASSUME NEW b \in Bag, NEW s \in Orders(b)
  PROVE  s \in Seq(Node) /\ AsBag(s) = b
<1> DEFINE P(m) == {m} \X (1 .. b[m])
           f == [m \in Node |-> P(m)]
           S == {P(m) : m \in Node}
<1>1. IsFiniteSet(S)
  <2>1. f \in Surjection(Node, S)
    BY DEF Surjection
  <2>2. IsFiniteSet(Node)
    BY NodesFinite
  <2> HIDE DEF f, S
  <2> QED
    BY <2>1, <2>2, FS_Surjection
<1>2. \A m \in Node : IsFiniteSet(P(m))
  <2> TAKE m \in Node
  <2>1. IsFiniteSet({m})
    BY FS_Singleton
  <2>2. b[m] \in Nat
    BY DEF Bag
  <2>3. IsFiniteSet(1 .. b[m])
    BY <2>2, FS_Interval
  <2> QED
    BY <2>1, <2>3, FS_Product
<1>3. IsFiniteSet(UNION S)
  BY <1>1, <1>2, FS_UNION
<1>4. Size(b) \in Nat
  BY <1>3, FS_CardinalityType DEF Size
<1>5. s \in [1 .. Size(b) -> Elements(b)] /\ AsBag(s) = b /\ Elements(b) \subseteq Node
  BY DEF Orders, Elements
<1>6. s \in [1 .. Size(b) -> Node]
  BY <1>5
<1> QED
  BY <1>4, <1>5, <1>6, FunctionSeq

KindsLoaded(index, nodes, op) ==
  \A n \in DOMAIN index : /\ index[n] \in Nat /\ index[n] < Len(nodes)
                         /\ op[index[n] + 1] = kind[n]
NamesOf(names, index, k) ==
  /\ \A e \in names : e[2] \in DOMAIN index /\ kind[e[2]] = k
  /\ \A e, f \in names : e[1] = f[1] => e = f

(* The entries of the tables of names, under the numbers of the text.      *)
LEMMA NamesLoaded ==
  ASSUME NEW index, NEW nodes, NEW op,
         KindsLoaded(index, nodes, op),
         NEW names, NEW k, NamesOf(names, index, k)
  PROVE  /\ NamesLoadable(NamesText(names, index), nodes)
         /\ \A e \in NamesText(names, index) : op[e[2] + 1] = k
<1>1. ASSUME NEW t \in NamesText(names, index)
      PROVE  \E e \in names : t[1] = e[1] /\ t[2] = index[e[2]] /\ t = <<e[1], index[e[2]]>>
  BY DEF NamesText
<1>2. ASSUME NEW t \in NamesText(names, index) PROVE t[2] < Len(nodes) /\ op[t[2] + 1] = k
  BY <1>1 DEF KindsLoaded, NamesOf
<1>3. ASSUME NEW t \in NamesText(names, index), NEW u \in NamesText(names, index), t[1] = u[1]
      PROVE  t = u
  BY <1>1, <1>3 DEF NamesOf
<1> QED
  BY <1>2, <1>3 DEF NamesLoadable

(* Whatever calls made the graph of a Dag, saving it and loading it again  *)
(* gives the same graph with the same operations, operands in their order, *)
(* attributes and names: nodesSerialize ends, reaches every node that was  *)
(* not cleaned and lists it after its operands, and nodesDeserialize never *)
(* throws on what it wrote.                                                *)
THEOREM TextRoundTripHolds == Spec => []TextRoundTrip
<1>1. ASSUME IInv, Savable, Named PROVE TextRoundTrip
  <2> SUFFICES ASSUME NEW v \in OperandLists, NEW sinks \in SetToSeqs(g.sinks)
               PROVE  LET dag    == [op |-> kind, operands |-> v]
                          text   == NodesText(dag, sinks)
                          index  == text.index
                          loaded == NodesLoaded(text.nodes)
                      IN  /\ text.work = <<>>
                          /\ DOMAIN index = g.alive \ retired
                          /\ Len(text.nodes) = Cardinality(DOMAIN index)
                          /\ Loadable(text.nodes)
                          /\ SameGraph(g, loaded.g, index)
                          /\ SameOperations(dag, loaded, index)
                          /\ \A n \in DOMAIN index : SameAttrs(n, loaded.attrs[index[n] + 1])
                          /\ \A e \in inputs \cup outputs : e[2] \in DOMAIN index \cup retired
                          /\ (\A e \in inputs \cup outputs : e[2] \notin retired)
                               => NamesReturn(loaded, index, text.nodes)
    BY DEF TextRoundTrip
  <2> DEFINE dag == [op |-> kind, operands |-> v]
             text == NodesText(dag, sinks)
             index == text.index
             loaded == NodesLoaded(text.nodes)
  <2>1. GraphInv(g, detached, retired) /\ NoCycle(g) /\ Idle(g, retired)
    BY <1>1 DEF IInv, Savable
  <2>2. \A e \in inputs \cup outputs : e[2] \in g.alive
    BY <1>1 DEF Savable, NamesAlive
  <2>3. Lists(dag, g)
    <3> SUFFICES ASSUME NEW n \in Node
                 PROVE  v[n] \in Seq(Node) /\ AsBag(v[n]) = g.operands[n]
      BY DEF Lists
    <3>1. g.operands[n] \in Bag
      BY <2>1 DEF GraphInv, Typed
    <3>2. v[n] \in Orders(g.operands[n])
      BY DEF OperandLists
    <3> QED
      BY <3>1, <3>2, OrdersFacts
  <2>4. \A n \in g.alive : IsValidOp(dag.op[n])
    BY <1>1 DEF Named
  <2>5. dag.op = kind
    OBVIOUS
  <2> HIDE DEF dag, text, index, loaded
  <2>6. /\ text.work = <<>>
        /\ DOMAIN index = g.alive \ retired
        /\ Len(text.nodes) = Cardinality(DOMAIN index)
        /\ Loadable(text.nodes)
        /\ SameGraph(g, loaded.g, index)
        /\ SameOperations(dag, loaded, index)
        /\ \A n \in DOMAIN index : SameAttrs(n, loaded.attrs[index[n] + 1])
    BY <2>1, <2>3, <2>4, SavedAndLoaded DEF text, index, loaded
  <2>7. ASSUME \A e \in inputs \cup outputs : e[2] \notin retired
        PROVE  NamesReturn(loaded, index, text.nodes)
    <3>1. Listing(g, dag, g.alive \ retired, index, text.nodes)
      BY <2>1, <2>3, <2>4, WalkComplete DEF text, index
    <3>2. KindsLoaded(index, text.nodes, loaded.op)
      BY <2>5, <2>6, <3>1 DEF Listing, SameOperations, KindsLoaded
    <3>3. \A e \in inputs \cup outputs : e[2] \in DOMAIN index
      BY <2>2, <2>6, <2>7
    <3>4. NamesOf(inputs, index, "Input") /\ NamesOf(outputs, index, "Output")
      BY <1>1, <3>3 DEF Named, NamesOf
    <3>5. /\ NamesLoadable(NamesText(inputs, index), text.nodes)
          /\ \A e \in NamesText(inputs, index) : loaded.op[e[2] + 1] = "Input"
      BY <3>2, <3>4, NamesLoaded
    <3>6. /\ NamesLoadable(NamesText(outputs, index), text.nodes)
          /\ \A e \in NamesText(outputs, index) : loaded.op[e[2] + 1] = "Output"
      BY <3>2, <3>4, NamesLoaded
    <3> QED
      BY <3>5, <3>6 DEF NamesReturn
  <2>8. \A e \in inputs \cup outputs : e[2] \in DOMAIN index \cup retired
    BY <2>2, <2>6
  <2> QED
    BY <2>6, <2>7, <2>8 DEF dag, text, index, loaded
<1> QED
  BY <1>1, IInvHolds, SavableHolds, NamedHolds, PTL
=============================================================================
