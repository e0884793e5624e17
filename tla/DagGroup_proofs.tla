--------------------------- MODULE DagGroup_proofs ---------------------------
(***************************************************************************)
(* The indices of a group's Dags are disjoint, for every number of         *)
(* children and of nodes.  The induction needs that the counters of the    *)
(* members are level, that a counter is above the indices given, and that  *)
(* m_min_node_index is below them: it is all that addDag looks at.         *)
(***************************************************************************)
EXTENDS DagGroup, TLAPS

Level == \A d \in members : next[d] = next[Group]
Below == \A d \in Dags : \A i \in nodes[d] : i < next[d]
LowBound == \A d \in Dags : \A i \in nodes[d] : low[d] <= i

IInv == TypeOK /\ Level /\ Below /\ LowBound /\ IndicesDisjoint

-----------------------------------------------------------------------------
\* updateGroupIndex raises everyone to the largest counter.
LEMMA LargestIs ==
  ASSUME NEW S \in SUBSET Nat, NEW m \in S, \A y \in S : y <= m
  PROVE  Largest(S) = m
<1>1. PICK x \in S : \A y \in S : y <= x
  OBVIOUS
<1>2. \A x1, x2 \in S : (\A y \in S : y <= x1) /\ (\A y \in S : y <= x2) => x1 = x2
  OBVIOUS
<1>3. Largest(S) \in S /\ \A y \in S : y <= Largest(S)
  BY <1>1 DEF Largest
<1> QED
  BY <1>2, <1>3

LEMMA LevelledIs ==
  ASSUME NEW counters \in [Dags -> Nat], NEW in \in SUBSET Child,
         NEW m \in in \cup {Group},
         \A d \in in \cup {Group} : counters[d] <= counters[m]
  PROVE  Levelled(counters, in) =
           [d \in Dags |-> IF d \in in \cup {Group} THEN counters[m] ELSE counters[d]]
<1> DEFINE S == {counters[d] : d \in in \cup {Group}}
<1>1. S \in SUBSET Nat
  BY DEF Dags
<1>2. counters[m] \in S /\ \A y \in S : y <= counters[m]
  OBVIOUS
<1>3. Largest(S) = counters[m]
  BY <1>1, <1>2, LargestIs
<1> QED
  BY <1>3 DEF Levelled

-----------------------------------------------------------------------------
\* What the three actions that level the counters leave behind.
LEMMA AddDagLevels ==
  ASSUME IInv, NEW c \in Child, AddDag(c)
  PROVE  next' = [d \in Dags |-> IF d \in members' \cup {Group} THEN next[c] ELSE next[d]]
         /\ next[c] >= next[Group]
<1> USE BoundAssumption, GroupAssumption
<1>1. next \in [Dags -> Nat] /\ members' \in SUBSET Child
  BY DEF IInv, TypeOK, AddDag
<1>2. PICK i \in nodes[c] : TRUE
  BY DEF AddDag
<1>3. i \in Nat /\ low[c] \in Nat /\ next[c] \in Nat /\ next[Group] \in Nat
  BY <1>2 DEF IInv, TypeOK, Dags, Unused
<1>4. low[c] <= i /\ i < next[c]
  BY <1>2 DEF IInv, LowBound, Below, Dags
<1>5. next[c] >= next[Group]
  BY <1>3, <1>4 DEF AddDag
<1>6. c \in members' \cup {Group}
  BY DEF AddDag
<1>7. \A d \in members' \cup {Group} : next[d] <= next[c]
  BY <1>3, <1>5 DEF AddDag, IInv, Level
<1>8. next' = Levelled(next, members')
  BY DEF AddDag
<1> QED
  BY <1>1, <1>5, <1>6, <1>7, <1>8, LevelledIs

LEMMA GrownLevels ==
  ASSUME IInv, NEW e \in Grouped, NEW k \in Nat
  PROVE  Levelled([next EXCEPT ![e] = @ + k], members) =
           [d \in Dags |-> IF d \in Grouped THEN next[Group] + k ELSE next[d]]
<1> USE BoundAssumption, GroupAssumption
<1> DEFINE grown == [next EXCEPT ![e] = @ + k]
<1>1. e \in Dags /\ Grouped \subseteq Dags /\ members \in SUBSET Child
  BY DEF IInv, TypeOK, Grouped, Dags
<1>2. next \in [Dags -> Nat]
  BY DEF IInv, TypeOK
<1>3. \A d \in Grouped : next[d] = next[Group]
  BY DEF IInv, Level, Grouped
<1>4. grown \in [Dags -> Nat] /\ grown[e] = next[Group] + k
  BY <1>1, <1>2, <1>3
<1>5. \A d \in Grouped : grown[d] <= grown[e]
  BY <1>1, <1>2, <1>3, <1>4
<1>6. Levelled(grown, members) =
        [d \in Dags |-> IF d \in Grouped THEN grown[e] ELSE grown[d]]
  <2> HIDE DEF grown
  <2>1. e \in members \cup {Group} /\ members \in SUBSET Child
    BY <1>1 DEF Grouped
  <2>2. \A d \in members \cup {Group} : grown[d] <= grown[e]
    BY <1>5 DEF Grouped
  <2>3. Levelled(grown, members) =
          [d \in Dags |-> IF d \in members \cup {Group} THEN grown[e] ELSE grown[d]]
    BY <1>4, <2>1, <2>2, LevelledIs
  <2> QED
    BY <2>3 DEF Grouped
<1>7. \A d \in Dags \ Grouped : grown[d] = next[d]
  BY <1>2
<1> QED
  BY <1>4, <1>6, <1>7

LEMMA LevelStays ==
  ASSUME IInv
  PROVE  Levelled(next, members) = next
<1> USE BoundAssumption, GroupAssumption
<1>1. next \in [Dags -> Nat] /\ members \in SUBSET Child
  BY DEF IInv, TypeOK
<1>2. \A d \in members \cup {Group} : next[d] = next[Group]
  BY DEF IInv, Level
<1>3. next[Group] \in Nat
  BY <1>1 DEF Dags
<1>4. Levelled(next, members) =
        [d \in Dags |-> IF d \in members \cup {Group} THEN next[Group] ELSE next[d]]
  BY <1>1, <1>2, <1>3, LevelledIs
<1> QED
  BY <1>1, <1>2, <1>4

-----------------------------------------------------------------------------
(* A Dag that is given the next k indices of the group, after which every  *)
(* member continues behind them: DagGroup::makeNode, and the compilation   *)
(* of a child.                                                             *)
LEMMA GrowthKeepsInv ==
  ASSUME IInv, NEW e \in Grouped, NEW k \in Nat,
         next[Group] + k <= MaxIndex,
         low' = [low EXCEPT ![e] = IF k = 0 THEN @ ELSE Lesser(@, next[Group])],
         nodes' = [nodes EXCEPT ![e] = @ \cup (next[Group] .. (next[Group] + k - 1))],
         next' = [d \in Dags |-> IF d \in Grouped THEN next[Group] + k ELSE next[d]],
         UNCHANGED <<members, scale>>
  PROVE  IInv'
<1> USE BoundAssumption, GroupAssumption
<1>1. e \in Dags /\ Group \in Dags /\ Grouped \subseteq Dags
  BY DEF IInv, TypeOK, Grouped, Dags
<1>2. next[Group] \in Nat /\ low[e] \in Nat /\ low[e] <= MaxIndex
  BY <1>1 DEF IInv, TypeOK, Unused
<1>3. TypeOK'
  <2>1. next' \in [Dags -> 0 .. MaxIndex]
    BY <1>1, <1>2 DEF IInv, TypeOK
  <2>2. low' \in [Dags -> 0 .. Unused]
    BY <1>1, <1>2 DEF IInv, TypeOK, Lesser, Unused
  <2>3. (next[Group] .. (next[Group] + k - 1)) \subseteq 0 .. (MaxIndex - 1)
    BY <1>2
  <2>4. nodes' \in [Dags -> SUBSET (0 .. (MaxIndex - 1))]
    BY <1>1, <2>3 DEF IInv, TypeOK
  <2> QED
    BY <2>1, <2>2, <2>4 DEF IInv, TypeOK
<1>4. Level'
  BY <1>1 DEF Level, Grouped, IInv, TypeOK
<1>5. Grouped' = Grouped
  BY DEF Grouped
<1>6. \A d \in Grouped : \A i \in nodes[d] : i \in Nat /\ i < next[Group]
  BY <1>1 DEF IInv, TypeOK, Level, Below, Grouped
<1>7. Below'
  <2> SUFFICES ASSUME NEW d \in Dags, NEW i \in nodes'[d]
               PROVE  i < next'[d]
    BY DEF Below
  <2>1. CASE d = e
    BY <1>1, <1>2, <1>6, <2>1 DEF IInv, TypeOK
  <2>2. CASE d \in Grouped /\ d # e
    BY <1>1, <1>2, <1>6, <2>2 DEF IInv, TypeOK
  <2>3. CASE d \notin Grouped
    BY <2>3 DEF IInv, TypeOK, Below
  <2> QED
    BY <2>1, <2>2, <2>3
<1>8. LowBound'
  <2> SUFFICES ASSUME NEW d \in Dags, NEW i \in nodes'[d]
               PROVE  low'[d] <= i
    BY DEF LowBound
  <2>1. CASE d # e
    BY <1>1, <2>1 DEF IInv, TypeOK, LowBound
  <2>2. CASE d = e /\ i \in nodes[e]
    <3>1. low[e] <= i /\ i < next[Group] /\ i \in Nat
      BY <1>1, <1>6, <2>2 DEF IInv, LowBound
    <3> QED
      BY <1>1, <1>2, <2>2, <3>1 DEF IInv, TypeOK, Lesser
  <2>3. CASE d = e /\ i \in next[Group] .. (next[Group] + k - 1)
    BY <1>1, <1>2, <2>3 DEF IInv, TypeOK, Lesser
  <2>4. d = e => i \in nodes[e] \/ i \in next[Group] .. (next[Group] + k - 1)
    BY <1>1 DEF IInv, TypeOK
  <2> QED
    BY <2>1, <2>2, <2>3, <2>4
<1>9. IndicesDisjoint'
  <2>1. \A d \in Grouped : d # e => nodes'[d] = nodes[d]
    BY <1>1 DEF IInv, TypeOK
  <2>2. nodes'[e] = nodes[e] \cup (next[Group] .. (next[Group] + k - 1))
    BY <1>1 DEF IInv, TypeOK
  <2>3. \A d \in Grouped : nodes[d] \cap (next[Group] .. (next[Group] + k - 1)) = {}
    BY <1>2, <1>6
  <2>4. \A d, f \in Grouped : d # f => nodes[d] \cap nodes[f] = {}
    BY DEF IInv, IndicesDisjoint
  <2>5. \A d, f \in Grouped : d # f => nodes'[d] \cap nodes'[f] = {}
    BY <2>1, <2>2, <2>3, <2>4
  <2> QED
    BY <1>5, <2>5 DEF IndicesDisjoint
<1> QED
  BY <1>3, <1>4, <1>7, <1>8, <1>9 DEF IInv

-----------------------------------------------------------------------------
LEMMA InitInv == Init => IInv
<1> SUFFICES ASSUME Init PROVE IInv
  OBVIOUS
<1> USE BoundAssumption, GroupAssumption, ScaleAssumption
<1>1. TypeOK
  BY DEF Init, TypeOK, Unused
<1>2. Level /\ Below /\ LowBound
  BY DEF Init, Level, Below, LowBound, Dags
<1>3. IndicesDisjoint
  BY DEF Init, IndicesDisjoint, Grouped, Dags
<1> QED
  BY <1>1, <1>2, <1>3 DEF IInv

LEMMA SetNextKeepsInv ==
  ASSUME IInv, NEW c \in Child, SetNextNodeIndex(c)
  PROVE  IInv'
<1> USE BoundAssumption, GroupAssumption
<1>1. c \in Dags /\ Group \in Dags /\ c # Group /\ c \notin members
  BY DEF SetNextNodeIndex, Dags
<1>2. TypeOK'
  BY <1>1 DEF SetNextNodeIndex, IInv, TypeOK
<1>3. Level'
  BY <1>1 DEF SetNextNodeIndex, IInv, TypeOK, Level, Dags
<1>4. Below'
  BY <1>1 DEF SetNextNodeIndex, IInv, TypeOK, Below
<1>5. LowBound' /\ IndicesDisjoint'
  BY DEF SetNextNodeIndex, IInv, LowBound, IndicesDisjoint, Grouped
<1> QED
  BY <1>2, <1>3, <1>4, <1>5 DEF IInv

\* A Dag that is not in the group grows on its own.
LEMMA MakeNodeKeepsInv ==
  ASSUME IInv, NEW c \in Child, MakeNode(c)
  PROVE  IInv'
<1> USE BoundAssumption, GroupAssumption
<1>1. c \in Dags /\ Group \in Dags /\ c # Group /\ c \notin members
  BY DEF MakeNode, Dags
<1>2. next[c] \in Nat /\ low[c] \in Nat /\ next[c] + 1 <= MaxIndex
  BY <1>1 DEF MakeNode, Allocate, IInv, TypeOK, Unused
<1>3. /\ next' = [next EXCEPT ![c] = @ + 1]
      /\ low' = [low EXCEPT ![c] = Lesser(@, next[c])]
      /\ nodes' = [nodes EXCEPT ![c] = @ \cup {next[c]}]
      /\ members' = members /\ scale' = scale
  <2>1. next[c] .. (next[c] + 1 - 1) = {next[c]}
    BY <1>2
  <2>2. nodes' = [nodes EXCEPT ![c] = @ \cup (next[c] .. (next[c] + 1 - 1))]
    BY DEF MakeNode, Allocate
  <2>3. low' = [low EXCEPT ![c] = IF 1 = 0 THEN @ ELSE Lesser(@, next[c])]
    BY DEF MakeNode, Allocate
  <2>4. next' = [next EXCEPT ![c] = @ + 1] /\ members' = members /\ scale' = scale
    BY DEF MakeNode, Advanced
  <2>5. low' = [low EXCEPT ![c] = Lesser(@, next[c])]
    <3>1. (IF 1 = 0 THEN low[c] ELSE Lesser(low[c], next[c])) = Lesser(low[c], next[c])
      OBVIOUS
    <3> QED
      BY <2>3, <3>1, Zenon
  <2>6. nodes' = [nodes EXCEPT ![c] = @ \cup {next[c]}]
    BY <2>1, <2>2, Zenon
  <2> QED
    BY <2>4, <2>5, <2>6
<1>4. TypeOK'
  <2>1. next' \in [Dags -> 0 .. MaxIndex]
    BY <1>1, <1>2, <1>3 DEF IInv, TypeOK
  <2>2. low' \in [Dags -> 0 .. Unused]
    BY <1>1, <1>2, <1>3 DEF IInv, TypeOK, Lesser, Unused
  <2>3. nodes' \in [Dags -> SUBSET (0 .. (MaxIndex - 1))]
    BY <1>1, <1>2, <1>3 DEF IInv, TypeOK
  <2> QED
    BY <1>3, <2>1, <2>2, <2>3 DEF IInv, TypeOK
<1>5. Level'
  BY <1>1, <1>3 DEF IInv, TypeOK, Level, Dags
<1>6. Below'
  BY <1>1, <1>2, <1>3 DEF IInv, TypeOK, Below
<1>7. LowBound'
  BY <1>1, <1>2, <1>3 DEF IInv, TypeOK, LowBound, Below, Lesser
<1>8. IndicesDisjoint'
  BY <1>1, <1>3 DEF IInv, TypeOK, IndicesDisjoint, Grouped
<1> QED
  BY <1>4, <1>5, <1>6, <1>7, <1>8 DEF IInv

LEMMA AddDagKeepsInv ==
  ASSUME IInv, NEW c \in Child, AddDag(c)
  PROVE  IInv'
<1> USE BoundAssumption, GroupAssumption, ScaleAssumption
<1>1. /\ c \in Dags /\ Group \in Dags /\ c \notin members /\ c # Group
      /\ members' = members \cup {c} /\ members \subseteq Child
  BY DEF AddDag, Dags, IInv, TypeOK
<1>2. /\ next' = [d \in Dags |-> IF d \in members' \cup {Group} THEN next[c] ELSE next[d]]
      /\ next[c] >= next[Group]
  BY AddDagLevels
<1>3. low' = low /\ nodes' = nodes
  BY DEF AddDag
<1>4. TypeOK'
  <2>1. next' \in [Dags -> 0 .. MaxIndex]
    BY <1>1, <1>2 DEF IInv, TypeOK
  <2>2. scale' \in [Dags -> Scale]
    BY <1>1 DEF AddDag, IInv, TypeOK
  <2> QED
    BY <1>1, <1>3, <2>1, <2>2 DEF IInv, TypeOK
<1>5. Level'
  BY <1>1, <1>2 DEF Level, Dags
<1>6. \A d \in Grouped : \A i \in nodes[d] : i \in Nat /\ i < next[Group]
  BY <1>1 DEF IInv, TypeOK, Level, Below, Grouped, Dags
<1>7. next[c] \in Nat /\ next[Group] \in Nat /\ low[c] \in Nat
  BY <1>1 DEF IInv, TypeOK, Unused
<1>8. Below'
  <2> SUFFICES ASSUME NEW d \in Dags, NEW i \in nodes[d]
               PROVE  i < next'[d]
    BY <1>3 DEF Below
  <2>1. CASE d \in Grouped
    BY <1>1, <1>2, <1>6, <1>7, <2>1 DEF Grouped
  <2>2. CASE d \notin Grouped
    BY <1>1, <1>2, <2>2 DEF Grouped, IInv, Below
  <2> QED
    BY <2>1, <2>2
<1>9. LowBound'
  BY <1>3 DEF IInv, LowBound
<1>10. IndicesDisjoint'
  <2>1. \A i \in nodes[c] : i \in Nat /\ i >= next[Group]
    BY <1>1, <1>7 DEF AddDag, IInv, TypeOK, LowBound
  <2>2. \A d \in Grouped : nodes[c] \cap nodes[d] = {}
    BY <1>6, <1>7, <2>1
  <2>3. \A d, f \in Grouped : d # f => nodes[d] \cap nodes[f] = {}
    BY DEF IInv, IndicesDisjoint
  <2>4. Grouped' = Grouped \cup {c}
    BY <1>1 DEF Grouped
  <2> QED
    BY <1>3, <2>2, <2>3, <2>4 DEF IndicesDisjoint
<1> QED
  BY <1>4, <1>5, <1>8, <1>9, <1>10 DEF IInv

LEMMA GroupMakeNodeKeepsInv ==
  ASSUME IInv, NEW d \in Dags, GroupMakeNode(d)
  PROVE  IInv'
<1> USE BoundAssumption, GroupAssumption
<1>1. d \in Grouped /\ next[d] = next[Group]
  BY DEF GroupMakeNode, IInv, Level, Grouped
<1>2. next' = [e \in Dags |-> IF e \in Grouped THEN next[Group] + 1 ELSE next[e]]
  BY <1>1, GrownLevels DEF GroupMakeNode, Advanced
<1>3. /\ next[Group] + 1 <= MaxIndex
      /\ low' = [low EXCEPT ![d] = IF 1 = 0 THEN @ ELSE Lesser(@, next[Group])]
      /\ nodes' = [nodes EXCEPT ![d] = @ \cup (next[Group] .. (next[Group] + 1 - 1))]
      /\ UNCHANGED <<members, scale>>
  BY <1>1 DEF GroupMakeNode, Allocate
<1> QED
  BY <1>1, <1>2, <1>3, GrowthKeepsInv

LEMMA CompileKeepsInv ==
  ASSUME IInv, NEW c \in Child, NEW k \in 0 .. MaxGrow, CompileChild(c, k)
  PROVE  IInv'
<1> USE BoundAssumption, GroupAssumption
<1>1. c \in Grouped /\ next[c] = next[Group] /\ k \in Nat
  BY DEF CompileChild, IInv, Level, Grouped
<1>2. Levelled(next, members) = next
  BY LevelStays
<1>3. next' = Levelled([next EXCEPT ![c] = @ + k], members)
  BY <1>2 DEF CompileChild
<1>4. next' = [e \in Dags |-> IF e \in Grouped THEN next[Group] + k ELSE next[e]]
  BY <1>1, <1>3, GrownLevels
<1>5. /\ next[Group] + k <= MaxIndex
      /\ low' = [low EXCEPT ![c] = IF k = 0 THEN @ ELSE Lesser(@, next[Group])]
      /\ nodes' = [nodes EXCEPT ![c] = @ \cup (next[Group] .. (next[Group] + k - 1))]
      /\ UNCHANGED <<members, scale>>
  BY <1>1, <1>2 DEF CompileChild
<1> QED
  BY <1>1, <1>4, <1>5, GrowthKeepsInv

LEMMA SetScaleKeepsInv ==
  ASSUME IInv, NEW d \in Dags, NEW s \in Scale, SetScale(d, s)
  PROVE  IInv'
<1>1. scale' \in [Dags -> Scale]
  BY DEF SetScale, IInv, TypeOK
<1>2. members' = members /\ next' = next /\ low' = low /\ nodes' = nodes
  BY DEF SetScale
<1> QED
  BY <1>1, <1>2 DEF IInv, TypeOK, Level, Below, LowBound, IndicesDisjoint, Grouped

LEMMA StepInv == IInv /\ [Next]_vars => IInv'
<1> SUFFICES ASSUME IInv, [Next]_vars PROVE IInv'
  OBVIOUS
<1>1. ASSUME NEW c \in Child, SetNextNodeIndex(c) PROVE IInv'
  BY <1>1, SetNextKeepsInv
<1>2. ASSUME NEW c \in Child, MakeNode(c) PROVE IInv'
  BY <1>2, MakeNodeKeepsInv
<1>3. ASSUME NEW c \in Child, AddDag(c) PROVE IInv'
  BY <1>3, AddDagKeepsInv
<1>4. ASSUME NEW c \in Child, NEW k \in 0 .. MaxGrow, CompileChild(c, k) PROVE IInv'
  BY <1>4, CompileKeepsInv
<1>5. ASSUME NEW d \in Dags, NEW s \in Scale, SetScale(d, s) PROVE IInv'
  BY <1>5, SetScaleKeepsInv
<1>6. ASSUME NEW d \in Dags, GroupMakeNode(d) PROVE IInv'
  BY <1>6, GroupMakeNodeKeepsInv
<1>7. CASE UNCHANGED vars
  BY <1>7 DEF vars, IInv, TypeOK, Level, Below, LowBound, IndicesDisjoint, Grouped
<1> QED
  BY <1>1, <1>2, <1>3, <1>4, <1>5, <1>6, <1>7 DEF Next

-----------------------------------------------------------------------------
(* The inductive invariant holds: it is what addDag's one comparison with  *)
(* m_min_node_index relies on.                                             *)
THEOREM InvHolds == Spec => []IInv
  BY InitInv, StepInv, PTL DEF Spec

(* Counters and indices keep their type: no counter passes the bound by    *)
(* being levelled up to another one.                                       *)
THEOREM TypeCorrect == Spec => []TypeOK
<1>1. IInv => TypeOK
  BY DEF IInv
<1> QED
  BY <1>1, InvHolds, PTL

(* No two Dags of a group own the same index, whatever the number of       *)
(* children and however they are built, added and compiled.                *)
THEOREM DisjointHolds == Spec => []IndicesDisjoint
<1>1. IInv => IndicesDisjoint
  BY DEF IInv
<1> QED
  BY <1>1, InvHolds, PTL

(* Every NodeMap of the group, and of each of its Dags, has a place for    *)
(* every node: the at() of a traversal of the group does not throw.        *)
THEOREM CoverHolds == Spec => []MapsCoverNodes
<1>1. IInv => MapsCoverNodes
  BY DEF IInv, Level, Below, MapsCoverNodes, Grouped, Dags, TypeOK
<1> QED
  BY <1>1, InvHolds, PTL

(* A step of the protocol takes back neither a counter nor an index of a   *)
(* member: the counters are level, so that levelling only raises them.     *)
LEMMA StepRaises ==
  ASSUME IInv, [Next]_vars
  PROVE  \A d \in Grouped : next'[d] >= next[d] /\ nodes[d] \subseteq nodes'[d]
<1> USE BoundAssumption, GroupAssumption
<1>1. /\ next \in [Dags -> Nat]
      /\ nodes \in [Dags -> SUBSET (0 .. (MaxIndex - 1))]
      /\ Grouped \subseteq Dags
      /\ \A d \in Grouped : next[d] = next[Group] /\ next[d] \in Nat
  BY DEF IInv, TypeOK, Level, Grouped, Dags
<1>2. ASSUME NEW c \in Child, SetNextNodeIndex(c) \/ MakeNode(c)
      PROVE  \A d \in Grouped : next'[d] >= next[d] /\ nodes[d] \subseteq nodes'[d]
  <2>1. c \notin Grouped
    BY <1>2 DEF SetNextNodeIndex, MakeNode, Grouped
  <2> QED
    BY <1>1, <1>2, <2>1 DEF SetNextNodeIndex, MakeNode, Allocate, Advanced
<1>3. ASSUME NEW c \in Child, AddDag(c)
      PROVE  \A d \in Grouped : next'[d] >= next[d] /\ nodes[d] \subseteq nodes'[d]
  <2>1. /\ next' = [d \in Dags |-> IF d \in members' \cup {Group} THEN next[c] ELSE next[d]]
        /\ next[c] >= next[Group]
    BY <1>3, AddDagLevels
  <2>2. nodes' = nodes /\ Grouped \subseteq members' \cup {Group}
    BY <1>3 DEF AddDag, Grouped
  <2> QED
    BY <1>1, <2>1, <2>2
<1>4. ASSUME NEW e \in Grouped, NEW k \in Nat, NEW S,
             next' = Levelled([next EXCEPT ![e] = @ + k], members),
             nodes' = [nodes EXCEPT ![e] = @ \cup S]
      PROVE  \A d \in Grouped : next'[d] >= next[d] /\ nodes[d] \subseteq nodes'[d]
  <2>1. next' = [d \in Dags |-> IF d \in Grouped THEN next[Group] + k ELSE next[d]]
    BY <1>4, GrownLevels
  <2>2. \A d \in Grouped : next'[d] >= next[d]
    BY <1>1, <2>1
  <2>3. \A d \in Grouped : nodes[d] \subseteq nodes'[d]
    BY <1>1, <1>4
  <2> QED
    BY <2>2, <2>3
<1>5. ASSUME NEW d \in Dags, GroupMakeNode(d)
      PROVE  \A f \in Grouped : next'[f] >= next[f] /\ nodes[f] \subseteq nodes'[f]
  <2>1. /\ d \in Grouped
        /\ next' = Levelled([next EXCEPT ![d] = @ + 1], members)
        /\ nodes' = [nodes EXCEPT ![d] = @ \cup (next[d] .. (next[d] + 1 - 1))]
    BY <1>5 DEF GroupMakeNode, Allocate, Advanced
  <2> QED
    BY <1>4, <2>1
<1>6. ASSUME NEW c \in Child, NEW k \in 0 .. MaxGrow, CompileChild(c, k)
      PROVE  \A d \in Grouped : next'[d] >= next[d] /\ nodes[d] \subseteq nodes'[d]
  <2>1. /\ c \in Grouped /\ k \in Nat
        /\ next' = Levelled([next EXCEPT ![c] = @ + k], members)
        /\ nodes' = [nodes EXCEPT ![c] = @ \cup (next[c] .. (next[c] + k - 1))]
    BY <1>6, LevelStays DEF CompileChild, Grouped
  <2> QED
    BY <1>4, <2>1
<1>7. ASSUME NEW d \in Dags, NEW s \in Scale, SetScale(d, s)
      PROVE  next' = next /\ nodes' = nodes
  BY <1>7 DEF SetScale
<1>8. CASE UNCHANGED vars
  BY <1>1, <1>8 DEF vars
<1> QED
  BY <1>1, <1>2, <1>3, <1>5, <1>6, <1>7, <1>8 DEF Next

(* No counter of a member runs back and no member loses an index           *)
(* (updateGroupIndex takes the largest counter), for any number of         *)
(* children.                                                               *)
THEOREM MonotonicHolds == Spec => CountersMonotonic
<1>1. IInv /\ [Next]_vars =>
        [\A d \in Grouped : next'[d] >= next[d] /\ nodes[d] \subseteq nodes'[d]]_vars
  BY StepRaises
<1> QED
  BY <1>1, InvHolds, PTL DEF Spec, CountersMonotonic

(* The group implements the shared index pool of its class comment: each   *)
(* step gives new indices to one Dag, none of them owned by another.       *)
THEOREM PoolImplemented == Spec => SharesPool
<1> DEFINE Own == [d \in Dags |-> IF d \in Grouped THEN nodes[d] ELSE {}]
<1>1. Init => Pool!Init
  BY DEF Init, Pool!Init, Grouped, Dags
<1>2. ASSUME IInv, IInv', [Next]_vars
      PROVE  [Pool!Next]_Own
  <2>1. ASSUME NEW e \in Dags, nodes[e] \subseteq nodes'[e],
               Grouped' = Grouped \cup {e},
               \A d \in Grouped : d # e => nodes'[d] = nodes[d]
        PROVE  Pool!Next
    <3>1. \A d \in Dags : d # e => Own'[d] = Own[d]
      BY <2>1
    <3>2. Own' = [Own EXCEPT ![e] = Own'[e]]
      BY <3>1
    <3>3. Own[e] \subseteq Own'[e]
      BY <2>1
    <3>4. \A d, f \in Dags : d # f => Own'[d] \cap Own'[f] = {}
      BY <1>2 DEF IInv, IndicesDisjoint
    <3>5. \A d \in Dags \ {e} : Own[d] \cap Own'[e] = {}
      BY <3>1, <3>4
    <3> HIDE DEF Own
    <3> QED
      BY <3>2, <3>3, <3>5 DEF Pool!Next, Pool!Allocate, Own
  <2>2. ASSUME members' = members, \A d \in Grouped : nodes'[d] = nodes[d]
        PROVE  Own' = Own
    BY <2>2 DEF Grouped
  <2>3. ASSUME NEW e \in Grouped, members' = members,
               NEW S, nodes' = [nodes EXCEPT ![e] = @ \cup S]
        PROVE  Pool!Next
    <3>1. e \in Dags /\ Grouped \subseteq Dags /\ nodes \in [Dags -> SUBSET (0 .. (MaxIndex - 1))]
      BY <1>2 DEF IInv, TypeOK, Grouped, Dags
    <3>2. Grouped' = Grouped \cup {e}
      BY <2>3 DEF Grouped
    <3>3. nodes[e] \subseteq nodes'[e] /\ \A d \in Grouped : d # e => nodes'[d] = nodes[d]
      BY <2>3, <3>1
    <3> QED
      BY <2>1, <3>1, <3>2, <3>3
  <2>4. ASSUME NEW c \in Child, AddDag(c) PROVE Pool!Next
    <3>1. Grouped' = Grouped \cup {c} /\ nodes' = nodes /\ c \in Dags
      BY <2>4 DEF AddDag, Grouped, Dags
    <3> QED
      BY <2>1, <3>1
  <2>5. ASSUME NEW c \in Child, MakeNode(c) PROVE Own' = Own
    <3>1. c \notin Grouped /\ members' = members
      BY <2>5, GroupAssumption DEF MakeNode, Grouped
    <3>2. \A d \in Grouped : nodes'[d] = nodes[d]
      BY <1>2, <2>5, <3>1 DEF MakeNode, Allocate, IInv, TypeOK, Grouped, Dags
    <3> QED
      BY <2>2, <3>1, <3>2
  <2>6. ASSUME NEW c \in Child, SetNextNodeIndex(c) PROVE Own' = Own
    BY <2>2, <2>6 DEF SetNextNodeIndex
  <2>7. ASSUME NEW d \in Dags, NEW s \in Scale, SetScale(d, s) PROVE Own' = Own
    BY <2>2, <2>7 DEF SetScale
  <2>8. ASSUME NEW d \in Dags, GroupMakeNode(d) PROVE Pool!Next
    BY <2>3, <2>8 DEF GroupMakeNode, Allocate
  <2>9. ASSUME NEW c \in Child, NEW k \in 0 .. MaxGrow, CompileChild(c, k)
        PROVE  Pool!Next
    BY <2>3, <2>9 DEF CompileChild, Grouped
  <2>10. CASE UNCHANGED vars
    BY <2>2, <2>10 DEF vars
  <2> HIDE DEF Own
  <2> QED
    BY <1>2, <2>4, <2>5, <2>6, <2>7, <2>8, <2>9, <2>10 DEF Next
<1> QED
  BY <1>1, <1>2, InvHolds, PTL DEF Spec, SharesPool, Pool!Spec
=============================================================================
