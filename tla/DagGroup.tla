------------------------------ MODULE DagGroup ------------------------------
(***************************************************************************)
(* A DagGroup and the Dags it is made of (dag/iyfc_dag.cpp): how indices   *)
(* are allocated, how a child joins the group, how the group and its       *)
(* children keep their counters level, and how a group is loaded back.     *)
(*                                                                         *)
(* An index names a node in every NodeMap of the group, so that the Dags   *)
(* of a group have to own different ones.                                  *)
(***************************************************************************)
EXTENDS Naturals, FiniteSets

CONSTANTS
  Child,         \* the child Dags, by name
  Group,         \* the DagGroup
  MaxIndex,      \* bound: indices are allocated below it
  MaxGrow,       \* bound: the nodes that the passes add to a child
  Scale,         \* the scales that callers choose
  DefaultScale   \* Dag::m_scale of a new Dag

ASSUME GroupAssumption == Group \notin Child
ASSUME BoundAssumption == MaxIndex \in Nat /\ MaxGrow \in Nat
ASSUME ScaleAssumption == Scale \subseteq Nat /\ DefaultScale \in Scale

VARIABLES
  members,   \* DagGroup::m_name2dag
  next,      \* m_next_node_index of every Dag
  low,       \* m_min_node_index of every Dag
  nodes,     \* the indices each Dag has given to its nodes
  scale      \* m_scale of every Dag

vars == <<members, next, low, nodes, scale>>

Dags == Child \cup {Group}
Grouped == members \cup {Group}

Unused == MaxIndex   \* numeric_limits::max(): above every index

TypeOK ==
  /\ members \in SUBSET Child
  /\ next \in [Dags -> 0 .. MaxIndex]
  /\ low \in [Dags -> 0 .. Unused]
  /\ nodes \in [Dags -> SUBSET (0 .. (MaxIndex - 1))]
  /\ scale \in [Dags -> Scale]

Init ==
  /\ members = {}
  /\ next = [d \in Dags |-> 0]
  /\ low = [d \in Dags |-> Unused]
  /\ nodes = [d \in Dags |-> {}]
  /\ scale = [d \in Dags |-> DefaultScale]

-----------------------------------------------------------------------------
Largest(S) == CHOOSE x \in S : \A y \in S : y <= x
Lesser(i, j) == IF i < j THEN i ELSE j

\* Fault: one index too many.
LevelledBeyond(counters, in) ==
  LET total == Largest({counters[d] : d \in in \cup {Group}}) + 1
  IN  [d \in Dags |-> IF d \in in \cup {Group} THEN total ELSE counters[d]]

(* updateGroupIndex: the group and the Dags in `in' are raised to the      *)
(* largest counter among them.                                             *)
Levelled(counters, in) ==
  LET total == Largest({counters[d] : d \in in \cup {Group}})
  IN  [d \in Dags |-> IF d \in in \cup {Group} THEN total ELSE counters[d]]

\* Fault: m_min_node_index is not kept.
AllocateUntracked(d, k) ==
  /\ next[d] + k <= MaxIndex
  /\ nodes' = [nodes EXCEPT ![d] = @ \cup (next[d] .. (next[d] + k - 1))]
  /\ UNCHANGED low

\* allocateIndex, k times
Allocate(d, k) ==
  /\ next[d] + k <= MaxIndex
  /\ low' = [low EXCEPT ![d] = IF k = 0 THEN @ ELSE Lesser(@, next[d])]
  /\ nodes' = [nodes EXCEPT ![d] = @ \cup (next[d] .. (next[d] + k - 1))]
Advanced(d, k) == [next EXCEPT ![d] = @ + k]

-----------------------------------------------------------------------------
\* Fault: the group is given the counter of the new Dag.
SetNextNodeIndexSwapped(c) ==
  /\ c \in Child \ members /\ nodes[c] = {}
  /\ next' = [next EXCEPT ![Group] = next[c]]
  /\ UNCHANGED <<members, low, nodes, scale>>

\* Callers build a Dag from the group's next index on, then add it.
SetNextNodeIndex(c) ==
  /\ c \in Child \ members /\ nodes[c] = {}
  /\ next' = [next EXCEPT ![c] = next[Group]]
  /\ UNCHANGED <<members, low, nodes, scale>>

SetScale(d, s) ==
  /\ d \in Dags
  /\ scale' = [scale EXCEPT ![d] = s]
  /\ UNCHANGED <<members, next, low, nodes>>

(* Dag::makeNode while the Dag is in no group.  The code allows it on a    *)
(* member, too; the protocol of the examples (Spec) is that members get    *)
(* their nodes through the group.                                          *)
MakeNode(c) ==
  /\ c \in Child \ members
  /\ Allocate(c, 1)
  /\ next' = Advanced(c, 1)
  /\ UNCHANGED <<members, scale>>

(* DagGroup::addDag, when it does not throw.  A Dag that has inputs and    *)
(* outputs has nodes.                                                      *)
AddDag(c) ==
  /\ c \in Child
  /\ low[c] >= next[Group]
  /\ c \notin members
  /\ nodes[c] # {}
  /\ members' = members \cup {c}
  /\ scale' = IF scale[c] < scale[Group]
              THEN [d \in Dags |-> IF d \in members' \cup {Group} THEN scale[c]
                                   ELSE scale[d]]
              ELSE scale
  /\ next' = Levelled(next, members')
  /\ UNCHANGED <<low, nodes>>

\* Fault: no updateGroupIndex after the node is made.
GroupMakeNodeUnlevelled(d) ==
  /\ d \in Grouped
  /\ Allocate(d, 1)
  /\ next' = Advanced(d, 1)
  /\ UNCHANGED <<members, scale>>

(* DagGroup::makeNode: the child that owns the first operand makes the     *)
(* node, or the group itself if there is no operand.                       *)
GroupMakeNode(d) ==
  /\ d \in Grouped
  /\ Allocate(d, 1)
  /\ next' = Levelled(Advanced(d, 1), members)
  /\ UNCHANGED <<members, scale>>

\* Fault: the counters are not levelled after a child is compiled.
CompileChildUnlevelled(c, k) ==
  /\ c \in members
  /\ Allocate(c, k)
  /\ next' = Advanced(c, k)
  /\ UNCHANGED <<members, scale>>

(* deGroupLibAndAlo on one child: its passes add nodes to the child behind *)
(* the back of the group, between two calls of updateGroupIndex.           *)
CompileChild(c, k) ==
  /\ c \in members
  /\ LET level == Levelled(next, members) IN
     /\ level[c] + k <= MaxIndex
     /\ low' = [low EXCEPT ![c] = IF k = 0 THEN @ ELSE Lesser(@, level[c])]
     /\ nodes' = [nodes EXCEPT ![c] = @ \cup (level[c] .. (level[c] + k - 1))]
     /\ next' = Levelled([level EXCEPT ![c] = @ + k], members)
  /\ UNCHANGED <<members, scale>>

Next ==
  \/ \E c \in Child : \/ SetNextNodeIndex(c)
                      \/ MakeNode(c)
                      \/ AddDag(c)
                      \/ \E k \in 0 .. MaxGrow : CompileChild(c, k)
  \/ \E d \in Dags : \/ \E s \in Scale : SetScale(d, s)
                     \/ GroupMakeNode(d)

Spec == Init /\ [][Next]_vars

-----------------------------------------------------------------------------
(* deserialize(serialize(group)), kept apart because the group does not    *)
(* survive it: every child is a new Dag, whose nodes are made from its own *)
(* first index on; the group's counter follows.                            *)
Reload ==
  LET size(c) == Cardinality(nodes[c])
      made == [d \in Dags |-> IF d \in members THEN size(d)
                              ELSE IF d = Group THEN 0 ELSE next[d]]
  IN  /\ members # {}
      /\ nodes' = [d \in Dags |-> IF d \in members THEN 0 .. (size(d) - 1)
                                  ELSE IF d = Group THEN {} ELSE nodes[d]]
      /\ low' = [d \in Dags |-> IF d \in members THEN 0
                                ELSE IF d = Group THEN Unused ELSE low[d]]
      /\ next' = Levelled(made, members)
      /\ scale' = [d \in Dags |-> IF d \in members THEN DefaultScale ELSE scale[d]]
      /\ UNCHANGED members

ReloadingSpec == Init /\ [][Next \/ Reload]_vars

-----------------------------------------------------------------------------
(* No two Dags of a group own the same index: a NodeMap of the group, the  *)
(* traversal's own among them, would take two nodes for one.               *)
IndicesDisjoint ==
  \A d, e \in Grouped : d # e => nodes[d] \cap nodes[e] = {}

(* Every node of the group has its place in the NodeMaps of the group and  *)
(* in those of its own Dag, which are as long as m_next_node_index: at()   *)
(* throws beyond it.                                                       *)
MapsCoverNodes ==
  \A d \in Grouped : \A i \in nodes[d] : i < next[d] /\ i < next[Group]

(* A counter of a Dag never runs back behind an index it has given, while  *)
(* the Dag belongs to the group: indices are not reused.                   *)
CountersMonotonic ==
  [][\A d \in Grouped : next'[d] >= next[d] /\ nodes[d] \subseteq nodes'[d]]_vars

(* The children and the group draw from one pool.                          *)
Pool == INSTANCE SharedPool
          WITH Owner <- Dags,
               owned <- [d \in Dags |-> IF d \in Grouped THEN nodes[d] ELSE {}]
SharesPool == Pool!Spec
=============================================================================
