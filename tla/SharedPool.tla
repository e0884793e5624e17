----------------------------- MODULE SharedPool -----------------------------
(***************************************************************************)
(* "Multiple graphs share the same index pool" (dag/iyfc_dag.h, DagGroup): *)
(* an index that one Dag of a group owns is never given to another one,    *)
(* and never taken back.  A Dag may bring a set of indices when it joins.  *)
(***************************************************************************)
EXTENDS Naturals

CONSTANT Owner

VARIABLE owned      \* the indices that each member of the group owns

Init == owned = [d \in Owner |-> {}]

\* d is given some more indices.
Allocate(d) ==
  /\ owned' = [owned EXCEPT ![d] = owned'[d]]
  /\ owned[d] \subseteq owned'[d]
  /\ \A e \in Owner \ {d} : owned[e] \cap owned'[d] = {}

Next == \E d \in Owner : Allocate(d)

Spec == Init /\ [][Next]_owned
=============================================================================
