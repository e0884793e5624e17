----------------------------- MODULE MCDagGroup -----------------------------
(* Model checking of DagGroup: children and the group take turns, up to    *)
(* MaxIndex indices.                                                       *)
EXTENDS DagGroup, TLC

Symmetry == Permutations(Child)
=============================================================================
