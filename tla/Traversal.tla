----------------------------- MODULE Traversal -----------------------------
(***************************************************************************)
(* DagTraversal::traverse (daghandler/traversal_handler.h), one iteration  *)
(* of its loop as an operator on the record                                *)
(*                                                                         *)
(*   [todo, ready, processed]                                              *)
(*                                                                         *)
(* of the node sets m_readyNodes, m_ready and m_processed.  m_readyNodes   *)
(* is a stack whose contents come from hash sets of pointers and from      *)
(* vectors, so that the next node may be any of its elements.              *)
(***************************************************************************)
EXTENDS GraphOps

\* arePredecessorsDone looks at Preds, the check list holds Succs.
Preds(g, forward, n) ==
  {m \in Node : IF forward THEN g.operands[n][m] > 0 ELSE g.uses[n][m] > 0}
Succs(g, forward, n) == Preds(g, ~forward, n)
Roots(g, forward) == IF forward THEN g.sources ELSE g.sinks

Begin(g, forward) ==
  [todo |-> Roots(g, forward), ready |-> Roots(g, forward), processed |-> {}]

\* Fault: arePredecessorsDone is not asked.
AdvanceEager(t, forward, n, before, after, keep) ==
  LET fresh   == Roots(after, forward) \ t.ready
      enabled == Succs(before, forward, n) \ (t.ready \cup fresh)
  IN  [todo      |-> (t.todo \ {n}) \cup fresh \cup enabled,
       ready     |-> t.ready \cup fresh \cup enabled,
       processed |-> IF keep THEN t.processed \cup {n} ELSE t.processed]

\* Fault: the successors that n had before it was rewritten are not checked.
AdvanceStrands(t, forward, n, before, after, keep) ==
  LET processed == IF keep THEN t.processed \cup {n} ELSE t.processed
      fresh     == Roots(after, forward) \ t.ready
      enabled   == {s \in Succs(after, forward, n) \ (t.ready \cup fresh) :
                      Preds(after, forward, s) \subseteq processed}
  IN  [todo      |-> (t.todo \ {n}) \cup fresh \cup enabled,
       ready     |-> t.ready \cup fresh \cup enabled,
       processed |-> processed]

(* The iteration that takes n from the stack, while the rewriter turns the *)
(* graph `before' into `after'; n is not kept if the rewriter reset it.    *)
Advance(t, forward, n, before, after, keep) ==
  LET processed == IF keep THEN t.processed \cup {n} ELSE t.processed
      fresh     == Roots(after, forward) \ t.ready
      checked   == Succs(before, forward, n) \cup
                     (IF keep THEN Succs(after, forward, n) ELSE {})
      enabled   == {s \in checked \ (t.ready \cup fresh) :
                      Preds(after, forward, s) \subseteq processed}
  IN  [todo      |-> (t.todo \ {n}) \cup fresh \cup enabled,
       ready     |-> t.ready \cup fresh \cup enabled,
       processed |-> processed]
=============================================================================
