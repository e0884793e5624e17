-------------------------- MODULE DagPasses_proofs --------------------------
(***************************************************************************)
(* The passes of DagPasses, for every set of programs of any size, every   *)
(* list of passes that the assumptions allow, and every order of visits.   *)
(*                                                                         *)
(* First the order: each node is visited once, after the nodes before it,  *)
(* and none is left out, although the rewriters change the graph under the *)
(* traversal.  The induction has three parts: the graph is sound and has   *)
(* no cycle in either direction; the traversal is in order (InOrder of     *)
(* Graph_proofs), which every rewriter keeps because it is gentle; and     *)
(* what a clean pass has dropped stays dropped, what it has kept stays in  *)
(* use.                                                                    *)
(*                                                                         *)
(* Then what the passes compute and keep: types and depths are those of    *)
(* the graph; sums and products are binary again when their balancing is   *)
(* over; and every output denotes what the program's output did.           *)
(***************************************************************************)
EXTENDS DagPasses, Graph_proofs

\* Nodes that an earlier pass emptied have no users; of cleaned ones this is so too.
Settled(h, det, ret) ==
  /\ GraphInv(h, det, ret)
  /\ ret \subseteq det /\ det \subseteq h.alive
  /\ \A n \in det : IsNone(h.uses[n])

Sound(h) ==
  /\ \E det, ret \in SUBSET Node : Settled(h, det, ret)
  /\ \A forward \in BOOLEAN : Acyclic(h, forward)

GraphOK ==
  /\ next \in Nat /\ next <= MaxNode /\ \A n \in g.alive : n < next
  /\ Sound(g)

OrderOK == InOrder(t, g, Forward(Passes[at]), entry, seen)

Gone(n) == /\ n \notin g.sources /\ n \notin g.sinks
           /\ IsNone(g.operands[n]) /\ IsNone(g.uses[n])

CleanOK ==
  Passes[at] \in {"Clean", "Release"} =>
    /\ Attached(g) \subseteq entry
    /\ \A n \in seen \ t.processed : Gone(n)
    /\ \A n \in t.processed :
         /\ Passes[at] = "Clean"
         /\ ~IsNone(g.uses[n]) \/ ~Cleanable(n)
         /\ Preds(g, FALSE, n) \subseteq t.processed

IInv == GraphOK /\ OrderOK /\ CleanOK

-----------------------------------------------------------------------------
(* Sound graphs                                                            *)

\* The two directions of a sound graph, and which of its nodes are attached.
LEMMA SettledFacts ==
  ASSUME NEW h, NEW det, NEW ret, Settled(h, det, ret)
  PROVE  /\ h.alive \subseteq Node
         /\ h.operands \in [Node -> Bag] /\ h.uses \in [Node -> Bag]
         /\ \A n, m \in Node : h.uses[m][n] = h.operands[n][m]
         /\ \A n, m \in Node : n \in Preds(h, FALSE, m) <=> m \in Preds(h, TRUE, n)
         /\ \A n, m \in Node : m \in Preds(h, TRUE, n) =>
               n \in h.alive \ det /\ m \in h.alive \ det
         /\ \A n \in Node :
               n \in h.sinks <=> n \in h.alive /\ IsNone(h.uses[n]) /\ n \notin ret
         /\ \A n \in Node :
               n \in h.sources <=> n \in h.alive /\ IsNone(h.operands[n]) /\ n \notin det
         /\ h.sinks \subseteq Node /\ h.sources \subseteq Node
         /\ \A n \in Node : IsNone(h.operands[n]) <=> Preds(h, TRUE, n) = {}
         /\ \A n \in Node : IsNone(h.uses[n]) <=> Preds(h, FALSE, n) = {}
         /\ Attached(h) = h.alive \ det
<1>1. /\ h.alive \subseteq Node
      /\ h.operands \in [Node -> Bag] /\ h.uses \in [Node -> Bag]
      /\ h.sinks \subseteq Node /\ h.sources \subseteq Node
      /\ \A n, m \in Node : h.uses[m][n] = h.operands[n][m]
      /\ \A n \in Node : n \in h.sinks <=> n \in h.alive /\ IsNone(h.uses[n]) /\ n \notin ret
      /\ \A n \in Node : n \in h.sources <=> n \in h.alive /\ IsNone(h.operands[n]) /\ n \notin det
      /\ \A n, m \in Node : h.operands[n][m] > 0 => n \in h.alive /\ m \in h.alive
      /\ \A n \in det : IsNone(h.operands[n]) /\ IsNone(h.uses[n])
      /\ det \subseteq Node
  BY DEF Settled, GraphInv, Typed, Mirror, RootsExact, HistoryIdle, Inside
<1>2. \A n, m \in Node : h.operands[n][m] \in Nat /\ h.uses[n][m] \in Nat
  BY <1>1 DEF Bag
<1>3. \A n, m \in Node : /\ m \in Preds(h, TRUE, n) <=> h.operands[n][m] > 0
                         /\ m \in Preds(h, FALSE, n) <=> h.uses[n][m] > 0
  BY DEF Preds
<1>4. \A n \in Node : /\ IsNone(h.operands[n]) <=> Preds(h, TRUE, n) = {}
                      /\ IsNone(h.uses[n]) <=> Preds(h, FALSE, n) = {}
  BY <1>2 DEF Preds, IsNone
<1>5. \A n, m \in Node : n \in Preds(h, FALSE, m) <=> m \in Preds(h, TRUE, n)
  BY <1>1, <1>3
<1>6. ASSUME NEW n \in Node, NEW m \in Node, m \in Preds(h, TRUE, n)
      PROVE  n \in h.alive \ det /\ m \in h.alive \ det
  <2>1. n \notin det
    BY <1>6, <1>1, <1>4
  <2>2. m \notin det
    BY <1>6, <1>1, <1>4, <1>5
  <2> QED
    BY <2>1, <2>2, <1>6, <1>1, <1>3
<1>7. Attached(h) = h.alive \ det
  BY <1>1 DEF Attached
<1> QED
  BY <1>1, <1>4, <1>5, <1>6, <1>7

\* Every pass begins in order.
LEMMA PassBegins ==
  ASSUME NEW h, Sound(h), NEW forward \in BOOLEAN
  PROVE  InOrder(Begin(h, forward), h, forward, Attached(h), {})
<1>1. PICK det, ret \in SUBSET Node : Settled(h, det, ret)
  BY DEF Sound
<1>r. ret \subseteq det
  BY <1>1 DEF Settled
<1>2. /\ h.sinks \subseteq Node /\ h.sources \subseteq Node /\ h.alive \subseteq Node
      /\ Attached(h) = h.alive \ det
      /\ \A n, m \in Node : m \in Preds(h, TRUE, n) =>
            n \in h.alive \ det /\ m \in h.alive \ det
      /\ \A n, m \in Node : n \in Preds(h, FALSE, m) <=> m \in Preds(h, TRUE, n)
      /\ \A n \in Node : /\ IsNone(h.operands[n]) <=> Preds(h, TRUE, n) = {}
                         /\ IsNone(h.uses[n]) <=> Preds(h, FALSE, n) = {}
      /\ \A n \in Node : n \in h.sinks <=> n \in h.alive /\ IsNone(h.uses[n]) /\ n \notin ret
      /\ \A n \in Node : n \in h.sources <=> n \in h.alive /\ IsNone(h.operands[n]) /\ n \notin det
  BY <1>1, SettledFacts
<1>3. \A n \in Node : Preds(h, forward, n) \subseteq Node
  BY DEF Preds
<1>4. /\ Attached(h) \in SUBSET h.alive /\ h.alive \subseteq Node
      /\ Roots(h, forward) \subseteq h.alive
      /\ \A s \in Roots(h, forward) : Preds(h, forward, s) = {}
      /\ \A s \in Node : Preds(h, forward, s) # {} => s \in Attached(h)
      /\ \A s \in Attached(h) \ Roots(h, forward) :
            Preds(h, forward, s) # {} /\ Preds(h, forward, s) \subseteq Attached(h)
  <2>1. CASE forward = TRUE
    <3>1. Roots(h, forward) = h.sources
      BY <2>1 DEF Roots
    <3>2. \A s \in h.sources : Preds(h, TRUE, s) = {}
      BY <1>2
    <3>3. \A s \in Node : Preds(h, TRUE, s) # {} => s \in h.alive \ det
      BY <1>2, <1>3, <2>1
    <3>4. \A s \in (h.alive \ det) \ h.sources : Preds(h, TRUE, s) # {}
      BY <1>r, <1>2
    <3>5. \A s \in Node : Preds(h, TRUE, s) \subseteq h.alive \ det
      BY <1>2, <1>3, <2>1
    <3>6. \A s : Preds(h, forward, s) = Preds(h, TRUE, s)
      BY <2>1
    <3>7. h.sources \subseteq h.alive /\ h.alive \subseteq Node /\ Attached(h) = h.alive \ det
      BY <1>2
    <3> QED
      BY <3>1, <3>2, <3>3, <3>4, <3>5, <3>6, <3>7
  <2>2. CASE forward = FALSE
    <3>1. Roots(h, forward) = h.sinks
      BY <2>2 DEF Roots
    <3>2. \A s \in h.sinks : Preds(h, FALSE, s) = {}
      BY <1>2
    <3>3. \A s \in Node : Preds(h, FALSE, s) # {} => s \in h.alive \ det
      BY <1>2, <1>3, <2>2
    <3>4. \A s \in (h.alive \ det) \ h.sinks : Preds(h, FALSE, s) # {}
      BY <1>r, <1>2
    <3>5. \A s \in Node : Preds(h, FALSE, s) \subseteq h.alive \ det
      BY <1>2, <1>3, <2>2
    <3>6. \A s : Preds(h, forward, s) = Preds(h, FALSE, s)
      BY <2>2
    <3>7. h.sinks \subseteq h.alive /\ h.alive \subseteq Node /\ Attached(h) = h.alive \ det
      BY <1>2
    <3> QED
      BY <3>1, <3>2, <3>3, <3>4, <3>5, <3>6, <3>7
  <2> QED
    BY <2>1, <2>2
<1> QED
  BY <1>4, BeginInOrder
-----------------------------------------------------------------------------
(* No rewriter makes a cycle                                               *)

\* An edge may take the place of two (merging): what it joins was joined.
LEMMA ShortcutAcyclic ==
  ASSUME NEW h, NEW f, NEW forward, Acyclic(h, forward), NEW n \in Node,
         \A x \in Node : \A y \in Preds(f, forward, x) :
           \/ y \in Preds(h, forward, x)
           \/ n \in Preds(h, forward, x) /\ y \in Preds(h, forward, n)
  PROVE  Acyclic(f, forward)
<1> DEFINE P(x) == Preds(h, forward, x)
           Q(x) == Preds(f, forward, x)
<1> SUFFICES ASSUME NEW S \in SUBSET Node, S # {}
             PROVE  \E x \in S : Q(x) \cap S = {}
  BY DEF Acyclic
<1>1. \A x \in Node : \A y \in Q(x) : y \in P(x) \/ (n \in P(x) /\ y \in P(n))
  OBVIOUS
<1>2. PICK x \in S \cup {n} : P(x) \cap (S \cup {n}) = {}
  BY DEF Acyclic
<1>3. PICK z \in S : P(z) \cap S = {}
  BY DEF Acyclic
<1> HIDE DEF P, Q
<1>4. CASE x = n
  <2>1. Q(z) \cap S = {}
    BY <1>1, <1>2, <1>3, <1>4
  <2> QED
    BY <2>1
<1>5. CASE x # n
  <2>1. Q(x) \cap S = {} /\ x \in S
    BY <1>1, <1>2, <1>5
  <2> QED
    BY <2>1
<1> QED
  BY <1>4, <1>5

\* A node that has nothing before it, or nothing after it, closes no cycle (folding).
LEMMA EndNodeAcyclic ==
  ASSUME NEW h, NEW f, NEW forward, Acyclic(h, forward), NEW c \in Node,
         \A x \in Node \ {c} : Preds(f, forward, x) \subseteq Preds(h, forward, x) \cup {c},
         \/ Preds(f, forward, c) = {}
         \/ \A x \in Node : c \notin Preds(f, forward, x)
  PROVE  Acyclic(f, forward)
<1> DEFINE P(x) == Preds(h, forward, x)
           Q(x) == Preds(f, forward, x)
<1> SUFFICES ASSUME NEW S \in SUBSET Node, S # {}
             PROVE  \E x \in S : Q(x) \cap S = {}
  BY DEF Acyclic
<1>1. /\ \A x \in Node \ {c} : Q(x) \subseteq P(x) \cup {c}
      /\ Q(c) = {} \/ \A x \in Node : c \notin Q(x)
  OBVIOUS
<1>2. \A R \in SUBSET Node : R # {} => \E x \in R : P(x) \cap R = {}
  BY DEF Acyclic
<1> HIDE DEF P, Q
<1>3. CASE c \in S /\ Q(c) = {}
  BY <1>3
<1>4. CASE S = {c} /\ c \notin Q(c)
  BY <1>4
<1>5. CASE c \notin S \/ (S # {c} /\ \A x \in Node : c \notin Q(x))
  <2>1. S \ {c} # {} /\ S \ {c} \in SUBSET Node
    BY <1>5
  <2>2. PICK x \in S \ {c} : P(x) \cap (S \ {c}) = {}
    BY <2>1, <1>2
  <2>3. Q(x) \cap S = {}
    BY <2>2, <1>1, <1>5
  <2> QED
    BY <2>2, <2>3
<1> QED
  BY <1>1, <1>3, <1>4, <1>5

(* New nodes F under n, each over nodes that n was over and new nodes made *)
(* before it (balancing).                                                  *)
Balances(h, f, F, n) ==
  /\ \A x \in Node : Preds(h, TRUE, x) \cap F = {}
  /\ \A x \in Node \ (F \cup {n}) : Preds(f, TRUE, x) = Preds(h, TRUE, x)
  /\ Preds(f, TRUE, n) \subseteq Preds(h, TRUE, n) \cup F
  /\ \A x \in F : Preds(f, TRUE, x) \subseteq Preds(h, TRUE, n) \cup {y \in F : y < x}

\* Balancing makes no cycle for a forward pass.
LEMMA BalancedForward ==
  ASSUME NEW h, NEW f, Acyclic(h, TRUE), NEW n \in Node,
         NEW F \in SUBSET Node, n \notin F, Balances(h, f, F, n)
  PROVE  Acyclic(f, TRUE)
<1> DEFINE P(x) == Preds(h, TRUE, x)
           Q(x) == Preds(f, TRUE, x)
<1> SUFFICES ASSUME NEW S \in SUBSET Node, S # {}
             PROVE  \E x \in S : Q(x) \cap S = {}
  BY DEF Acyclic
<1>1. /\ \A x \in Node : P(x) \cap F = {}
      /\ \A x \in Node \ (F \cup {n}) : Q(x) = P(x)
      /\ Q(n) \subseteq P(n) \cup F
      /\ \A x \in F : Q(x) \subseteq P(n) \cup {y \in F : y < x}
  BY DEF Balances
<1>2. \A R \in SUBSET Node : R # {} => \E x \in R : P(x) \cap R = {}
  BY DEF Acyclic
<1> HIDE DEF P, Q
<1>3. CASE S \cap F = {}
  <2>1. PICK x \in S : P(x) \cap S = {}
    BY <1>2
  <2>2. Q(x) \subseteq P(x) \cup F
    BY <1>1, <1>3
  <2> QED
    BY <2>1, <2>2, <1>3
<1>4. CASE S \cap F # {}
  <2>1. S \cap F \in SUBSET Nat
    BY MaxNodeAssumption DEF Node
  <2>2. PICK l \in S \cap F : \A y \in S \cap F : l <= y
    BY <2>1, <1>4, LeastNumber
  <2>3. \A y \in S \cap F : ~(y < l)
    BY <2>1, <2>2
  <2>4. PICK x \in (S \ F) \cup {n} : P(x) \cap ((S \ F) \cup {n}) = {}
    BY <1>2
  <2>5. CASE x = n
    <3>1. Q(l) \cap S = {}
      BY <2>2, <2>3, <2>4, <2>5, <1>1
    <3> QED
      BY <3>1, <2>2
  <2>6. CASE x # n
    <3>1. x \in S /\ Q(x) \cap S = {}
      BY <2>4, <2>6, <1>1
    <3> QED
      BY <3>1
  <2> QED
    BY <2>5, <2>6
<1> QED
  BY <1>3, <1>4

\* Balancing makes no cycle for a backward pass.
LEMMA BalancedBackward ==
  ASSUME NEW h, NEW f, Acyclic(h, FALSE), NEW n \in Node,
         NEW F \in SUBSET Node, n \notin F, Balances(h, f, F, n),
         \A x, y \in Node : y \in Preds(h, FALSE, x) <=> x \in Preds(h, TRUE, y),
         \A x, y \in Node : y \in Preds(f, FALSE, x) <=> x \in Preds(f, TRUE, y)
  PROVE  Acyclic(f, FALSE)
<1> DEFINE P(x) == Preds(h, FALSE, x)
           Q(x) == Preds(f, FALSE, x)
<1> SUFFICES ASSUME NEW S \in SUBSET Node, S # {}
             PROVE  \E x \in S : Q(x) \cap S = {}
  BY DEF Acyclic
<1>1. \A x, y \in Node :
         y \in Q(x) => \/ y \notin F \cup {n} /\ y \in P(x)
                       \/ y \in F \cup {n} /\ x \notin F /\ n \in P(x)
                       \/ y = n /\ x \in F
                       \/ y \in F /\ x \in F /\ x < y
  <2> SUFFICES ASSUME NEW x \in Node, NEW y \in Node, x \in Preds(f, TRUE, y)
               PROVE  \/ y \notin F \cup {n} /\ x \in Preds(h, TRUE, y)
                      \/ y \in F \cup {n} /\ x \notin F /\ x \in Preds(h, TRUE, n)
                      \/ y = n /\ x \in F
                      \/ y \in F /\ x \in F /\ x < y
    OBVIOUS
  <2> QED
    BY DEF Balances
<1>2. \A x \in F : \A y \in Node : y \notin P(x)
  BY DEF Balances
<1>3. \A R \in SUBSET Node : R # {} => \E x \in R : P(x) \cap R = {}
  BY DEF Acyclic
<1> HIDE DEF P, Q
<1>4. CASE S \cap F = {}
  <2>1. PICK x \in S : P(x) \cap S = {}
    BY <1>3
  <2>2. ASSUME NEW y \in S, y \in Q(x) PROVE FALSE
    BY <2>1, <2>2, <1>1, <1>4
  <2> QED
    BY <2>2
<1>5. CASE S \cap F # {}
  <2>1. S \cap F \in SUBSET (0 .. MaxNode)
    BY MaxNodeAssumption DEF Node
  <2>2. PICK l \in S \cap F : \A y \in S \cap F : y <= l
    BY <2>1, <1>5, LargestNumber, MaxNodeAssumption
  <2>3. \A y \in S \cap F : ~(l < y)
    BY <2>1, <2>2
  <2>4. PICK x \in (S \ F) \cup {n} : P(x) \cap ((S \ F) \cup {n}) = {}
    BY <1>3
  <2>5. CASE x = n /\ n \notin S
    <3>1. ASSUME NEW y \in S, y \in Q(l) PROVE FALSE
      BY <3>1, <2>2, <2>3, <2>5, <1>1, <1>2
    <3> QED
      BY <3>1, <2>2
  <2>6. CASE x # n \/ n \in S
    <3>1. x \in S /\ x \notin F /\ n \notin P(x)
      BY <2>4, <2>6
    <3>2. ASSUME NEW y \in S, y \in Q(x) PROVE FALSE
      BY <3>1, <3>2, <2>4, <1>1
    <3> QED
      BY <3>1, <3>2
  <2> QED
    BY <2>5, <2>6
<1> QED
  BY <1>4, <1>5
-----------------------------------------------------------------------------
(* The rewriters, one by one                                               *)

\* The two directions of the edges of a sound graph.
LEMMA SoundEdges ==
  ASSUME NEW h, Sound(h), NEW forward \in BOOLEAN
  PROVE  /\ h.alive \subseteq Node
         /\ \A n, s \in Node : s \in Succs(h, forward, n) <=> n \in Preds(h, forward, s)
         /\ \A n, m \in Node : n \in Preds(h, FALSE, m) <=> m \in Preds(h, TRUE, n)
         /\ \A n, m \in Node : m \in Preds(h, TRUE, n) => n \in h.alive /\ m \in h.alive
         /\ \A n \in Node : IsNone(h.operands[n]) <=> Preds(h, TRUE, n) = {}
         /\ \A n \in Node : IsNone(h.uses[n]) <=> Preds(h, FALSE, n) = {}
         /\ Roots(h, forward) \subseteq h.alive
         /\ \A s \in Roots(h, forward) : Preds(h, forward, s) = {}
<1>1. PICK det, ret \in SUBSET Node : Settled(h, det, ret)
  BY DEF Sound
<1>2. /\ h.alive \subseteq Node
      /\ \A n, m \in Node : n \in Preds(h, FALSE, m) <=> m \in Preds(h, TRUE, n)
      /\ \A n, m \in Node : m \in Preds(h, TRUE, n) => n \in h.alive /\ m \in h.alive
      /\ \A n \in Node : n \in h.sinks <=> n \in h.alive /\ IsNone(h.uses[n]) /\ n \notin ret
      /\ \A n \in Node : n \in h.sources <=> n \in h.alive /\ IsNone(h.operands[n]) /\ n \notin det
      /\ h.sinks \subseteq Node /\ h.sources \subseteq Node
      /\ \A n \in Node : IsNone(h.operands[n]) <=> Preds(h, TRUE, n) = {}
      /\ \A n \in Node : IsNone(h.uses[n]) <=> Preds(h, FALSE, n) = {}
  BY <1>1, SettledFacts
<1>e. \A n, m \in Node : n \in Preds(h, FALSE, m) <=> m \in Preds(h, TRUE, n)
  BY <1>2
<1>f. /\ h.sources \subseteq h.alive /\ h.sinks \subseteq h.alive
      /\ \A s \in h.sources : Preds(h, TRUE, s) = {}
      /\ \A s \in h.sinks : Preds(h, FALSE, s) = {}
  BY <1>2
<1>3. ASSUME forward = TRUE
      PROVE  /\ \A n, s \in Node : s \in Succs(h, forward, n) <=> n \in Preds(h, forward, s)
             /\ Roots(h, forward) \subseteq h.alive
             /\ \A s \in Roots(h, forward) : Preds(h, forward, s) = {}
  <2>1. \A n : Succs(h, forward, n) = Preds(h, FALSE, n)
    BY <1>3 DEF Succs
  <2>2. \A n : Preds(h, forward, n) = Preds(h, TRUE, n)
    BY <1>3
  <2>3. Roots(h, forward) = h.sources
    BY <1>3 DEF Roots
  <2>4. ASSUME NEW n \in Node, NEW s \in Node
        PROVE  s \in Succs(h, forward, n) <=> n \in Preds(h, forward, s)
    BY <2>1, <2>2, <1>e, Zenon
  <2>5. \A s \in Roots(h, forward) : Preds(h, forward, s) = {}
    BY <2>2, <2>3, <1>f, Zenon
  <2>6. Roots(h, forward) \subseteq h.alive
    BY <2>3, <1>f
  <2> QED
    BY <2>4, <2>5, <2>6
<1>4. ASSUME forward = FALSE
      PROVE  /\ \A n, s \in Node : s \in Succs(h, forward, n) <=> n \in Preds(h, forward, s)
             /\ Roots(h, forward) \subseteq h.alive
             /\ \A s \in Roots(h, forward) : Preds(h, forward, s) = {}
  <2>1. \A n : Succs(h, forward, n) = Preds(h, TRUE, n)
    BY <1>4 DEF Succs
  <2>2. \A n : Preds(h, forward, n) = Preds(h, FALSE, n)
    BY <1>4
  <2>3. Roots(h, forward) = h.sinks
    BY <1>4 DEF Roots
  <2>4. ASSUME NEW n \in Node, NEW s \in Node
        PROVE  s \in Succs(h, forward, n) <=> n \in Preds(h, forward, s)
    BY <2>1, <2>2, <1>e, Zenon
  <2>5. \A s \in Roots(h, forward) : Preds(h, forward, s) = {}
    BY <2>2, <2>3, <1>f, Zenon
  <2>6. Roots(h, forward) \subseteq h.alive
    BY <2>3, <1>f
  <2> QED
    BY <2>4, <2>5, <2>6
<1>5. /\ \A n, s \in Node : s \in Succs(h, forward, n) <=> n \in Preds(h, forward, s)
      /\ Roots(h, forward) \subseteq h.alive
      /\ \A s \in Roots(h, forward) : Preds(h, forward, s) = {}
  BY <1>3, <1>4
<1> QED
  BY <1>2, <1>5

\* A rewriter that reads is gentle.
LEMMA ReadingGentle ==
  ASSUME NEW h, Sound(h), NEW forward \in BOOLEAN, NEW T, NEW E, NEW V,
         InOrder(T, h, forward, E, V), NEW n \in T.todo
  PROVE  Gentle(T, h, h, forward, E, n, TRUE)
<1>1. /\ h.alive \subseteq Node /\ n \in Node
      /\ Roots(h, forward) \subseteq T.ready
      /\ \A s \in E \ T.ready :
           Preds(h, forward, s) \subseteq (Preds(h, forward, s) \ {n}) \cup {n}
  BY DEF InOrder
<1>2. \A s \in Node : s \in Succs(h, forward, n) <=> n \in Preds(h, forward, s)
  BY <1>1, SoundEdges
<1>3. Roots(h, forward) \ T.ready = {}
  BY <1>1
<1> QED
  BY <1>1, <1>2, <1>3 DEF Gentle

\* What the clean pass leaves of a node without uses.
LEMMA CleanedGraph ==
  ASSUME NEW h, Sound(h), NEW n \in h.alive, IsNone(h.uses[n])
  PROVE  LET f == CleanNode(h, n) IN
         /\ Sound(f) /\ f.alive = h.alive
         /\ \A x \in Node : Preds(f, TRUE, x) = IF x = n THEN {} ELSE Preds(h, TRUE, x)
         /\ \A x \in Node : Preds(f, FALSE, x) = Preds(h, FALSE, x) \ {n}
         /\ n \notin f.sources /\ n \notin f.sinks
         /\ f.sources \subseteq h.sources
         /\ \A x \in f.sinks : x \in h.sinks \/ x \in Preds(h, TRUE, n)
<1> DEFINE f == CleanNode(h, n)
<1>1. PICK det, ret \in SUBSET Node : Settled(h, det, ret)
  BY DEF Sound
<1>2. GraphInv(h, det, ret) /\ ret \subseteq det /\ det \subseteq h.alive
      /\ \A x \in det : IsNone(h.uses[x])
  BY <1>1 DEF Settled
<1>3. /\ h.alive \subseteq Node /\ n \in Node
      /\ h.operands \in [Node -> Bag] /\ h.uses \in [Node -> Bag]
      /\ \A x, m \in Node : x \in Preds(h, FALSE, m) <=> m \in Preds(h, TRUE, x)
      /\ \A x \in Node : x \in h.sinks <=> x \in h.alive /\ IsNone(h.uses[x]) /\ x \notin ret
      /\ \A x \in Node : IsNone(h.uses[x]) <=> Preds(h, FALSE, x) = {}
  BY <1>1, SettledFacts
<1>4. /\ f.alive = h.alive
      /\ f.operands = [h.operands EXCEPT ![n] = NoNodes]
      /\ f.uses = UsesMinus(h.uses, n, h.operands[n])
      /\ f.sources = h.sources \ {n}
      /\ n \notin f.sinks
  BY DEF CleanNode, EraseAllOperand
<1>5. GraphInv(f, det \cup {n}, ret \cup {n})
  BY <1>2, CleanNodeInv
<1>6. \A x, k \in Node : f.uses[x][k] = IF k = n THEN 0 ELSE h.uses[x][k]
  BY <1>2, <1>4, DropAllEntry
<1> HIDE DEF f
<1>7. \A x, y \in Node : f.operands[x][y] = IF x = n THEN 0 ELSE h.operands[x][y]
  BY <1>3, <1>4, BagFacts
<1>8. \A x \in Node : Preds(f, TRUE, x) = IF x = n THEN {} ELSE Preds(h, TRUE, x)
  BY <1>7 DEF Preds
<1>9. \A x \in Node : Preds(f, FALSE, x) = Preds(h, FALSE, x) \ {n}
  BY <1>6 DEF Preds
<1>10. \A x \in det \cup {n} : IsNone(f.uses[x])
  <2>1. \A x \in det \cup {n} : x \in Node /\ IsNone(h.uses[x])
    BY <1>2, <1>3
  <2> QED
    BY <2>1, <1>6 DEF IsNone
<1>11. Settled(f, det \cup {n}, ret \cup {n})
  BY <1>2, <1>4, <1>5, <1>10 DEF Settled
<1>12. ASSUME NEW forward \in BOOLEAN PROVE Acyclic(f, forward)
  <2>1. Acyclic(h, forward)
    BY DEF Sound
  <2>2. CASE forward = TRUE
    <3>1. \A x \in Node : Preds(f, TRUE, x) \subseteq Preds(h, TRUE, x)
      BY <1>8
    <3>2. Acyclic(h, TRUE)
      BY <2>1, <2>2
    <3>3. Acyclic(f, TRUE)
      BY <3>1, <3>2, FewerEdges
    <3> QED
      BY <3>3, <2>2
  <2>3. CASE forward = FALSE
    <3>1. \A x \in Node : Preds(f, FALSE, x) \subseteq Preds(h, FALSE, x)
      BY <1>9
    <3>2. Acyclic(h, FALSE)
      BY <2>1, <2>3
    <3>3. Acyclic(f, FALSE)
      BY <3>1, <3>2, FewerEdges
    <3> QED
      BY <3>3, <2>3
  <2> QED
    BY <2>2, <2>3
<1>13. Sound(f)
  <2>1. det \cup {n} \in SUBSET Node /\ ret \cup {n} \in SUBSET Node
    BY <1>3
  <2> QED
    BY <2>1, <1>11, <1>12 DEF Sound
<1>14. ASSUME NEW x \in f.sinks PROVE x \in h.sinks \/ x \in Preds(h, TRUE, n)
  <2>00. DEFINE S == ret \cup {n}
                D == det \cup {n}
  <2>01. Settled(f, D, S)
    BY <1>11
  <2> HIDE DEF S, D
  <2>02. /\ f.sinks \subseteq Node
         /\ \A y \in Node : y \in f.sinks <=> y \in f.alive /\ IsNone(f.uses[y]) /\ y \notin S
         /\ \A y \in Node : IsNone(f.uses[y]) <=> Preds(f, FALSE, y) = {}
    BY <2>01, SettledFacts
  <2>0. /\ f.sinks \subseteq Node
        /\ \A y \in Node : y \in f.sinks => y \in f.alive /\ IsNone(f.uses[y]) /\ y \notin ret
        /\ \A y \in Node : IsNone(f.uses[y]) <=> Preds(f, FALSE, y) = {}
    BY <2>02 DEF S
  <2>1. x \in Node /\ x \in f.alive /\ x \notin ret
    BY <2>0
  <2>2. Preds(f, FALSE, x) = {}
    BY <2>0
  <2>3. Preds(h, FALSE, x) = {} \/ n \in Preds(h, FALSE, x)
    BY <2>1, <2>2, <1>9
  <2> QED
    BY <2>1, <2>3, <1>3, <1>4
<1> QED
  BY <1>4, <1>8, <1>9, <1>13, <1>14 DEF f

\* A graph is settled if the detached nodes are nobody's operands.
LEMMA SettledAgain ==
  ASSUME NEW f, NEW det, NEW ret, GraphInv(f, det, ret),
         ret \subseteq det, det \subseteq f.alive,
         \A d \in det : \A x \in Node : d \notin Preds(f, TRUE, x)
  PROVE  Settled(f, det, ret)
<1>1. /\ det \subseteq Node /\ f.operands \in [Node -> Bag]
      /\ \A x, d \in Node : f.uses[d][x] = f.operands[x][d]
  BY DEF GraphInv, Typed, Mirror, HistoryIdle
<1>2. ASSUME NEW d \in det, NEW x \in Node PROVE f.uses[d][x] = 0
  <2>1. f.operands[x][d] \in Nat /\ ~(f.operands[x][d] > 0)
    BY <1>1 DEF Preds, Bag
  <2> QED
    BY <2>1, <1>1
<1> QED
  BY <1>2 DEF Settled, IsNone

\* The two directions of a settled graph say the same.
LEMMA SettledSound ==
  ASSUME NEW f, NEW det \in SUBSET Node, NEW ret \in SUBSET Node, Settled(f, det, ret),
         Acyclic(f, TRUE), Acyclic(f, FALSE)
  PROVE  Sound(f)
<1>1. \A forward \in BOOLEAN : Acyclic(f, forward)
  <2> SUFFICES ASSUME NEW forward \in BOOLEAN PROVE Acyclic(f, forward)
    OBVIOUS
  <2>1. CASE forward = TRUE
    BY <2>1
  <2>2. CASE forward = FALSE
    BY <2>2
  <2> QED
    BY <2>1, <2>2
<1> QED
  BY <1>1 DEF Sound

\* The operands of a node.
Below(h, x) == Preds(h, TRUE, x)

(* From h to f the node n handed its operands over to its user u, once, in *)
(* its own place; and it is as it was, or it was emptied and has no user.  *)
Handed(h, f, n, u) ==
  /\ f.operands \in [Node -> Bag]
  /\ \A x \in Node \ {n, u} : f.operands[x] = h.operands[x]
  /\ \A m \in Node : f.operands[u][m] =
        (IF m = n THEN h.operands[u][m] - 1 ELSE h.operands[u][m]) + h.operands[n][m]
  /\ \/ f.operands[n] = h.operands[n]
     \/ IsNone(f.operands[n]) /\ \A x \in Node : n \notin Below(f, x)

\* What merging leaves of a graph: the user is over what the node was over.
LEMMA MergedGraph ==
  ASSUME Sound(g), NEW n \in Node, NEW u \in Elements(g.uses[n]),
         ~IsNone(g.operands[n])
  PROVE  LET f == Merged(n, u) IN
         /\ Sound(f) /\ f.alive = g.alive /\ u # n
         /\ \A x \in Node \ {n, u} : Preds(f, TRUE, x) = Preds(g, TRUE, x)
         /\ Preds(f, TRUE, n) \subseteq Preds(g, TRUE, n)
         /\ Preds(f, TRUE, u) \subseteq Preds(g, TRUE, u) \cup Preds(g, TRUE, n)
         /\ f.sources \subseteq g.sources
         /\ u \in Node /\ g.operands[u][n] > 0 /\ Handed(g, f, n, u)
<1> DEFINE b == g.operands[n]
           e == EraseOperand(g, u, n)
           a == AddOperands(e, u, b)
           f == Merged(n, u)
           MergeFacts(det, ret) ==
             /\ f.alive = g.alive /\ f.sources \subseteq g.sources
             /\ \A x \in Node \ {n, u} : Preds(f, TRUE, x) = Preds(g, TRUE, x)
             /\ Preds(f, TRUE, n) \subseteq Preds(g, TRUE, n)
             /\ Preds(f, TRUE, u) \subseteq Preds(g, TRUE, u) \cup Preds(g, TRUE, n)
             /\ Handed(g, f, n, u)
             /\ \E D \in {det, det \cup {n}} :
                   /\ GraphInv(f, D, ret)
                   /\ n \in D => \A x \in Node : n \notin Preds(f, TRUE, x)
<1>1. PICK det, ret \in SUBSET Node : Settled(g, det, ret)
  BY DEF Sound
<1>2. GraphInv(g, det, ret) /\ ret \subseteq det /\ det \subseteq g.alive
  BY <1>1 DEF Settled
<1>3. /\ g.alive \subseteq Node /\ g.operands \in [Node -> Bag]
      /\ \A x, m \in Node : g.uses[m][x] = g.operands[x][m]
      /\ \A x, m \in Node : x \in Preds(g, FALSE, m) <=> m \in Preds(g, TRUE, x)
      /\ \A x, m \in Node : m \in Preds(g, TRUE, x) =>
            x \in g.alive \ det /\ m \in g.alive \ det
      /\ \A x \in Node : IsNone(g.operands[x]) <=> Preds(g, TRUE, x) = {}
      /\ g.sources \subseteq Node
  BY <1>1, SettledFacts
<1>4. u \in Node /\ g.operands[u][n] > 0 /\ n \in Preds(g, TRUE, u)
  BY <1>3 DEF Elements, Preds
<1>5. u # n
  <2>1. Acyclic(g, TRUE)
    BY DEF Sound
  <2>2. \E x \in {n} : Preds(g, TRUE, x) \cap {n} = {}
    BY <2>1 DEF Acyclic
  <2> QED
    BY <2>2, <1>4
<1>6. /\ b \in Bag /\ ~IsNone(b)
      /\ Elements(b) = Preds(g, TRUE, n)
      /\ Elements(b) \subseteq g.alive \ det
      /\ u \in g.alive \ det /\ n \in g.alive \ det
  <2>1. Elements(b) = Preds(g, TRUE, n)
    BY DEF Elements, Preds
  <2>2. Elements(b) \subseteq Node
    BY DEF Elements
  <2>3. Elements(b) \subseteq g.alive \ det
    <3>1. ASSUME NEW m \in Preds(g, TRUE, n) PROVE m \in g.alive \ det
      <4>1. m \in Node
        BY DEF Preds
      <4> QED
        BY <4>1, <1>3
    <3> QED
      BY <3>1, <2>1
  <2>4. u \in g.alive \ det /\ n \in g.alive \ det
    BY <1>3, <1>4
  <2>5. b \in Bag /\ ~IsNone(b)
    BY <1>3
  <2> QED
    BY <2>1, <2>3, <2>4, <2>5
<1>7. /\ GraphInv(e, det, ret) /\ e.alive = g.alive
      /\ e.operands = [g.operands EXCEPT ![u] = [g.operands[u] EXCEPT ![n] = @ - 1]]
      /\ e.sources \subseteq g.sources \cup {u}
  <2>1. GraphInv(e, det, ret)
    BY <1>2, <1>4, EraseOperandInv
  <2> QED
    BY <2>1 DEF EraseOperand
<1> HIDE DEF e
<1>8. /\ GraphInv(a, det, ret) /\ a.alive = g.alive
      /\ a.operands = [e.operands EXCEPT ![u] = [m \in Node |-> @[m] + b[m]]]
      /\ a.sources \subseteq g.sources
  <2>1. GraphInv(a, det \ {u}, ret \ Elements(b))
    <3>1. u \in e.alive /\ Elements(b) \subseteq e.alive
      BY <1>6, <1>7
    <3> QED
      BY <3>1, <1>6, <1>7, AddOperandsInv
  <2>2. det \ {u} = det /\ ret \ Elements(b) = ret
    BY <1>2, <1>6
  <2>3. a.alive = e.alive
    BY DEF AddOperands
  <2>4. a.operands = [e.operands EXCEPT ![u] = [m \in Node |-> @[m] + b[m]]]
    BY DEF AddOperands
  <2>5. a.sources = e.sources \ {u}
    BY <1>6 DEF AddOperands
  <2> QED
    BY <2>1, <2>2, <2>3, <2>4, <2>5, <1>7
<1>9. f = IF IsNone(a.uses[n]) THEN EraseAllOperand(a, n) ELSE a
  BY DEF Merged, e
<1> HIDE DEF a, f
<1>10. /\ \A x \in Node \ {u} : a.operands[x] = g.operands[x]
       /\ \A m \in Node : a.operands[u][m] > 0 => g.operands[u][m] > 0 \/ b[m] > 0
       /\ \A m \in Node : a.operands[u][m] =
             (IF m = n THEN g.operands[u][m] - 1 ELSE g.operands[u][m]) + b[m]
       /\ a.operands \in [Node -> Bag]
  <2>1. a.operands[u] = [m \in Node |-> [g.operands[u] EXCEPT ![n] = @ - 1][m] + b[m]]
    BY <1>3, <1>4, <1>7, <1>8
  <2>2. \A x \in Node \ {u} : a.operands[x] = g.operands[x]
    BY <1>3, <1>7, <1>8
  <2>3. g.operands[u] \in Bag
    BY <1>3, <1>4
  <2>4. \A m \in Node : g.operands[u][m] \in Nat /\ b[m] \in Nat
    BY <2>3, <1>6 DEF Bag
  <2>5. \A m \in Node : a.operands[u][m] =
           (IF m = n THEN g.operands[u][m] - 1 ELSE g.operands[u][m]) + b[m]
    BY <2>1, <2>3 DEF Bag
  <2>6. a.operands \in [Node -> Bag]
    BY <1>8 DEF GraphInv, Typed
  <2> QED
    BY <2>2, <2>4, <2>5, <2>6
<1>11. ASSUME ~IsNone(a.uses[n]) PROVE MergeFacts(det, ret)
  <2>1. f = a
    BY <1>9, <1>11
  <2>2. /\ \A x \in Node \ {n, u} : Preds(f, TRUE, x) = Preds(g, TRUE, x)
        /\ Preds(f, TRUE, n) \subseteq Preds(g, TRUE, n)
        /\ Preds(f, TRUE, u) \subseteq Preds(g, TRUE, u) \cup Preds(g, TRUE, n)
    BY <2>1, <1>4, <1>5, <1>10 DEF Preds
  <2>3. GraphInv(f, det, ret) /\ f.alive = g.alive /\ f.sources \subseteq g.sources
    BY <2>1, <1>8
  <2>4. n \notin det
    BY <1>6
  <2>5. Handed(g, f, n, u)
    BY <2>1, <1>4, <1>5, <1>10 DEF Handed
  <2> QED
    BY <2>2, <2>3, <2>4, <2>5 DEF MergeFacts
<1>12. ASSUME IsNone(a.uses[n]) PROVE MergeFacts(det, ret)
  <2>1. f = EraseAllOperand(a, n)
    BY <1>9, <1>12
  <2>2. a.operands[n] = b /\ n \in a.alive
    BY <1>5, <1>6, <1>8, <1>10
  <2>3. GraphInv(f, det \cup {n}, ret)
    BY <2>1, <2>2, <1>6, <1>8, EraseAllOperandInv
  <2>4. /\ f.alive = g.alive /\ f.sources \subseteq g.sources
        /\ f.operands = [a.operands EXCEPT ![n] = NoNodes]
    BY <2>1, <1>8 DEF EraseAllOperand
  <2>5. a.operands \in [Node -> Bag] /\ \A x \in Node : a.uses[n][x] = a.operands[x][n]
    BY <1>8 DEF GraphInv, Typed, Mirror
  <2>6. /\ \A x \in Node \ {n} : f.operands[x] = a.operands[x]
        /\ \A m \in Node : f.operands[n][m] = 0
    BY <2>4, <2>5, BagFacts
  <2>7. /\ \A x \in Node \ {n, u} : Preds(f, TRUE, x) = Preds(g, TRUE, x)
        /\ Preds(f, TRUE, n) \subseteq Preds(g, TRUE, n)
        /\ Preds(f, TRUE, u) \subseteq Preds(g, TRUE, u) \cup Preds(g, TRUE, n)
    BY <2>6, <1>4, <1>5, <1>10 DEF Preds
  <2>8. \A x \in Node : f.operands[x][n] = 0
    BY <2>5, <2>6, <1>12 DEF IsNone
  <2>9. \A x \in Node : n \notin Preds(f, TRUE, x)
    BY <2>8 DEF Preds
  <2>10. Handed(g, f, n, u)
    <3>1. f.operands \in [Node -> Bag]
      BY <2>3 DEF GraphInv, Typed
    <3>2. IsNone(f.operands[n]) /\ \A x \in Node : n \notin Below(f, x)
      BY <2>6, <2>9 DEF IsNone, Below
    <3>3. /\ \A x \in Node \ {n, u} : f.operands[x] = g.operands[x]
          /\ \A m \in Node : f.operands[u][m] =
                (IF m = n THEN g.operands[u][m] - 1 ELSE g.operands[u][m]) + g.operands[n][m]
      BY <2>6, <1>4, <1>5, <1>10
    <3> QED
      BY <3>1, <3>2, <3>3 DEF Handed
  <2> QED
    BY <2>3, <2>4, <2>7, <2>9, <2>10 DEF MergeFacts
<1>13. PICK D \in {det, det \cup {n}} :
          GraphInv(f, D, ret) /\ (n \in D => \A x \in Node : n \notin Preds(f, TRUE, x))
  BY <1>11, <1>12 DEF MergeFacts
<1>14. /\ f.alive = g.alive /\ f.sources \subseteq g.sources
       /\ \A x \in Node \ {n, u} : Preds(f, TRUE, x) = Preds(g, TRUE, x)
       /\ Preds(f, TRUE, n) \subseteq Preds(g, TRUE, n)
       /\ Preds(f, TRUE, u) \subseteq Preds(g, TRUE, u) \cup Preds(g, TRUE, n)
       /\ Handed(g, f, n, u)
  BY <1>11, <1>12 DEF MergeFacts
<1>e. ASSUME NEW x \in Node, NEW y \in Preds(f, TRUE, x)
      PROVE  y \in Preds(g, TRUE, x) \/ (x = u /\ y \in Preds(g, TRUE, n))
  <2>1. CASE x = n
    BY <2>1, <1>14
  <2>2. CASE x = u
    BY <2>2, <1>14
  <2>3. CASE x \notin {n, u}
    BY <2>3, <1>14
  <2> QED
    BY <2>1, <2>2, <2>3
<1>15. Settled(f, D, ret)
  <2>1. ret \subseteq D /\ D \subseteq f.alive
    BY <1>2, <1>6, <1>13, <1>14
  <2>2. ASSUME NEW d \in det, NEW x \in Node PROVE d \notin Preds(f, TRUE, x)
    <3>1. d \in Node
      BY <1>2, <1>3
    <3>2. Preds(f, TRUE, x) \subseteq Preds(g, TRUE, x) \cup Preds(g, TRUE, n)
      BY <1>14
    <3> QED
      BY <3>1, <3>2, <1>3
  <2>3. \A d \in D : \A x \in Node : d \notin Preds(f, TRUE, x)
    BY <2>2, <1>13
  <2> QED
    BY <2>1, <2>3, <1>13, SettledAgain
<1>16. \A x, m \in Node : x \in Preds(f, FALSE, m) <=> m \in Preds(f, TRUE, x)
  BY <1>15, SettledFacts
<1>17. Acyclic(f, TRUE)
  <2>1. Acyclic(g, TRUE)
    BY DEF Sound
  <2>2. \A x \in Node : \A y \in Preds(f, TRUE, x) :
           \/ y \in Preds(g, TRUE, x)
           \/ n \in Preds(g, TRUE, x) /\ y \in Preds(g, TRUE, n)
    BY <1>4, <1>e
  <2> QED
    BY <2>1, <2>2, ShortcutAcyclic
<1>18. Acyclic(f, FALSE)
  <2>1. Acyclic(g, FALSE)
    BY DEF Sound
  <2>2. ASSUME NEW x \in Node, NEW y \in Preds(f, FALSE, x)
        PROVE  \/ y \in Preds(g, FALSE, x)
               \/ n \in Preds(g, FALSE, x) /\ y \in Preds(g, FALSE, n)
    <3>1. y \in Node /\ x \in Preds(f, TRUE, y)
      BY <2>2, <1>16 DEF Preds
    <3>2. x \in Preds(g, TRUE, y) \/ (y = u /\ x \in Preds(g, TRUE, n))
      BY <3>1, <1>e
    <3> QED
      BY <3>1, <3>2, <1>3, <1>4
  <2> QED
    BY <2>1, <2>2, ShortcutAcyclic
<1>19. Sound(f)
  <2>1. D \in SUBSET Node
    BY <1>2, <1>3, <1>13
  <2> QED
    BY <2>1, <1>15, <1>17, <1>18, SettledSound
<1> QED
  BY <1>4, <1>5, <1>14, <1>19 DEF f

\* Merging is gentle: the open user is over processed nodes instead.
LEMMA MergingGentle ==
  ASSUME Sound(g), NEW T, NEW E, NEW V, InOrder(T, g, TRUE, E, V), NEW n \in T.todo,
         NEW u \in Elements(g.uses[n]), ~IsNone(g.operands[n])
  PROVE  Gentle(T, g, Merged(n, u), TRUE, E, n, TRUE)
<1> DEFINE f == Merged(n, u)
           open == OpenNodes(T, E)
           P(x) == Preds(g, TRUE, x)
           Q(x) == Preds(f, TRUE, x)
<1>1. /\ T.ready = T.todo \cup V /\ T.todo \cap V = {} /\ T.processed \subseteq V
      /\ T.ready \subseteq g.alive /\ g.alive \subseteq Node
      /\ g.sources \subseteq T.ready
      /\ \A s \in Node : P(s) \cap open # {} => s \in E \ T.ready
      /\ \A s \in T.todo : P(s) \subseteq T.processed
  BY DEF InOrder, Roots
<1>2. n \in Node /\ n \in open
  BY <1>1 DEF OpenNodes
<1>3. /\ f.alive = g.alive /\ u # n
      /\ \A x \in Node \ {n, u} : Q(x) = P(x)
      /\ Q(n) \subseteq P(n)
      /\ Q(u) \subseteq P(u) \cup P(n)
      /\ f.sources \subseteq g.sources
      /\ Sound(f)
  BY <1>2, MergedGraph
<1>4. /\ \A s \in Node : s \in Succs(g, TRUE, n) <=> n \in P(s)
      /\ \A s \in Node : s \in Succs(f, TRUE, n) <=> n \in Q(s)
      /\ Succs(g, TRUE, n) \subseteq Node /\ Succs(f, TRUE, n) \subseteq Node
      /\ u \in Succs(g, TRUE, n)
  <2>1. \A s \in Node : s \in Succs(g, TRUE, n) <=> n \in P(s)
    BY <1>2, SoundEdges
  <2>2. \A s \in Node : s \in Succs(f, TRUE, n) <=> n \in Q(s)
    BY <1>2, <1>3, SoundEdges
  <2>3. u \in Succs(g, TRUE, n)
    BY DEF Succs, Preds, Elements
  <2> QED
    BY <2>1, <2>2, <2>3 DEF Succs, Preds
<1>5. /\ \A s : P(s) \subseteq Node
      /\ \A s : Q(s) \subseteq Node
  BY DEF Preds
<1> HIDE DEF f, P, Q
<1>6. Roots(f, TRUE) \ T.ready = {}
  BY <1>1, <1>3 DEF Roots
<1>7. u \in E \ T.ready /\ u \in Node /\ n \in P(u)
  BY <1>1, <1>2, <1>4
<1>8. P(n) \subseteq T.processed /\ T.processed \cap open = {}
  <2>1. T.processed \subseteq T.ready /\ T.processed \cap T.todo = {}
    BY <1>1
  <2> QED
    BY <1>1, <2>1 DEF OpenNodes
<1>9. \A s \in Node : Q(s) \cap (open \ {n}) \subseteq P(s)
  BY <1>3, <1>8
<1>10. \A s \in T.todo \ {n} : Q(s) \subseteq P(s)
  BY <1>1, <1>3, <1>7
<1>11. ASSUME NEW s \in E \ T.ready
       PROVE  /\ Q(s) \subseteq (P(s) \ {n}) \cup T.processed \cup {n}
              /\ n \notin P(s) => P(s) \subseteq Q(s)
  <2>1. s # n /\ s \in Node
    BY <1>1, <1>2, <1>7 DEF InOrder
  <2>2. CASE s = u
    BY <2>2, <1>3, <1>7, <1>8
  <2>3. CASE s # u
    BY <2>1, <2>3, <1>3
  <2> QED
    BY <2>2, <2>3
<1>12. Succs(f, TRUE, n) \subseteq Succs(g, TRUE, n)
  <2>1. ASSUME NEW s \in Succs(f, TRUE, n) PROVE s \in Succs(g, TRUE, n)
    <3>1. s \in Node /\ n \in Q(s)
      BY <1>4
    <3>2. s = u \/ n \in P(s)
      BY <3>1, <1>3
    <3> QED
      BY <3>1, <3>2, <1>4
  <2> QED
    BY <2>1
<1> QED
  BY <1>1, <1>3, <1>4, <1>6, <1>9, <1>10, <1>11, <1>12 DEF Gentle, P, Q, f

\* All the occurrences of a node are replaced by occurrences of another one.
Renamed(b, old, new, d) ==
  \A m \in Node : d[m] = IF m = old THEN 0 ELSE IF m = new THEN b[new] + b[old] ELSE b[m]

(* From h to f the node n was replaced, in all operands, by the node c,    *)
(* which was nobody's operand and had none.                                *)
Substituted(h, f, n, c) ==
  /\ f.operands \in [Node -> Bag]
  /\ \A x \in Node : Renamed(h.operands[x], n, c, f.operands[x])
  /\ \A x \in Node : h.operands[x][c] = 0 /\ h.operands[c][x] = 0

\* f is the graph h after all uses of n went to a new node c.
Folding(h, f, n, c) == f = ReplaceUses(NewNode(h, c), n, c, Elements(h.uses[n]))

\* What folding leaves of a graph: a new source in the place of the node.
LEMMA FoldedGraph ==
  ASSUME NEW h, NEW f, NEW n \in h.alive, NEW c \in Node, c \notin h.alive,
         Sound(h), Folding(h, f, n, c)
  PROVE  /\ Sound(f) /\ f.alive = h.alive \cup {c}
         /\ \A x \in Node : n \notin Below(h, x) => Below(f, x) = Below(h, x)
         /\ \A x \in Node : n \in Below(h, x) =>
               Below(f, x) = (Below(h, x) \ {n}) \cup {c}
         /\ Below(f, c) = {}
         /\ f.sources = h.sources \cup {c}
         /\ Substituted(h, f, n, c)
<1> DEFINE e == NewNode(h, c)
           S == Elements(h.uses[n])
<1>0. f = ReplaceUses(e, n, c, S)
  BY DEF Folding
<1>1. PICK det, ret \in SUBSET Node : Settled(h, det, ret)
  BY DEF Sound
<1>2. GraphInv(h, det, ret) /\ ret \subseteq det /\ det \subseteq h.alive
  BY <1>1 DEF Settled
<1>3. /\ h.alive \subseteq Node
      /\ h.operands \in [Node -> Bag] /\ h.uses \in [Node -> Bag]
      /\ \A x, m \in Node : h.uses[m][x] = h.operands[x][m]
      /\ \A x, m \in Node : x \in Preds(h, FALSE, m) <=> m \in Preds(h, TRUE, x)
      /\ \A x, m \in Node : m \in Preds(h, TRUE, x) =>
            x \in h.alive \ det /\ m \in h.alive \ det
  BY <1>1, SettledFacts
<1>4. n \in Node /\ n # c /\ c \notin det /\ c \notin ret /\ S \in SUBSET Node
  BY <1>2, <1>3 DEF Elements
<1>5. GraphInv(e, det, ret)
  BY <1>2, <1>4, NewNodeInv
<1>6. /\ e.alive = h.alive \cup {c} /\ e.sources = h.sources \cup {c}
      /\ e.operands = [h.operands EXCEPT ![c] = NoNodes]
      /\ e.uses = [h.uses EXCEPT ![c] = NoNodes]
  BY DEF NewNode
<1>7. e.operands \in [Node -> Bag] /\ e.uses \in [Node -> Bag]
  BY <1>5 DEF GraphInv, Typed
<1>8. \A s \in S : e.uses[n][s] > 0
  BY <1>3, <1>4, <1>6 DEF Elements
<1>9. GraphInv(f, det, ret)
  <2>1. n \in e.alive /\ c \in e.alive /\ ret \ {c} = ret
    BY <1>4, <1>6
  <2> HIDE DEF e, S
  <2>2. GraphInv(ReplaceUses(e, n, c, S), det, IF S = {} THEN ret ELSE ret \ {c})
    BY <2>1, <1>4, <1>5, <1>8, ReplaceUsesInv
  <2> QED
    BY <2>1, <2>2, <1>0
<1>10. /\ f.alive = e.alive /\ f.sources = e.sources
       /\ f.operands = [u \in Node |->
             [e.operands[u] EXCEPT ![n] = @ - (IF u \in S THEN e.operands[u][n] ELSE 0),
                                   ![c] = @ + (IF u \in S THEN e.operands[u][n] ELSE 0)]]
  <2> HIDE DEF e, S
  <2>1. /\ f.alive = e.alive /\ f.sources = e.sources
        /\ f.operands = [u \in Node |->
             [e.operands[u] EXCEPT
                ![n] = @ - [v \in Node |-> IF v \in S THEN e.operands[v][n] ELSE 0][u],
                ![c] = @ + [v \in Node |-> IF v \in S THEN e.operands[v][n] ELSE 0][u]]]
    BY <1>0 DEF ReplaceUses
  <2> QED
    BY <2>1
<1>11. \A x, m \in Node : e.operands[x][m] = IF x = c THEN 0 ELSE h.operands[x][m]
  BY <1>3, <1>6, BagFacts
<1>12. \A x \in Node : x \in S <=> h.operands[x][n] > 0
  BY <1>3, <1>4 DEF Elements
<1>13. \A x \in Node : h.operands[x][c] = 0 /\ h.operands[c][x] = 0
  <2>1. \A x \in Node : c \notin Preds(h, TRUE, x) /\ x \notin Preds(h, TRUE, c)
    BY <1>3
  <2> QED
    BY <2>1, <1>3 DEF Preds, Bag
<1>14. \A x, m \in Node : f.operands[x][m] =
          IF m = n THEN 0 ELSE IF m = c THEN h.operands[x][n] ELSE h.operands[x][m]
  <2> SUFFICES ASSUME NEW x \in Node
               PROVE  \A m \in Node : f.operands[x][m] =
                  IF m = n THEN 0 ELSE IF m = c THEN h.operands[x][n] ELSE h.operands[x][m]
    OBVIOUS
  <2>1. e.operands[x] \in Bag /\ h.operands[x] \in Bag
    BY <1>3, <1>7
  <2>2. e.operands[x] = h.operands[x]
    BY <2>1, <1>11, <1>13 DEF Bag
  <2>3. f.operands[x] = [h.operands[x] EXCEPT
           ![n] = @ - (IF x \in S THEN h.operands[x][n] ELSE 0),
           ![c] = @ + (IF x \in S THEN h.operands[x][n] ELSE 0)]
    BY <1>10, <2>2
  <2>4. (IF x \in S THEN h.operands[x][n] ELSE 0) = h.operands[x][n]
    BY <1>4, <1>12, <2>1 DEF Bag
  <2>5. f.operands[x] = [h.operands[x] EXCEPT ![n] = @ - h.operands[x][n],
                                              ![c] = @ + h.operands[x][n]]
    BY <2>3, <2>4
  <2>6. h.operands[x][n] \in Nat /\ h.operands[x][c] = 0
    BY <1>4, <1>13, <2>1 DEF Bag
  <2> QED
    BY <2>1, <2>5, <2>6, <1>4 DEF Bag
<1>15. \A x \in Node : n \notin Preds(h, TRUE, x) => Preds(f, TRUE, x) = Preds(h, TRUE, x)
  BY <1>4, <1>13, <1>14 DEF Preds
<1>16. \A x \in Node : n \in Preds(h, TRUE, x) =>
          Preds(f, TRUE, x) = (Preds(h, TRUE, x) \ {n}) \cup {c}
  BY <1>4, <1>13, <1>14 DEF Preds
<1>17. Preds(h, TRUE, c) = {} /\ \A x \in Node : c \notin Preds(h, TRUE, x)
  BY <1>13 DEF Preds
<1>18. Preds(f, TRUE, c) = {}
  BY <1>15, <1>17
<1>19. Settled(f, det, ret)
  <2>1. \A x \in Node : Preds(f, TRUE, x) \subseteq Preds(h, TRUE, x) \cup {c}
    BY <1>15, <1>16
  <2>2. ASSUME NEW d \in det, NEW x \in Node PROVE d \notin Preds(f, TRUE, x)
    BY <2>1, <1>3, <1>4
  <2>3. det \subseteq f.alive
    BY <1>2, <1>6, <1>10
  <2> QED
    BY <2>2, <2>3, <1>2, <1>9, SettledAgain
<1>20. \A x, m \in Node : x \in Preds(f, FALSE, m) <=> m \in Preds(f, TRUE, x)
  BY <1>19, SettledFacts
<1>21. Acyclic(f, TRUE)
  <2>1. Acyclic(h, TRUE)
    BY DEF Sound
  <2>2. \A x \in Node \ {c} : Preds(f, TRUE, x) \subseteq Preds(h, TRUE, x) \cup {c}
    BY <1>15, <1>16
  <2>3. Preds(f, TRUE, c) = {} \/ \A x \in Node : c \notin Preds(f, TRUE, x)
    BY <1>18
  <2> QED
    BY <2>1, <2>2, <2>3, EndNodeAcyclic
<1>22. Acyclic(f, FALSE)
  <2>1. Acyclic(h, FALSE)
    BY DEF Sound
  <2>2. ASSUME NEW x \in Node \ {c}, NEW y \in Preds(f, FALSE, x)
        PROVE  y \in Preds(h, FALSE, x)
    <3>1. y \in Node
      BY DEF Preds
    <3>2. x \in Preds(f, TRUE, y)
      BY <3>1, <1>20
    <3>3. x \in Preds(h, TRUE, y)
      BY <3>1, <3>2, <1>15, <1>16
    <3> QED
      BY <3>1, <3>3, <1>3
  <2>3. \A x \in Node \ {c} : Preds(f, FALSE, x) \subseteq Preds(h, FALSE, x) \cup {c}
    BY <2>2
  <2>4. \A x \in Node : c \notin Preds(f, FALSE, x)
    BY <1>18, <1>20
  <2> QED
    BY <2>1, <2>3, <2>4, EndNodeAcyclic
<1>23. Sound(f)
  BY <1>19, <1>21, <1>22, SettledSound
<1>24. Substituted(h, f, n, c)
  <2>1. f.operands \in [Node -> Bag]
    BY <1>9 DEF GraphInv, Typed
  <2>2. ASSUME NEW x \in Node PROVE Renamed(h.operands[x], n, c, f.operands[x])
    <3> DEFINE b == h.operands[x]
    <3>1. b[c] = 0 /\ b[n] \in Nat /\ b[n] = 0 + b[n]
      BY <1>3, <1>4, <1>13 DEF Bag
    <3>2. \A m \in Node : f.operands[x][m] = IF m = n THEN 0 ELSE IF m = c THEN b[n] ELSE b[m]
      BY <1>14
    <3> HIDE DEF b
    <3>3. Renamed(b, n, c, f.operands[x])
      BY <3>1, <3>2 DEF Renamed
    <3> QED
      BY <3>3 DEF b
  <2> QED
    BY <2>1, <2>2, <1>13 DEF Substituted
<1> QED
  BY <1>6, <1>10, <1>15, <1>16, <1>18, <1>23, <1>24, Zenon DEF Below

\* Folding is gentle: the new constant is ready when the open users need it.
LEMMA FoldingGentle ==
  ASSUME NEW h, Sound(h), NEW T, NEW E, NEW V, InOrder(T, h, TRUE, E, V), NEW n \in T.todo,
         NEW c \in Node, c \notin h.alive,
         NEW f, Folding(h, f, n, c)
  PROVE  Gentle(T, h, f, TRUE, E, n, TRUE)
<1> DEFINE open == OpenNodes(T, E)
           P(x) == Preds(h, TRUE, x)
           Q(x) == Preds(f, TRUE, x)
<1>1. /\ T.ready \subseteq h.alive /\ E \subseteq h.alive /\ h.alive \subseteq Node
      /\ T.ready = T.todo \cup V
      /\ h.sources \subseteq T.ready
      /\ \A s \in Node : P(s) \cap open # {} => s \in E \ T.ready
  BY DEF InOrder, Roots
<1>2. n \in h.alive /\ n \in Node /\ n \in open /\ n \in T.ready /\ open \subseteq h.alive
  BY <1>1 DEF OpenNodes
<1>3. /\ Sound(f) /\ f.alive = h.alive \cup {c}
      /\ \A x \in Node : n \notin P(x) => Q(x) = P(x)
      /\ \A x \in Node : n \in P(x) => Q(x) = (P(x) \ {n}) \cup {c}
      /\ Q(c) = {}
      /\ f.sources = h.sources \cup {c}
  <2>1. n \in h.alive
    BY <1>2
  <2> HIDE DEF P, Q, open
  <2>2. /\ Sound(f) /\ f.alive = h.alive \cup {c}
        /\ \A x \in Node : n \notin Below(h, x) => Below(f, x) = Below(h, x)
        /\ \A x \in Node : n \in Below(h, x) =>
              Below(f, x) = (Below(h, x) \ {n}) \cup {c}
        /\ Below(f, c) = {}
        /\ f.sources = h.sources \cup {c}
    BY <2>1, FoldedGraph
  <2> QED
    BY <2>2, Zenon DEF P, Q, Below
<1>4. /\ \A s \in Node : s \in Succs(h, TRUE, n) <=> n \in P(s)
      /\ \A s \in Node : s \in Succs(f, TRUE, n) <=> n \in Q(s)
      /\ Succs(f, TRUE, n) \subseteq Node
  <2>1. \A s \in Node : s \in Succs(h, TRUE, n) <=> n \in P(s)
    BY <1>2, SoundEdges
  <2>2. \A s \in Node : s \in Succs(f, TRUE, n) <=> n \in Q(s)
    BY <1>2, <1>3, SoundEdges
  <2> QED
    BY <2>1, <2>2 DEF Succs, Preds
<1> HIDE DEF P, Q
<1>5. Roots(f, TRUE) \ T.ready = {c}
  BY <1>1, <1>3 DEF Roots
<1>6. c \notin open /\ n # c
  BY <1>2
<1>7. \A s \in Node : n \in P(s) => s \in E \ T.ready
  BY <1>1, <1>2
<1>8. ASSUME NEW s \in Node
      PROVE  /\ c \in Q(s) => s \in E \ T.ready
             /\ Q(s) \cap (open \ {n}) \subseteq P(s)
  <2>1. CASE n \in P(s)
    BY <2>1, <1>3, <1>6, <1>7
  <2>2. CASE n \notin P(s)
    <3>1. Q(s) = P(s)
      BY <2>2, <1>3
    <3>2. c \notin P(s)
      <4>1. \A x \in Node : c \notin Preds(h, TRUE, x)
        BY SoundEdges
      <4> QED
        BY <4>1 DEF P
    <3> QED
      BY <3>1, <3>2
  <2> QED
    BY <2>1, <2>2
<1>9. \A s \in T.todo \ {n} : Q(s) \subseteq P(s)
  BY <1>1, <1>3, <1>7
<1>10. ASSUME NEW s \in E \ T.ready
       PROVE  /\ Q(s) \subseteq (P(s) \ {n}) \cup {c}
              /\ n \notin P(s) => P(s) \subseteq Q(s)
  BY <1>1, <1>3
<1>11. Succs(f, TRUE, n) \subseteq Succs(h, TRUE, n)
  <2>1. \A s \in Node : n \notin Q(s)
    BY <1>3, <1>6
  <2> QED
    BY <2>1, <1>4
<1> DEFINE fresh == Roots(f, TRUE) \ T.ready
<1>f. fresh = {c}
  BY <1>5
<1> HIDE DEF fresh, open
<1>12. h.alive \subseteq f.alive /\ f.alive \subseteq Node /\ fresh \subseteq f.alive
  BY <1>1, <1>3, <1>f
<1>13. \A s \in fresh : Q(s) = {}
  BY <1>3, <1>f
<1>14. \A s \in Node : /\ Q(s) \cap fresh # {} => s \in E \ T.ready
                       /\ Q(s) \cap (open \ {n}) \subseteq P(s)
  BY <1>8, <1>f
<1>15. \A s \in E \ T.ready :
          /\ Q(s) \subseteq (P(s) \ {n}) \cup T.processed \cup fresh \cup (IF TRUE THEN {n} ELSE {})
          /\ n \notin P(s) => P(s) \subseteq Q(s)
  BY <1>10, <1>f
<1>16. \A s \in Node : s \in Succs(h, TRUE, n) <=> n \in P(s)
  BY <1>4
<1> QED
  BY <1>9, <1>11, <1>12, <1>13, <1>14, <1>15, <1>16, Zenon DEF Gentle, P, Q, open, fresh

-----------------------------------------------------------------------------
(* Multisets, and the balancing of a sum                                   *)

\* Accumulating nothing, and one more: what the recursion of Accumulate says.
LEMMA AccumulateSteps ==
  ASSUME NEW f, NEW e, NEW x, NEW k \in Nat
  PROVE  /\ Accumulate(f, e, x, 0) = e
         /\ Accumulate(f, e, x, k + 1) = f[Accumulate(f, e, x, k)][x[k]]
<1> DEFINE Upto(q, j) == q = [i \in 0 .. j |-> IF i = 0 THEN e ELSE f[q[i - 1]][x[i - 1]]]
           Bad == {j \in Nat : ~ \E q : Upto(q, j)}
<1>1. ASSUME Bad # {} PROVE FALSE
  <2>1. PICK j \in Bad : \A i \in Bad : j <= i
    BY <1>1, LeastNumber
  <2>2. j # 0
    <3> DEFINE q == [i \in 0 .. 0 |-> e]
    <3>1. \A i \in 0 .. 0 : i = 0
      OBVIOUS
    <3>2. \A r : q = [i \in 0 .. 0 |-> IF i = 0 THEN e ELSE f[r[i - 1]][x[i - 1]]]
      BY <3>1
    <3>3. Upto(q, 0)
      BY <3>2
    <3> QED
      BY <3>3, <2>1
  <2>3. j - 1 \in Nat /\ ~(j <= j - 1)
    BY <2>1, <2>2
  <2>4. PICK p : Upto(p, j - 1)
    BY <2>1, <2>3
  <2> DEFINE q == [i \in 0 .. j |-> IF i = j THEN f[p[j - 1]][x[j - 1]] ELSE p[i]]
  <2>5. ASSUME NEW i \in 0 .. j
        PROVE  q[i] = IF i = 0 THEN e ELSE f[q[i - 1]][x[i - 1]]
    <3>1. CASE i = 0
      <4>1. 0 \in 0 .. (j - 1) /\ i # j
        BY <2>3, <3>1
      <4>2. p[0] = e
        BY <2>4, <4>1
      <4> QED
        BY <3>1, <4>1, <4>2
    <3>2. CASE i = j
      <4>1. q[i - 1] = p[j - 1] /\ i # 0
        BY <2>3, <3>2
      <4> QED
        BY <3>2, <4>1
    <3>3. CASE i # 0 /\ i # j
      <4>1. i \in 0 .. (j - 1) /\ i - 1 \in 0 .. j /\ i - 1 # j
        BY <2>3, <3>3
      <4>2. q[i] = p[i] /\ q[i - 1] = p[i - 1]
        BY <3>3, <4>1
      <4>3. p[i] = f[p[i - 1]][x[i - 1]]
        BY <2>4, <3>3, <4>1
      <4> QED
        BY <3>3, <4>2, <4>3
    <3> QED
      BY <3>1, <3>2, <3>3
  <2>6. Upto(q, j)
    BY <2>5
  <2> QED
    BY <2>1, <2>6
<1>2. ASSUME NEW j \in Nat
      PROVE  \E q : Upto(q, j) /\ Accumulate(f, e, x, j) = q[j]
  <2> DEFINE q == CHOOSE r : Upto(r, j)
  <2>1. \E r : Upto(r, j)
    BY <1>1
  <2>2. Upto(q, j)
    BY <2>1
  <2>3. Accumulate(f, e, x, j) = q[j]
    BY DEF Accumulate
  <2> HIDE DEF q, Upto
  <2> QED
    BY <2>2, <2>3
<1>3. PICK p : Upto(p, k) /\ Accumulate(f, e, x, k) = p[k]
  BY <1>2
<1>4. k + 1 \in Nat
  OBVIOUS
<1>5. PICK q : Upto(q, k + 1) /\ Accumulate(f, e, x, k + 1) = q[k + 1]
  BY <1>2, <1>4
<1>6. /\ \A i \in 0 .. k : p[i] = IF i = 0 THEN e ELSE f[p[i - 1]][x[i - 1]]
      /\ \A i \in 0 .. (k + 1) : q[i] = IF i = 0 THEN e ELSE f[q[i - 1]][x[i - 1]]
  BY <1>3, <1>5
<1> DEFINE Apart == {i \in 0 .. k : p[i] # q[i]}
<1>7. ASSUME Apart # {} PROVE FALSE
  <2>1. Apart \in SUBSET Nat
    OBVIOUS
  <2>2. PICK i \in Apart : \A j \in Apart : i <= j
    BY <1>7, <2>1, LeastNumber
  <2>3. i \in 0 .. (k + 1) /\ i \in 0 .. k /\ p[i] # q[i]
    OBVIOUS
  <2>4. i # 0
    BY <2>3, <1>6
  <2>5. i - 1 \in 0 .. k /\ ~(i <= i - 1)
    BY <2>3, <2>4
  <2>6. p[i - 1] = q[i - 1]
    BY <2>2, <2>5
  <2> QED
    BY <2>3, <2>4, <2>6, <1>6
<1>8. p[k] = q[k]
  BY <1>7
<1>9. q[k + 1] = f[q[k]][x[k]]
  <2>1. k + 1 \in 0 .. (k + 1) /\ k + 1 # 0 /\ (k + 1) - 1 = k
    OBVIOUS
  <2> QED
    BY <1>6, <2>1
<1>10. Accumulate(f, e, x, 0) = e
  <2>1. PICK r : Upto(r, 0) /\ Accumulate(f, e, x, 0) = r[0]
    BY <1>2
  <2> QED
    BY <2>1
<1> QED
  BY <1>3, <1>5, <1>8, <1>9, <1>10

\* What is accumulated depends on the first k values only.
LEMMA AccumulateSame ==
  ASSUME NEW f, NEW e, NEW x, NEW y, NEW k \in Nat, \A m \in 0 .. (k - 1) : x[m] = y[m]
  PROVE  Accumulate(f, e, x, k) = Accumulate(f, e, y, k)
<1> DEFINE A(j) == Accumulate(f, e, x, j)
           B(j) == Accumulate(f, e, y, j)
           Bad == {j \in 0 .. k : A(j) # B(j)}
<1>1. /\ A(0) = e /\ B(0) = e
      /\ \A j \in Nat : A(j + 1) = f[A(j)][x[j]] /\ B(j + 1) = f[B(j)][y[j]]
  BY AccumulateSteps
<1> HIDE DEF A, B
<1>2. ASSUME Bad # {} PROVE FALSE
  <2>1. Bad \in SUBSET Nat
    OBVIOUS
  <2>2. PICK j \in Bad : \A i \in Bad : j <= i
    BY <1>2, <2>1, LeastNumber
  <2>3. j \in 0 .. k /\ A(j) # B(j)
    OBVIOUS
  <2> DEFINE i == j - 1
  <2>4. i \in Nat /\ i \in 0 .. (k - 1) /\ i \in 0 .. k /\ i + 1 = j /\ ~(j <= i)
    BY <1>1, <2>3
  <2> HIDE DEF i
  <2>5. A(i) = B(i)
    BY <2>2, <2>4
  <2> QED
    BY <1>1, <2>3, <2>4, <2>5
<1>3. A(k) = B(k)
  BY <1>2
<1> QED
  BY <1>3 DEF A, B

\* What is accumulated from values is a value.
LEMMA AccumulateType ==
  ASSUME NEW V, NEW f, NEW e, Regroups(V, f, e), NEW x, NEW k \in Nat,
         \A m \in 0 .. (k - 1) : x[m] \in V
  PROVE  Accumulate(f, e, x, k) \in V
<1> DEFINE A(j) == Accumulate(f, e, x, j)
           Bad == {j \in 0 .. k : A(j) \notin V}
<1>1. A(0) = e /\ \A j \in Nat : A(j + 1) = f[A(j)][x[j]]
  BY AccumulateSteps
<1>r. e \in V /\ \A a, b \in V : f[a][b] \in V
  BY DEF Regroups
<1> HIDE DEF A
<1>2. ASSUME Bad # {} PROVE FALSE
  <2>1. Bad \in SUBSET Nat
    OBVIOUS
  <2>2. PICK j \in Bad : \A i \in Bad : j <= i
    BY <1>2, <2>1, LeastNumber
  <2>3. j \in 0 .. k /\ A(j) \notin V
    OBVIOUS
  <2> DEFINE i == j - 1
  <2>4. i \in Nat /\ i \in 0 .. (k - 1) /\ i \in 0 .. k /\ i + 1 = j /\ ~(j <= i)
    BY <1>1, <1>r, <2>3
  <2> HIDE DEF i
  <2>5. A(i) \in V
    BY <2>2, <2>4
  <2> QED
    BY <1>1, <1>r, <2>3, <2>4, <2>5
<1>3. A(k) \in V
  BY <1>2
<1> QED
  BY <1>3 DEF A

\* Four values regrouped, two by two.
LEMMA Regrouped ==
  ASSUME NEW V, NEW f, NEW e, Regroups(V, f, e)
  PROVE  \A a, b, c, d \in V : f[f[a][b]][f[c][d]] = f[f[a][c]][f[b][d]]
<1>1. \A a, b \in V : f[a][b] \in V
  BY DEF Regroups
<1>2. \A a, b \in V : f[a][b] = f[b][a]
  BY DEF Regroups
<1>3. \A a, b, c \in V : f[f[a][b]][c] = f[a][f[b][c]]
  BY DEF Regroups
<1> TAKE a, b, c, d \in V
<1>4. f[f[a][b]][f[c][d]] = f[a][f[b][f[c][d]]]
  <2>1. \A y \in V : f[f[a][b]][y] = f[a][f[b][y]]
    BY <1>3
  <2>2. f[c][d] \in V
    BY <1>1
  <2> QED
    BY <2>1, <2>2, Zenon
<1>5. f[b][f[c][d]] = f[f[b][c]][d]
  BY <1>3
<1>6. f[c][f[b][d]] = f[f[c][b]][d]
  BY <1>3
<1>7. f[b][c] = f[c][b]
  BY <1>2
<1>8. f[f[a][c]][f[b][d]] = f[a][f[c][f[b][d]]]
  <2>1. \A y \in V : f[f[a][c]][y] = f[a][f[c][y]]
    BY <1>3
  <2>2. f[b][d] \in V
    BY <1>1
  <2> QED
    BY <2>1, <2>2, Zenon
<1> QED
  BY <1>4, <1>5, <1>6, <1>7, <1>8

Joins(V, f, x, y, z, k) ==
  \A m \in 0 .. (k - 1) : x[m] \in V /\ y[m] \in V /\ z[m] = f[x[m]][y[m]]

\* Accumulating what was joined, place by place, joins what was accumulated.
LEMMA AccumulateJoin ==
  ASSUME NEW V, NEW f, NEW e, Regroups(V, f, e), NEW x, NEW y, NEW z, NEW k \in Nat,
         Joins(V, f, x, y, z, k)
  PROVE  Accumulate(f, e, z, k) = f[Accumulate(f, e, x, k)][Accumulate(f, e, y, k)]
<1> DEFINE A(j) == Accumulate(f, e, x, j)
           B(j) == Accumulate(f, e, y, j)
           C(j) == Accumulate(f, e, z, j)
           Bad == {j \in 0 .. k : C(j) # f[A(j)][B(j)]}
<1>1. /\ A(0) = e /\ B(0) = e /\ C(0) = e
      /\ \A j \in Nat : /\ A(j + 1) = f[A(j)][x[j]] /\ B(j + 1) = f[B(j)][y[j]]
                        /\ C(j + 1) = f[C(j)][z[j]]
  BY AccumulateSteps
<1>r. e \in V /\ f[e][e] = e
  BY DEF Regroups
<1>t. ASSUME NEW j \in 0 .. k PROVE A(j) \in V /\ B(j) \in V
  <2>1. \A m \in 0 .. (j - 1) : x[m] \in V /\ y[m] \in V
    BY DEF Joins
  <2> QED
    BY <2>1, AccumulateType
<1>s. \A a, b, c, d \in V : f[f[a][b]][f[c][d]] = f[f[a][c]][f[b][d]]
  BY Regrouped
<1> HIDE DEF A, B, C
<1>2. ASSUME Bad # {} PROVE FALSE
  <2>1. Bad \in SUBSET Nat
    OBVIOUS
  <2>2. PICK j \in Bad : \A i \in Bad : j <= i
    BY <1>2, <2>1, LeastNumber
  <2>3. j \in 0 .. k /\ C(j) # f[A(j)][B(j)]
    OBVIOUS
  <2> DEFINE i == j - 1
  <2>4. i \in Nat /\ i \in 0 .. (k - 1) /\ i \in 0 .. k /\ i + 1 = j /\ ~(j <= i)
    BY <1>1, <1>r, <2>3
  <2> HIDE DEF i
  <2>5. C(i) = f[A(i)][B(i)]
    BY <2>2, <2>4
  <2>6. C(j) = f[f[A(i)][B(i)]][f[x[i]][y[i]]]
    BY <1>1, <2>4, <2>5 DEF Joins
  <2>7. A(j) = f[A(i)][x[i]] /\ B(j) = f[B(i)][y[i]]
    BY <1>1, <2>4
  <2>8. A(i) \in V /\ B(i) \in V /\ x[i] \in V /\ y[i] \in V
    BY <1>t, <2>4 DEF Joins
  <2>9. f[f[A(i)][B(i)]][f[x[i]][y[i]]] = f[f[A(i)][x[i]]][f[B(i)][y[i]]]
    <3>1. \A c, d \in V : f[f[A(i)][B(i)]][f[c][d]] = f[f[A(i)][c]][f[B(i)][d]]
      BY <2>8, <1>s, Zenon
    <3> QED
      BY <2>8, <3>1, Zenon
  <2>10. f[A(j)][B(j)] = f[f[A(i)][x[i]]][f[B(i)][y[i]]]
    BY <2>7, Zenon
  <2>11. C(j) = f[A(j)][B(j)]
    BY <2>6, <2>9, <2>10, Zenon
  <2> QED
    BY <2>3, <2>11, Zenon
<1>3. C(k) = f[A(k)][B(k)]
  BY <1>2
<1> QED
  BY <1>3 DEF A, B, C

\* A single value among neutral ones is what is accumulated.
LEMMA AccumulateSingle ==
  ASSUME NEW V, NEW f, NEW e, Regroups(V, f, e), NEW x, NEW k \in Nat,
         NEW n \in 0 .. (k - 1), x[n] \in V,
         \A m \in 0 .. (k - 1) : m # n => x[m] = e
  PROVE  Accumulate(f, e, x, k) = x[n]
<1> DEFINE A(j) == Accumulate(f, e, x, j)
           Bad == {j \in 0 .. k : A(j) # IF j > n THEN x[n] ELSE e}
<1>1. A(0) = e /\ \A j \in Nat : A(j + 1) = f[A(j)][x[j]]
  BY AccumulateSteps
<1>r. e \in V /\ f[e][e] = e /\ f[e][x[n]] = x[n] /\ f[x[n]][e] = x[n]
  BY DEF Regroups
<1> HIDE DEF A
<1>2. ASSUME Bad # {} PROVE FALSE
  <2>1. Bad \in SUBSET Nat
    OBVIOUS
  <2>2. PICK j \in Bad : \A i \in Bad : j <= i
    BY <1>2, <2>1, LeastNumber
  <2>3. j \in 0 .. k /\ A(j) # IF j > n THEN x[n] ELSE e
    OBVIOUS
  <2> DEFINE i == j - 1
  <2>4. i \in Nat /\ i \in 0 .. (k - 1) /\ i \in 0 .. k /\ i + 1 = j /\ ~(j <= i)
    BY <1>1, <1>r, <2>3
  <2>5. i > n \/ i = n \/ i < n
    BY <2>4
  <2>6. (i > n => j > n) /\ (i = n => j > n /\ ~(i > n)) /\ (i < n => ~(j > n) /\ ~(i > n))
    BY <2>4
  <2> HIDE DEF i
  <2>7. A(i) = IF i > n THEN x[n] ELSE e
    BY <2>2, <2>4
  <2>8. A(j) = f[A(i)][x[i]]
    BY <1>1, <2>4
  <2>9. i # n => x[i] = e
    BY <2>4
  <2> QED
    BY <1>r, <2>3, <2>5, <2>6, <2>7, <2>8, <2>9
<1>3. A(k) = x[n]
  BY <1>2
<1> QED
  BY <1>3 DEF A

\* Neutral values accumulate to the neutral one.
LEMMA AccumulateNone ==
  ASSUME NEW V, NEW f, NEW e, Regroups(V, f, e), NEW x, NEW k \in Nat,
         \A m \in 0 .. (k - 1) : x[m] = e
  PROVE  Accumulate(f, e, x, k) = e
<1>1. CASE k = 0
  BY <1>1, AccumulateSteps
<1>2. CASE k # 0
  <2>1. 0 \in 0 .. (k - 1) /\ x[0] = e /\ e \in V
    BY <1>2 DEF Regroups
  <2> QED
    BY <2>1, AccumulateSingle
<1> QED
  BY <1>1, <1>2

\* Repeating a value no time, and one time more.
LEMMA RepeatSteps ==
  ASSUME NEW f, NEW e, NEW x, NEW k \in Nat
  PROVE  Repeat(f, e, x, 0) = e /\ Repeat(f, e, x, k + 1) = f[Repeat(f, e, x, k)][x]
<1> DEFINE row(j) == [i \in 0 .. (j - 1) |-> x]
<1>1. \A j : Repeat(f, e, x, j) = Accumulate(f, e, row(j), j)
  BY DEF Repeat
<1>2. (k + 1) - 1 = k /\ k \in 0 .. k /\ k + 1 \in Nat
  OBVIOUS
<1>3. \A i \in 0 .. (k - 1) : row(k)[i] = row(k + 1)[i]
  OBVIOUS
<1>4. row(k + 1)[k] = x
  BY <1>2
<1> HIDE DEF row
<1>5. Accumulate(f, e, row(0), 0) = e
  BY AccumulateSteps
<1>6. Accumulate(f, e, row(k + 1), k + 1)
        = f[Accumulate(f, e, row(k + 1), k)][row(k + 1)[k]]
  BY AccumulateSteps
<1>7. Accumulate(f, e, row(k), k) = Accumulate(f, e, row(k + 1), k)
  BY <1>3, AccumulateSame
<1> QED
  BY <1>1, <1>4, <1>5, <1>6, <1>7

\* Repeating a value gives a value.
LEMMA RepeatType ==
  ASSUME NEW V, NEW f, NEW e, Regroups(V, f, e), NEW x \in V, NEW k \in Nat
  PROVE  Repeat(f, e, x, k) \in V
<1> DEFINE row == [i \in 0 .. (k - 1) |-> x]
<1>1. \A i \in 0 .. (k - 1) : row[i] \in V
  OBVIOUS
<1> HIDE DEF row
<1>2. Accumulate(f, e, row, k) \in V
  BY <1>1, AccumulateType
<1> QED
  BY <1>2 DEF Repeat, row

\* Repeating a value once.
LEMMA RepeatOnce ==
  ASSUME NEW V, NEW f, NEW e, Regroups(V, f, e), NEW x \in V
  PROVE  Repeat(f, e, x, 1) = x
<1>1. Repeat(f, e, x, 0) = e /\ Repeat(f, e, x, 0 + 1) = f[Repeat(f, e, x, 0)][x]
  BY RepeatSteps
<1>2. f[e][x] = x
  BY DEF Regroups
<1> QED
  BY <1>1, <1>2

\* Repeating a value k + l times.
LEMMA RepeatPlus ==
  ASSUME NEW V, NEW f, NEW e, Regroups(V, f, e), NEW x \in V, NEW k \in Nat, NEW l \in Nat
  PROVE  Repeat(f, e, x, k + l) = f[Repeat(f, e, x, k)][Repeat(f, e, x, l)]
<1> DEFINE R(j) == Repeat(f, e, x, j)
           Bad == {j \in Nat : R(k + j) # f[R(k)][R(j)]}
<1>1. R(0) = e /\ \A j \in Nat : R(j + 1) = f[R(j)][x]
  BY RepeatSteps
<1>2. \A j \in Nat : R(j) \in V
  BY RepeatType
<1>3. /\ \A a \in V : f[a][e] = a
      /\ \A a, b, c \in V : f[f[a][b]][c] = f[a][f[b][c]]
  BY DEF Regroups
<1> HIDE DEF R
<1>4. ASSUME Bad # {} PROVE FALSE
  <2>1. PICK j \in Bad : \A i \in Bad : j <= i
    BY <1>4, LeastNumber
  <2>2. j \in Nat /\ R(k + j) # f[R(k)][R(j)]
    OBVIOUS
  <2>3. j # 0
    <3>1. k + 0 = k /\ f[R(k)][e] = R(k)
      BY <1>2, <1>3
    <3> QED
      BY <3>1, <2>2, <1>1
  <2> DEFINE i == j - 1
  <2>4. i \in Nat /\ i + 1 = j /\ ~(j <= i) /\ k + j = (k + i) + 1 /\ k + i \in Nat
    BY <2>2, <2>3
  <2> HIDE DEF i
  <2>5. R(k + i) = f[R(k)][R(i)]
    BY <2>1, <2>4
  <2>6. R(k + j) = f[f[R(k)][R(i)]][x]
    BY <1>1, <2>4, <2>5
  <2>7. f[f[R(k)][R(i)]][x] = f[R(k)][f[R(i)][x]]
    BY <1>2, <1>3, <2>4
  <2>8. f[R(i)][x] = R(j)
    BY <1>1, <2>4
  <2> QED
    BY <2>2, <2>6, <2>7, <2>8
<1>5. R(k + l) = f[R(k)][R(l)]
  BY <1>4
<1> QED
  BY <1>5 DEF R

\* What Gather accumulates.
Shares(f, e, b, val) == [m \in Node |-> Repeat(f, e, val[m], b[m])]

\* Gather accumulates the share of every node.
LEMMA GatherIs ==
  ASSUME NEW f, NEW e, NEW b, NEW val
  PROVE  /\ Gather(f, e, b, val) = Accumulate(f, e, Shares(f, e, b, val), MaxNode)
         /\ \A m \in Node : Shares(f, e, b, val)[m] = Repeat(f, e, val[m], b[m])
         /\ MaxNode \in Nat /\ Node = 0 .. (MaxNode - 1)
BY MaxNodeAssumption DEF Gather, Shares, Node

\* Only the values of the elements count.
LEMMA GatherSame ==
  ASSUME NEW f, NEW e, NEW b \in Bag, NEW v, NEW w,
         \A m \in Node : b[m] > 0 => v[m] = w[m]
  PROVE  Gather(f, e, b, v) = Gather(f, e, b, w)
<1>1. ASSUME NEW m \in Node PROVE Repeat(f, e, v[m], b[m]) = Repeat(f, e, w[m], b[m])
  <2>1. b[m] \in Nat
    BY DEF Bag
  <2>2. CASE b[m] > 0
    BY <2>2
  <2>3. CASE b[m] = 0
    <3>1. Repeat(f, e, v[m], 0) = e /\ Repeat(f, e, w[m], 0) = e
      BY RepeatSteps
    <3> QED
      BY <3>1, <2>3
  <2> QED
    BY <2>1, <2>2, <2>3
<1>2. \A m \in Node : Shares(f, e, b, v)[m] = Shares(f, e, b, w)[m]
  BY <1>1, GatherIs
<1>3. /\ Gather(f, e, b, v) = Accumulate(f, e, Shares(f, e, b, v), MaxNode)
      /\ Gather(f, e, b, w) = Accumulate(f, e, Shares(f, e, b, w), MaxNode)
      /\ MaxNode \in Nat /\ Node = 0 .. (MaxNode - 1)
  BY GatherIs
<1>4. Accumulate(f, e, Shares(f, e, b, v), MaxNode) = Accumulate(f, e, Shares(f, e, b, w), MaxNode)
  BY <1>2, <1>3, AccumulateSame
<1> QED
  BY <1>3, <1>4

\* What is gathered from values is a value.
LEMMA GatherType ==
  ASSUME NEW V, NEW f, NEW e, Regroups(V, f, e), NEW b \in Bag, NEW v,
         \A m \in Node : b[m] > 0 => v[m] \in V
  PROVE  Gather(f, e, b, v) \in V
<1>1. ASSUME NEW m \in Node PROVE Repeat(f, e, v[m], b[m]) \in V
  <2>1. b[m] \in Nat
    BY DEF Bag
  <2>2. CASE b[m] > 0
    BY <2>1, <2>2, RepeatType
  <2>3. CASE b[m] = 0
    <3>1. Repeat(f, e, v[m], 0) = e /\ e \in V
      BY RepeatSteps DEF Regroups
    <3> QED
      BY <3>1, <2>3
  <2> QED
    BY <2>1, <2>2, <2>3
<1>2. \A m \in Node : Shares(f, e, b, v)[m] \in V
  BY <1>1, GatherIs
<1>3. /\ Gather(f, e, b, v) = Accumulate(f, e, Shares(f, e, b, v), MaxNode)
      /\ MaxNode \in Nat /\ Node = 0 .. (MaxNode - 1)
  BY GatherIs
<1> QED
  BY <1>2, <1>3, AccumulateType

\* Gathering from two multisets together.
LEMMA GatherBoth ==
  ASSUME NEW V, NEW f, NEW e, Regroups(V, f, e),
         NEW a \in Bag, NEW b \in Bag, NEW c, Both(a, b, c),
         NEW v \in [Node -> V]
  PROVE  Gather(f, e, c, v) = f[Gather(f, e, a, v)][Gather(f, e, b, v)]
<1>1. ASSUME NEW m \in Node
      PROVE  /\ Repeat(f, e, v[m], c[m]) = f[Repeat(f, e, v[m], a[m])][Repeat(f, e, v[m], b[m])]
             /\ Repeat(f, e, v[m], a[m]) \in V /\ Repeat(f, e, v[m], b[m]) \in V
  <2>1. a[m] \in Nat /\ b[m] \in Nat /\ c[m] = a[m] + b[m] /\ v[m] \in V
    BY DEF Bag, Both
  <2>2. Repeat(f, e, v[m], a[m] + b[m]) = f[Repeat(f, e, v[m], a[m])][Repeat(f, e, v[m], b[m])]
    BY <2>1, RepeatPlus
  <2>3. Repeat(f, e, v[m], a[m]) \in V /\ Repeat(f, e, v[m], b[m]) \in V
    BY <2>1, RepeatType
  <2> QED
    BY <2>1, <2>2, <2>3
<1> DEFINE x == Shares(f, e, a, v)
           y == Shares(f, e, b, v)
           z == Shares(f, e, c, v)
<1>2. \A m \in Node : /\ x[m] = Repeat(f, e, v[m], a[m])
                      /\ y[m] = Repeat(f, e, v[m], b[m])
                      /\ z[m] = Repeat(f, e, v[m], c[m])
  BY GatherIs
<1>3. /\ Gather(f, e, a, v) = Accumulate(f, e, x, MaxNode)
      /\ Gather(f, e, b, v) = Accumulate(f, e, y, MaxNode)
      /\ Gather(f, e, c, v) = Accumulate(f, e, z, MaxNode)
      /\ MaxNode \in Nat /\ Node = 0 .. (MaxNode - 1)
  BY GatherIs
<1> HIDE DEF x, y, z
<1>4. \A m \in Node : x[m] \in V /\ y[m] \in V /\ z[m] = f[x[m]][y[m]]
  BY <1>1, <1>2
<1>5. Joins(V, f, x, y, z, MaxNode)
  BY <1>3, <1>4 DEF Joins
<1>6. Accumulate(f, e, z, MaxNode) = f[Accumulate(f, e, x, MaxNode)][Accumulate(f, e, y, MaxNode)]
  <2>1. MaxNode \in Nat
    BY <1>3
  <2> QED
    BY <2>1, <1>5, AccumulateJoin
<1> QED
  BY <1>3, <1>6

\* One node, some times.
Only(n, k) == [m \in Node |-> IF m = n THEN k ELSE 0]

\* Gathering from occurrences of one node only.
LEMMA GatherOnly ==
  ASSUME NEW V, NEW f, NEW e, Regroups(V, f, e), NEW n \in Node, NEW k \in Nat,
         NEW v, v[n] \in V
  PROVE  Gather(f, e, Only(n, k), v) = Repeat(f, e, v[n], k)
<1> DEFINE x == Shares(f, e, Only(n, k), v)
<1>1. /\ Gather(f, e, Only(n, k), v) = Accumulate(f, e, x, MaxNode)
      /\ MaxNode \in Nat /\ Node = 0 .. (MaxNode - 1)
      /\ \A m \in Node : x[m] = Repeat(f, e, v[m], Only(n, k)[m])
  BY GatherIs
<1> HIDE DEF x
<1>2. x[n] = Repeat(f, e, v[n], k) /\ x[n] \in V
  BY <1>1, RepeatType DEF Only
<1>3. ASSUME NEW m \in Node, m # n PROVE x[m] = e
  <2>1. Only(n, k)[m] = 0
    BY <1>3 DEF Only
  <2>2. Repeat(f, e, v[m], 0) = e
    BY RepeatSteps
  <2> QED
    BY <2>1, <2>2, <1>1
<1>4. Accumulate(f, e, x, MaxNode) = x[n]
  BY <1>1, <1>2, <1>3, AccumulateSingle
<1> QED
  BY <1>1, <1>2, <1>4

\* Gathering from nothing.
LEMMA GatherNone ==
  ASSUME NEW V, NEW f, NEW e, Regroups(V, f, e), NEW b, IsNone(b), NEW v
  PROVE  Gather(f, e, b, v) = e
<1> DEFINE x == Shares(f, e, b, v)
<1>1. /\ Gather(f, e, b, v) = Accumulate(f, e, x, MaxNode)
      /\ MaxNode \in Nat /\ Node = 0 .. (MaxNode - 1)
      /\ \A m \in Node : x[m] = Repeat(f, e, v[m], b[m])
  BY GatherIs
<1> HIDE DEF x
<1>2. ASSUME NEW m \in Node PROVE x[m] = e
  <2>1. b[m] = 0
    BY DEF IsNone
  <2>2. Repeat(f, e, v[m], 0) = e
    BY RepeatSteps
  <2> QED
    BY <2>1, <2>2, <1>1
<1> QED
  BY <1>1, <1>2, AccumulateNone

\* The sum of natural numbers may be regrouped.
LEMMA SumRegroups ==
  Regroups(Nat, Sum, 0) /\ \A x, y \in Nat : Sum[x][y] = x + y
BY DEF Regroups, Sum

\* The size of a multiset is a number.
LEMMA TotalNat ==
  ASSUME NEW b \in Bag
  PROVE  Total(b) \in Nat
<1>1. MaxNode \in Nat /\ \A m \in 0 .. (MaxNode - 1) : b[m] \in Nat
  BY MaxNodeAssumption DEF Bag, Node
<1>2. Accumulate(Sum, 0, b, MaxNode) \in Nat
  BY <1>1, SumRegroups, AccumulateType
<1> QED
  BY <1>2 DEF Total

\* The size of nothing.
LEMMA TotalNone ==
  ASSUME NEW b, IsNone(b)
  PROVE  Total(b) = 0
<1>1. MaxNode \in Nat /\ \A m \in 0 .. (MaxNode - 1) : b[m] = 0
  BY MaxNodeAssumption DEF IsNone, Node
<1>2. Accumulate(Sum, 0, b, MaxNode) = 0
  BY <1>1, SumRegroups, AccumulateNone
<1> QED
  BY <1>2 DEF Total

\* The size of two multisets together.
LEMMA TotalBoth ==
  ASSUME NEW a \in Bag, NEW b \in Bag, NEW c, Both(a, b, c)
  PROVE  Total(c) = Total(a) + Total(b)
<1>1. MaxNode \in Nat /\ Node = 0 .. (MaxNode - 1)
  BY MaxNodeAssumption DEF Node
<1>2. \A m \in Node : a[m] \in Nat /\ b[m] \in Nat /\ c[m] = a[m] + b[m]
  BY DEF Bag, Both
<1>3. Joins(Nat, Sum, a, b, c, MaxNode)
  BY <1>1, <1>2, SumRegroups DEF Joins
<1>4. Total(c) = Sum[Total(a)][Total(b)]
  BY <1>1, <1>3, SumRegroups, AccumulateJoin DEF Total
<1>5. Total(a) \in Nat /\ Total(b) \in Nat
  BY TotalNat
<1> QED
  BY <1>4, <1>5, SumRegroups

\* The size of occurrences of one node only.
LEMMA TotalOnly ==
  ASSUME NEW n \in Node, NEW k \in Nat
  PROVE  Total(Only(n, k)) = k
<1> DEFINE x == Only(n, k)
<1>1. MaxNode \in Nat /\ Node = 0 .. (MaxNode - 1)
  BY MaxNodeAssumption DEF Node
<1>2. x[n] = k /\ \A m \in Node : m # n => x[m] = 0
  BY DEF Only
<1> HIDE DEF x
<1>3. Accumulate(Sum, 0, x, MaxNode) = x[n]
  <2>1. n \in 0 .. (MaxNode - 1) /\ x[n] \in Nat /\ MaxNode \in Nat
    BY <1>1, <1>2
  <2>2. \A m \in 0 .. (MaxNode - 1) : m # n => x[m] = 0
    BY <1>1, <1>2
  <2>3. Regroups(Nat, Sum, 0)
    BY SumRegroups
  <2> QED
    BY <2>1, <2>2, <2>3, AccumulateSingle
<1> QED
  BY <1>2, <1>3 DEF Total, x

\* The multiset of occurrences of one node.
LEMMA OnlyFacts ==
  ASSUME NEW n \in Node
  PROVE  /\ \A k \in Nat : Only(n, k) \in Bag
         /\ \A k : Only(n, k)[n] = k /\ \A m \in Node : m # n => Only(n, k)[m] = 0
         /\ One(n) = Only(n, 1)
<1>1. One(n) = Only(n, 1)
  BY DEF One, Only
<1> QED
  BY <1>1 DEF Only, Bag

\* A multiset in which a node was renamed, with the renamed occurrences apart.
LEMMA RenamedSplits ==
  ASSUME NEW b \in Bag, NEW old \in Node, NEW new \in Node, old # new,
         NEW d, Renamed(b, old, new, d)
  PROVE  \E r \in Bag : Both(r, Only(old, b[old]), b) /\ Both(r, Only(new, b[old]), d)
<1> DEFINE r == [b EXCEPT ![old] = 0]
<1>1. /\ \A m \in Node : b[m] \in Nat
      /\ \A m \in Node : r[m] = IF m = old THEN 0 ELSE b[m]
      /\ r \in Bag
  BY DEF Bag
<1> HIDE DEF r
<1>2. Both(r, Only(old, b[old]), b)
  BY <1>1, OnlyFacts DEF Both
<1>3. Both(r, Only(new, b[old]), d)
  BY <1>1, OnlyFacts DEF Both, Renamed
<1> QED
  BY <1>1, <1>2, <1>3

\* Renaming a node keeps the size of a multiset.
LEMMA TotalRenamed ==
  ASSUME NEW b \in Bag, NEW old \in Node, NEW new \in Node, old # new,
         NEW d, Renamed(b, old, new, d)
  PROVE  Total(d) = Total(b)
<1>1. PICK r \in Bag : Both(r, Only(old, b[old]), b) /\ Both(r, Only(new, b[old]), d)
  BY RenamedSplits
<1>2. b[old] \in Nat
  BY DEF Bag
<1>3. Total(Only(old, b[old])) = b[old] /\ Total(Only(new, b[old])) = b[old]
  BY <1>2, TotalOnly
<1>4. Only(old, b[old]) \in Bag /\ Only(new, b[old]) \in Bag
  BY <1>2, OnlyFacts
<1>5. Total(b) = Total(r) + Total(Only(old, b[old]))
  BY <1>1, <1>4, TotalBoth
<1>6. Total(d) = Total(r) + Total(Only(new, b[old]))
  BY <1>1, <1>4, TotalBoth
<1> QED
  BY <1>3, <1>5, <1>6

\* Renaming a node to one of the same value keeps what is gathered.
LEMMA GatherRenamed ==
  ASSUME NEW V, NEW f, NEW e, Regroups(V, f, e),
         NEW b \in Bag, NEW old \in Node, NEW new \in Node, old # new,
         NEW d, Renamed(b, old, new, d),
         NEW v \in [Node -> V], v[old] = v[new]
  PROVE  Gather(f, e, d, v) = Gather(f, e, b, v)
<1>1. PICK r \in Bag : Both(r, Only(old, b[old]), b) /\ Both(r, Only(new, b[old]), d)
  BY RenamedSplits
<1>2. b[old] \in Nat /\ v[old] \in V /\ v[new] \in V
  BY DEF Bag
<1>3. /\ Gather(f, e, Only(old, b[old]), v) = Repeat(f, e, v[old], b[old])
      /\ Gather(f, e, Only(new, b[old]), v) = Repeat(f, e, v[new], b[old])
  BY <1>2, GatherOnly
<1>4. Only(old, b[old]) \in Bag /\ Only(new, b[old]) \in Bag
  BY <1>2, OnlyFacts
<1>5. Gather(f, e, b, v) = f[Gather(f, e, r, v)][Gather(f, e, Only(old, b[old]), v)]
  BY <1>1, <1>4, GatherBoth
<1>6. Gather(f, e, d, v) = f[Gather(f, e, r, v)][Gather(f, e, Only(new, b[old]), v)]
  BY <1>1, <1>4, GatherBoth
<1> QED
  BY <1>3, <1>5, <1>6

\* The turns follow one another: what the recursive Turns denotes.
Follows(q, gr, fresh, s, k) ==
  /\ q[0] = [g |-> gr, next |-> fresh, args |-> s, out |-> <<>>]
  /\ \A i \in 1 .. k : q[i] = Turn(q[i - 1])

\* The turns of a balancing follow each other.
LEMMA TurnsFollow ==
  ASSUME NEW gr, NEW fresh, NEW s, Len(s) \in Nat
  PROVE  Follows(Turns(gr, fresh, s), gr, fresh, s, 2 * Len(s))
<1> DEFINE k == 2 * Len(s)
           first == [g |-> gr, next |-> fresh, args |-> s, out |-> <<>>]
           Solves(q, j) == q = [i \in 0 .. j |-> IF i = 0 THEN first ELSE Turn(q[i - 1])]
           Bad == {j \in Nat : ~ \E q : Solves(q, j)}
<1>1. k \in Nat
  OBVIOUS
<1>2. Turns(gr, fresh, s) = (CHOOSE q : Solves(q, k))
  BY DEF Turns
<1> HIDE DEF first
<1>3. ASSUME Bad # {} PROVE FALSE
  <2>1. PICK j \in Bad : \A i \in Bad : j <= i
    BY <1>3, LeastNumber
  <2>2. j # 0
    <3>1. Solves([i \in 0 .. 0 |-> first], 0)
      OBVIOUS
    <3> QED
      BY <3>1, <2>1
  <2>3. j - 1 \in Nat /\ ~(j <= j - 1)
    BY <2>1, <2>2
  <2>4. PICK p : Solves(p, j - 1)
    BY <2>1, <2>3
  <2> DEFINE q == [i \in 0 .. j |-> IF i = j THEN Turn(p[j - 1]) ELSE p[i]]
  <2>5. ASSUME NEW i \in 0 .. j
        PROVE  q[i] = IF i = 0 THEN first ELSE Turn(q[i - 1])
    <3>1. CASE i = 0
      <4>1. 0 \in 0 .. (j - 1) /\ i # j
        BY <2>3, <3>1
      <4>2. p[0] = first
        BY <2>4, <4>1
      <4> QED
        BY <3>1, <4>1, <4>2
    <3>2. CASE i = j
      <4>1. q[i - 1] = p[j - 1] /\ i # 0
        BY <2>3, <3>2
      <4> QED
        BY <3>2, <4>1
    <3>3. CASE i # 0 /\ i # j
      <4>1. i \in 0 .. (j - 1) /\ i - 1 \in 0 .. j /\ i - 1 # j
        BY <2>3, <3>3
      <4>2. q[i] = p[i] /\ q[i - 1] = p[i - 1]
        BY <3>3, <4>1
      <4>3. p[i] = Turn(p[i - 1])
        BY <2>4, <3>3, <4>1
      <4> QED
        BY <3>3, <4>2, <4>3
    <3> QED
      BY <3>1, <3>2, <3>3
  <2>6. Solves(q, j)
    BY <2>5
  <2> QED
    BY <2>1, <2>6
<1>4. \E q : Solves(q, k)
  BY <1>1, <1>3
<1>5. Solves(Turns(gr, fresh, s), k)
  BY <1>2, <1>4
<1> DEFINE q == Turns(gr, fresh, s)
<1> HIDE DEF q, k
<1>6. q = [i \in 0 .. k |-> IF i = 0 THEN first ELSE Turn(q[i - 1])]
  BY <1>5 DEF q
<1>7. q[0] = first
  BY <1>1, <1>6
<1>8. ASSUME NEW i \in 1 .. k PROVE q[i] = Turn(q[i - 1])
  <2>1. i \in 0 .. k /\ i # 0
    BY <1>1
  <2> QED
    BY <1>6, <2>1
<1> QED
  BY <1>7, <1>8 DEF Follows, first, q, k
(* The graph between two turns: above the graph h the new nodes, numbered  *)
(* from fresh on, each over S and the new nodes before it; a join takes    *)
(* two of the L elements and gives one.                                    *)
Growing(q, h, fresh, S, L, det, ret) ==
  LET F == fresh .. (q.next - 1) IN
  /\ q.next \in Nat /\ fresh <= q.next
  /\ GraphInv(q.g, det, ret)
  /\ q.g.alive = h.alive \cup F
  /\ q.g.sources \subseteq h.sources
  /\ q.args \in Seq(S \cup F) /\ q.out \in Seq(S \cup F)
  /\ Len(q.args) + Len(q.out) >= 2
  /\ q.next + Len(q.args) + Len(q.out) = fresh + L
  /\ \A x \in Node \ F : q.g.operands[x] = h.operands[x]
  /\ \A x \in F : Below(q.g, x) \subseteq S \cup (fresh .. (x - 1))

\* What balancing needs of the graph: room, and operands that are attached.
Roomy(h, fresh, S, L, det, ret) ==
  /\ fresh \in Nat /\ L \in Nat /\ fresh + L - 2 <= MaxNode
  /\ h.alive \subseteq Node /\ \A x \in h.alive : x < fresh
  /\ S \subseteq h.alive \ det /\ det \subseteq h.alive /\ ret \subseteq det

\* A node over two elements.
LEMMA JoinGraph ==
  ASSUME NEW h, NEW det, NEW ret, GraphInv(h, det, ret), ret \subseteq det,
         NEW c \in Node, c \notin h.alive, c \notin det,
         NEW x \in h.alive \ det, NEW y \in h.alive \ det,
         NEW f, f = SetOperands(NewNode(h, c), c, AsBag(<<x, y>>))
  PROVE  /\ GraphInv(f, det, ret)
         /\ f.alive = h.alive \cup {c}
         /\ f.sources \subseteq h.sources
         /\ \A z \in Node \ {c} : f.operands[z] = h.operands[z]
         /\ f.operands[c] = AsBag(<<x, y>>)
         /\ Below(f, c) = {x, y}
<1> DEFINE e == NewNode(h, c)
           pair == AsBag(<<x, y>>)
<1>1. h.alive \subseteq Node /\ h.operands \in [Node -> Bag]
  BY DEF GraphInv, Typed
<1>2. <<x, y>> \in Seq(Node) /\ Len(<<x, y>>) = 2 /\ <<x, y>>[1] = x /\ <<x, y>>[2] = y
  BY <1>1
<1>3. pair \in Bag /\ \A m \in Node : pair[m] > 0 <=> m \in {x, y}
  <2>1. pair \in Bag /\ \A m \in Node : pair[m] > 0 <=> \E i \in 1 .. 2 : <<x, y>>[i] = m
    BY <1>2, AsBagFacts
  <2>2. 1 .. 2 = {1, 2}
    OBVIOUS
  <2> HIDE DEF pair
  <2> QED
    BY <2>1, <2>2, <1>2
<1>4. Elements(pair) = {x, y} /\ ~IsNone(pair)
  BY <1>1, <1>3 DEF Elements, IsNone
<1>5. GraphInv(e, det, ret)
  BY NewNodeInv
<1>6. /\ e.alive = h.alive \cup {c} /\ e.sources = h.sources \cup {c}
      /\ e.operands = [h.operands EXCEPT ![c] = NoNodes]
  BY DEF NewNode
<1>7. e.operands[c] = NoNodes /\ e.operands \in [Node -> Bag]
  BY <1>1, <1>6, BagFacts
<1> HIDE DEF e, pair
<1>8. GraphInv(SetOperands(e, c, pair), det, ret)
  <2>1. GraphInv(SetOperands(e, c, pair), det \ {c}, ret \ Elements(pair))
    <3>1. c \in e.alive /\ \A m \in Node : pair[m] > 0 => m \in e.alive
      BY <1>3, <1>6
    <3> QED
      BY <3>1, <1>3, <1>5, SetOperandsInv
  <2>2. det \ {c} = det /\ ret \ Elements(pair) = ret
    BY <1>4
  <2> QED
    BY <2>1, <2>2
<1>9. /\ f.alive = e.alive /\ f.operands = [e.operands EXCEPT ![c] = pair]
      /\ f.sources = e.sources \ {c}
      /\ GraphInv(f, det, ret)
  <2>1. f = SetOperands(e, c, pair)
    BY DEF e, pair
  <2>2. IsNone(e.operands[c])
    BY <1>7, BagFacts
  <2> QED
    BY <2>1, <2>2, <1>4, <1>8 DEF SetOperands
<1>10. \A z \in Node \ {c} : f.operands[z] = h.operands[z]
  BY <1>1, <1>6, <1>7, <1>9
<1>11. f.operands[c] = pair
  BY <1>7, <1>9
<1>12. Below(f, c) = {x, y}
  <2>1. Below(f, c) = Elements(pair)
    BY <1>11 DEF Below, Preds, Elements
  <2> QED
    BY <2>1, <1>4
<1>13. f.operands[c] = AsBag(<<x, y>>)
  BY <1>11 DEF pair
<1> QED
  BY <1>6, <1>9, <1>10, <1>12, <1>13

\* A join adds a node and takes an element.
LEMMA JoinGrows ==
  ASSUME NEW q, NEW h, NEW fresh, NEW S, NEW L, NEW det, NEW ret,
         Roomy(h, fresh, S, L, det, ret), Growing(q, h, fresh, S, L, det, ret),
         Len(q.args) >= 2, Len(q.args) + Len(q.out) >= 3
  PROVE  Growing(Join(q), h, fresh, S, L, det, ret)
<1> DEFINE F == fresh .. (q.next - 1)
           G == fresh .. q.next
           c == q.next
           x == q.args[1]
           y == q.args[2]
           f == SetOperands(NewNode(q.g, c), c, AsBag(<<x, y>>))
<1>1. /\ c \in Nat /\ fresh <= c
      /\ GraphInv(q.g, det, ret)
      /\ q.g.alive = h.alive \cup F
      /\ q.g.sources \subseteq h.sources
      /\ q.args \in Seq(S \cup F) /\ q.out \in Seq(S \cup F)
      /\ c + Len(q.args) + Len(q.out) = fresh + L
      /\ \A z \in Node \ F : q.g.operands[z] = h.operands[z]
      /\ \A z \in F : Below(q.g, z) \subseteq S \cup (fresh .. (z - 1))
  BY DEF Growing
<1>2. /\ fresh \in Nat /\ L \in Nat /\ fresh + L - 2 <= MaxNode
      /\ h.alive \subseteq Node /\ \A z \in h.alive : z < fresh
      /\ S \subseteq h.alive \ det /\ det \subseteq h.alive /\ ret \subseteq det
  BY DEF Roomy
<1>3. /\ Len(q.args) \in Nat /\ Len(q.out) \in Nat
      /\ x \in S \cup F /\ y \in S \cup F
  <2>1. Len(q.args) \in Nat /\ Len(q.out) \in Nat
    BY <1>1, LenProperties
  <2>2. 1 \in 1 .. Len(q.args) /\ 2 \in 1 .. Len(q.args)
    BY <2>1
  <2> HIDE DEF F
  <2> QED
    BY <1>1, <2>1, <2>2, ElementOfSeq
<1>4. c \in Node
  <2>0. \A i, j, k \in Nat : k + i + j = fresh + L /\ i + j >= 3 => k <= MaxNode - 1
    BY <1>2, MaxNodeAssumption
  <2>1. c <= MaxNode - 1
    BY <2>0, <1>1, <1>3, Zenon
  <2> QED
    BY <2>1, <1>1, MaxNodeAssumption DEF Node
<1>5. G = F \cup {c} /\ c \notin F /\ F \subseteq Nat /\ \A z \in F : fresh <= z
  BY <1>1, <1>2
<1>6. c \notin h.alive
  <2>1. ~(c < fresh)
    BY <1>1, <1>2
  <2> QED
    BY <2>1, <1>2
<1>7. c \notin q.g.alive /\ c \notin det
  BY <1>1, <1>2, <1>5, <1>6
<1>8. \A z \in F : z \notin det
  <2>1. ASSUME NEW z \in F, z \in det PROVE FALSE
    <3>1. fresh <= z /\ z < fresh /\ z \in Nat
      BY <2>1, <1>2, <1>5
    <3> QED
      BY <3>1, <1>2
  <2> QED
    BY <2>1
<1>9. x \in q.g.alive \ det /\ y \in q.g.alive \ det
  BY <1>1, <1>2, <1>3, <1>8
<1> HIDE DEF F, G, x, y
<1>10. /\ GraphInv(f, det, ret)
       /\ f.alive = q.g.alive \cup {c}
       /\ f.sources \subseteq q.g.sources
       /\ \A z \in Node \ {c} : f.operands[z] = q.g.operands[z]
       /\ Below(f, c) = {x, y}
  <2> DEFINE gr == q.g
             ff == f
  <2>1. /\ GraphInv(gr, det, ret) /\ c \notin gr.alive
        /\ x \in gr.alive \ det /\ y \in gr.alive \ det
        /\ ff = SetOperands(NewNode(gr, c), c, AsBag(<<x, y>>))
    BY <1>1, <1>7, <1>9
  <2> HIDE DEF gr, ff, f
  <2>2. /\ GraphInv(ff, det, ret)
        /\ ff.alive = gr.alive \cup {c}
        /\ ff.sources \subseteq gr.sources
        /\ \A z \in Node \ {c} : ff.operands[z] = gr.operands[z]
        /\ Below(ff, c) = {x, y}
    BY <2>1, <1>2, <1>4, <1>7, JoinGraph
  <2> QED
    BY <2>2 DEF gr, ff
<1>11. /\ Join(q).g = f /\ Join(q).next = c + 1
       /\ Join(q).args = SubSeq(q.args, 3, Len(q.args))
       /\ Join(q).out = Append(q.out, c)
  BY DEF Join, x, y
<1> HIDE DEF f
<1>12. f.alive = h.alive \cup G
  BY <1>1, <1>5, <1>10
<1>13. f.sources \subseteq h.sources
  BY <1>1, <1>10
<1>14. \A z \in Node \ G : f.operands[z] = h.operands[z]
  BY <1>1, <1>5, <1>10
<1>15. ASSUME NEW z \in G PROVE Below(f, z) \subseteq S \cup (fresh .. (z - 1))
  <2>1. CASE z = c
    BY <2>1, <1>3, <1>10 DEF F
  <2>2. CASE z # c
    <3>1. z \in F
      BY <2>2, <1>5
    <3>2. z \in Node
      <4>1. F \subseteq q.g.alive /\ q.g.alive \subseteq Node
        BY <1>1 DEF GraphInv, Typed
      <4> QED
        BY <3>1, <4>1
    <3>3. Below(f, z) = Below(q.g, z)
      <4>1. f.operands[z] = q.g.operands[z]
        BY <2>2, <3>2, <1>10
      <4> QED
        BY <4>1 DEF Below, Preds
    <3> QED
      BY <3>1, <3>3, <1>1
  <2> QED
    BY <2>1, <2>2
<1>16. /\ SubSeq(q.args, 3, Len(q.args)) \in Seq(S \cup G)
       /\ Len(SubSeq(q.args, 3, Len(q.args))) = Len(q.args) - 2
  <2> DEFINE a == q.args
             k == Len(q.args)
  <2>1. a \in Seq(S \cup F) /\ k \in Nat /\ k >= 2 /\ k = Len(a) /\ S \cup F \subseteq S \cup G
    BY <1>1, <1>3, <1>5
  <2> HIDE DEF a, k
  <2>2. \A i \in 3 .. k : a[i] \in S \cup G
    <3>1. \A i \in 1 .. k : a[i] \in S \cup F
      BY <2>1, ElementOfSeq
    <3>2. \A i \in 3 .. k : i \in 1 .. k
      BY <2>1
    <3> QED
      BY <2>1, <3>1, <3>2
  <2>3. /\ SubSeq(a, 3, k) \in Seq(S \cup G)
        /\ Len(SubSeq(a, 3, k)) = IF 3 <= k THEN k - 3 + 1 ELSE 0
    BY <2>1, <2>2, SubSeqProperties
  <2>4. (IF 3 <= k THEN k - 3 + 1 ELSE 0) = k - 2
    BY <2>1
  <2> QED
    BY <2>3, <2>4 DEF a, k
<1>17. Append(q.out, c) \in Seq(S \cup G) /\ Len(Append(q.out, c)) = Len(q.out) + 1
  <2> DEFINE o == q.out
  <2>1. o \in Seq(S \cup F) /\ S \cup F \subseteq S \cup G /\ c \in S \cup G
    BY <1>1, <1>5
  <2> HIDE DEF o
  <2>2. o \in Seq(S \cup G)
    BY <2>1, SeqMonotonic
  <2>3. Append(o, c) \in Seq(S \cup G) /\ Len(Append(o, c)) = Len(o) + 1
    BY <2>1, <2>2, AppendProperties
  <2> QED
    BY <2>3 DEF o
<1>18. fresh .. (c + 1 - 1) = G
  BY <1>1 DEF G
<1> DEFINE r == Join(q)
<1>19. /\ r.next \in Nat /\ fresh <= r.next
       /\ Len(r.args) + Len(r.out) >= 2
       /\ r.next + Len(r.args) + Len(r.out) = fresh + L
  <2>1. \A i, j, k \in Nat :
           fresh <= k /\ k + i + j = fresh + L /\ i >= 2 /\ i + j >= 3 =>
              /\ k + 1 \in Nat /\ fresh <= k + 1 /\ (i - 2) + (j + 1) >= 2
              /\ (k + 1) + (i - 2) + (j + 1) = fresh + L
    BY <1>2
  <2>2. /\ r.next = c + 1 /\ Len(r.args) = Len(q.args) - 2 /\ Len(r.out) = Len(q.out) + 1
    BY <1>11, <1>16, <1>17, Zenon
  <2>3. /\ c + 1 \in Nat /\ fresh <= c + 1 /\ (Len(q.args) - 2) + (Len(q.out) + 1) >= 2
        /\ (c + 1) + (Len(q.args) - 2) + (Len(q.out) + 1) = fresh + L
    BY <2>1, <1>1, <1>3, Zenon
  <2> QED
    BY <2>2, <2>3, Zenon
<1>20. fresh .. (r.next - 1) = G
  <2>1. r.next = c + 1
    BY <1>11
  <2> HIDE DEF r
  <2> QED
    BY <2>1, <1>1, <1>18
<1>21. /\ r.args \in Seq(S \cup G) /\ r.out \in Seq(S \cup G)
       /\ GraphInv(r.g, det, ret)
       /\ r.g.alive = h.alive \cup G
       /\ r.g.sources \subseteq h.sources
       /\ \A z \in Node \ G : r.g.operands[z] = h.operands[z]
       /\ \A z \in G : Below(r.g, z) \subseteq S \cup (fresh .. (z - 1))
  BY <1>10, <1>11, <1>12, <1>13, <1>14, <1>15, <1>16, <1>17
<1> HIDE DEF r, G
<1>22. Growing(r, h, fresh, S, L, det, ret)
  BY <1>19, <1>20, <1>21 DEF Growing
<1> QED
  BY <1>22 DEF r

\* The next level rearranges the elements.
LEMMA NextLevelGrows ==
  ASSUME NEW q, NEW h, NEW fresh, NEW S, NEW L, NEW det, NEW ret,
         Growing(q, h, fresh, S, L, det, ret)
  PROVE  Growing(NextLevel(q), h, fresh, S, L, det, ret)
<1> DEFINE F == fresh .. (q.next - 1)
           X == S \cup F
           a == q.args
           o == q.out
           r == NextLevel(q)
<1>1. /\ q.next \in Nat /\ fresh <= q.next
      /\ GraphInv(q.g, det, ret)
      /\ q.g.alive = h.alive \cup F
      /\ q.g.sources \subseteq h.sources
      /\ a \in Seq(X) /\ o \in Seq(X)
      /\ Len(a) + Len(o) >= 2
      /\ q.next + Len(a) + Len(o) = fresh + L
      /\ \A z \in Node \ F : q.g.operands[z] = h.operands[z]
      /\ \A z \in F : Below(q.g, z) \subseteq S \cup (fresh .. (z - 1))
  BY DEF Growing
<1>2. /\ r.g = q.g /\ r.next = q.next /\ r.args = o \o a /\ r.out = <<>>
  BY DEF NextLevel
<1> HIDE DEF a, o, r, X
<1>3. /\ o \o a \in Seq(X) /\ Len(o \o a) = Len(o) + Len(a)
      /\ Len(a) \in Nat /\ Len(o) \in Nat
  BY <1>1, ConcatProperties, LenProperties
<1>4. <<>> \in Seq(X) /\ Len(<<>>) = 0
  BY EmptySeq
<1>5. /\ r.args \in Seq(X) /\ r.out \in Seq(X)
      /\ Len(r.args) = Len(o) + Len(a) /\ Len(r.out) = 0
  BY <1>2, <1>3, <1>4
<1>6. /\ Len(r.args) + Len(r.out) >= 2
      /\ r.next + Len(r.args) + Len(r.out) = fresh + L
  <2>1. \A i, j, k \in Nat : i + j >= 2 /\ k + i + j = fresh + L =>
           (j + i) + 0 >= 2 /\ k + (j + i) + 0 = fresh + L
    OBVIOUS
  <2>2. /\ (Len(o) + Len(a)) + 0 >= 2
        /\ q.next + (Len(o) + Len(a)) + 0 = fresh + L
    BY <2>1, <1>1, <1>3, Zenon
  <2>3. r.next = q.next /\ Len(r.args) = Len(o) + Len(a) /\ Len(r.out) = 0
    BY <1>2, <1>5, Zenon
  <2> QED
    BY <2>2, <2>3, Zenon
<1> HIDE DEF F
<1>7. fresh .. (r.next - 1) = F
  BY <1>2 DEF F
<1>8. /\ r.next \in Nat /\ fresh <= r.next
      /\ GraphInv(r.g, det, ret)
      /\ r.g.alive = h.alive \cup F
      /\ r.g.sources \subseteq h.sources
      /\ \A z \in Node \ F : r.g.operands[z] = h.operands[z]
      /\ \A z \in F : Below(r.g, z) \subseteq S \cup (fresh .. (z - 1))
      /\ r.args \in Seq(S \cup F) /\ r.out \in Seq(S \cup F)
  BY <1>1, <1>2, <1>5 DEF X
<1>9. Growing(r, h, fresh, S, L, det, ret)
  BY <1>6, <1>7, <1>8 DEF Growing
<1> QED
  BY <1>9 DEF r

\* A turn is a join, a rearrangement, or nothing.
LEMMA TurnGrows ==
  ASSUME NEW q, NEW h, NEW fresh, NEW S, NEW L, NEW det, NEW ret,
         Roomy(h, fresh, S, L, det, ret), Growing(q, h, fresh, S, L, det, ret)
  PROVE  Growing(Turn(q), h, fresh, S, L, det, ret)
<1>1. CASE Balanced(q)
  BY <1>1 DEF Turn
<1>2. CASE ~Balanced(q) /\ Len(q.args) < 2
  <2>1. Turn(q) = NextLevel(q)
    BY <1>2 DEF Turn
  <2> QED
    BY <2>1, NextLevelGrows
<1>3. CASE ~Balanced(q) /\ ~(Len(q.args) < 2)
  <2>1. Turn(q) = Join(q)
    BY <1>3 DEF Turn
  <2> DEFINE a == q.args
             o == q.out
             X == S \cup (fresh .. (q.next - 1))
  <2>2. a \in Seq(X) /\ o \in Seq(X)
    BY DEF Growing
  <2>3. ~(o = <<>> /\ Len(a) <= 2) /\ ~(Len(a) < 2)
    BY <1>3 DEF Balanced
  <2> HIDE DEF a, o, X
  <2>4. Len(a) \in Nat /\ Len(o) \in Nat /\ (o # <<>> => Len(o) # 0)
    BY <2>2, LenProperties, EmptySeq
  <2>5. Len(a) >= 2 /\ Len(a) + Len(o) >= 3
    <3>1. \A i, j \in Nat : ~(i < 2) /\ (j # 0 \/ ~(i <= 2)) => i >= 2 /\ i + j >= 3
      OBVIOUS
    <3> QED
      BY <3>1, <2>3, <2>4, Zenon
  <2> QED
    BY <2>1, <2>5, JoinGrows DEF a, o
<1> QED
  BY <1>1, <1>2, <1>3

\* Balancing grows the graph at every turn.
LEMMA TurnsGrow ==
  ASSUME NEW h, NEW fresh, NEW S, NEW s, NEW det, NEW ret,
         GraphInv(h, det, ret), s \in Seq(S), Len(s) >= 2, Roomy(h, fresh, S, Len(s), det, ret)
  PROVE  \A i \in 0 .. (2 * Len(s)) :
            Growing(Turns(h, fresh, s)[i], h, fresh, S, Len(s), det, ret)
<1> DEFINE q == Turns(h, fresh, s)
           L == Len(s)
           Grows(i) == Growing(q[i], h, fresh, S, L, det, ret)
           Bad == {i \in 0 .. (2 * L) : ~Grows(i)}
<1>1. L \in Nat
  BY LenProperties
<1>2. /\ q[0] = [g |-> h, next |-> fresh, args |-> s, out |-> <<>>]
      /\ \A i \in 1 .. (2 * L) : q[i] = Turn(q[i - 1])
  BY <1>1, TurnsFollow DEF Follows
<1> HIDE DEF q
<1>3. Grows(0)
  <2>1. fresh .. (fresh - 1) = {} /\ fresh \in Nat
    BY DEF Roomy
  <2>2. <<>> \in Seq(S) /\ Len(<<>>) = 0
    BY EmptySeq
  <2>3. S \cup {} = S /\ h.alive \cup {} = h.alive
    OBVIOUS
  <2> DEFINE p == [g |-> h, next |-> fresh, args |-> s, out |-> <<>>]
  <2>4. p.g = h /\ p.next = fresh /\ p.args = s /\ p.out = <<>>
    OBVIOUS
  <2>5. /\ Len(s) + Len(<<>>) >= 2
        /\ fresh + Len(s) + Len(<<>>) = fresh + L
    <3>1. \A k \in Nat : k >= 2 => k + 0 >= 2 /\ fresh + k + 0 = fresh + k
      BY <2>1
    <3> QED
      BY <1>1, <2>2, <3>1, Zenon
  <2> HIDE DEF p
  <2>6. Growing(p, h, fresh, S, L, det, ret)
    BY <2>1, <2>2, <2>3, <2>4, <2>5 DEF Growing
  <2> QED
    BY <1>2, <2>6 DEF p
<1>4. ASSUME Bad # {} PROVE FALSE
  <2>1. Bad \in SUBSET Nat
    BY <1>1
  <2>2. PICK i \in Bad : \A j \in Bad : i <= j
    BY <1>4, <2>1, LeastNumber
  <2>3. i \in 1 .. (2 * L) /\ i - 1 \in 0 .. (2 * L) /\ ~(i <= i - 1)
    BY <1>1, <1>3, <2>2
  <2>4. Grows(i - 1)
    BY <2>2, <2>3
  <2>5. Grows(i)
    BY <1>2, <2>3, <2>4, TurnGrows
  <2> QED
    BY <2>2, <2>5
<1>5. \A i \in 0 .. (2 * L) : Grows(i)
  BY <1>4
<1> QED
  BY <1>5 DEF q

\* And so to the end.
LEMMA BalanceGrows ==
  ASSUME NEW h, NEW fresh, NEW S, NEW s, NEW det, NEW ret,
         GraphInv(h, det, ret), s \in Seq(S), Len(s) >= 2, Roomy(h, fresh, S, Len(s), det, ret)
  PROVE  Growing(Balance(h, fresh, s), h, fresh, S, Len(s), det, ret)
<1>1. Len(s) \in Nat
  BY LenProperties
<1>2. 2 * Len(s) \in 0 .. (2 * Len(s))
  BY <1>1
<1> QED
  BY <1>2, TurnsGrow DEF Balance

\* f is the graph h after node n was balanced over the sequence s.
Expanding(h, f, r, n, fresh, s) ==
  /\ r = Balance(h, fresh, s)
  /\ f = SetOperands(r.g, n, AsBag(r.args))

\* What balancing leaves of a graph: new nodes between a node and its operands.
LEMMA ExpandedGraph ==
  ASSUME NEW h, Sound(h), NEW n \in h.alive, NEW fresh \in Nat, \A x \in h.alive : x < fresh,
         NEW s \in Seq(Elements(h.operands[n])), Len(s) > 2, fresh + Len(s) - 2 <= MaxNode,
         NEW r, NEW f, Expanding(h, f, r, n, fresh, s)
  PROVE  LET F == fresh .. (r.next - 1) IN
         /\ Sound(f) /\ f.alive = h.alive \cup F
         /\ r.next \in Nat /\ r.next <= MaxNode
         /\ F \subseteq Node /\ F \cap h.alive = {}
         /\ \A x \in F : x < r.next
         /\ \A x \in h.alive : x < r.next
         /\ \A x \in Node \ (F \cup {n}) : Below(f, x) = Below(h, x)
         /\ Below(f, n) \subseteq Below(h, n) \cup F
         /\ \A x \in F : Below(f, x) \subseteq Below(h, n) \cup F
         /\ f.sources \subseteq h.sources \cup {n}
<1> DEFINE F == fresh .. (r.next - 1)
           S == Elements(h.operands[n])
           L == Len(s)
           k == r.next
           b == AsBag(r.args)
<1>1. PICK det, ret \in SUBSET Node : Settled(h, det, ret)
  BY DEF Sound
<1>2. GraphInv(h, det, ret) /\ ret \subseteq det /\ det \subseteq h.alive
  BY <1>1 DEF Settled
<1>3. /\ h.alive \subseteq Node
      /\ h.operands \in [Node -> Bag]
      /\ \A x, m \in Node : x \in Preds(h, FALSE, m) <=> m \in Preds(h, TRUE, x)
      /\ \A x, m \in Node : m \in Preds(h, TRUE, x) =>
            x \in h.alive \ det /\ m \in h.alive \ det
  BY <1>1, SettledFacts
<1>4. S = Below(h, n) /\ S \subseteq Node
  BY DEF Elements, Below, Preds
<1> HIDE DEF S
<1>5. L \in Nat /\ s \in Seq(S)
  BY LenProperties DEF S
<1>6. n \in Node /\ n \in h.alive \ det /\ S \subseteq h.alive \ det
  <2>1. s[1] \in S
    <3>1. 1 \in 1 .. Len(s)
      BY <1>5
    <3> QED
      BY <3>1, <1>5, ElementOfSeq
  <2>2. \A m \in S : m \in Preds(h, TRUE, n) /\ m \in Node
    BY <1>4 DEF Below
  <2>3. n \in Node
    BY <1>3
  <2> QED
    BY <2>1, <2>2, <2>3, <1>3
<1>7. Roomy(h, fresh, S, L, det, ret)
  BY <1>2, <1>3, <1>5, <1>6 DEF Roomy
<1>8. Growing(r, h, fresh, S, L, det, ret)
  <2>1. L >= 2
    BY <1>5
  <2>2. Growing(Balance(h, fresh, s), h, fresh, S, L, det, ret)
    BY <2>1, <1>2, <1>5, <1>7, BalanceGrows
  <2> QED
    BY <2>2 DEF Expanding
<1>9. /\ k \in Nat /\ fresh <= k
      /\ GraphInv(r.g, det, ret)
      /\ r.g.alive = h.alive \cup F
      /\ r.g.sources \subseteq h.sources
      /\ r.args \in Seq(S \cup F) /\ r.out \in Seq(S \cup F)
      /\ Len(r.args) + Len(r.out) >= 2
      /\ k + Len(r.args) + Len(r.out) = fresh + L
      /\ \A x \in Node \ F : r.g.operands[x] = h.operands[x]
      /\ \A x \in F : Below(r.g, x) \subseteq S \cup (fresh .. (x - 1))
  BY <1>8 DEF Growing
<1>10. k <= MaxNode
  <2>1. Len(r.args) \in Nat /\ Len(r.out) \in Nat
    BY <1>9, LenProperties
  <2>2. \A i, j, z \in Nat : i + j >= 2 /\ z + i + j = fresh + L => z <= MaxNode
    BY <1>5, MaxNodeAssumption
  <2> QED
    BY <2>1, <2>2, <1>9, Zenon
<1>11. /\ F \subseteq Node
       /\ \A x \in F : x < k /\ ~(x < fresh) /\ x \in Nat
       /\ \A x \in h.alive : x < k
  <2>1. F \subseteq Node
    BY <1>9, <1>10, MaxNodeAssumption DEF Node
  <2>2. \A x \in F : x < k /\ ~(x < fresh) /\ x \in Nat
    BY <1>9
  <2>3. \A x \in Nat : x < fresh => x < k
    BY <1>9
  <2>4. Node \subseteq Nat
    BY MaxNodeAssumption DEF Node
  <2> QED
    BY <2>1, <2>2, <2>3, <2>4, <1>3
<1> HIDE DEF F
<1>12. F \cap h.alive = {} /\ n \notin F
  BY <1>11
<1>13. b \in Bag /\ \A m \in Node : b[m] > 0 => m \in S \cup F
  <2> DEFINE a == r.args
  <2>1. a \in Seq(S \cup F) /\ S \cup F \subseteq Node
    BY <1>4, <1>9, <1>11
  <2> HIDE DEF a
  <2>2. a \in Seq(Node)
    BY <2>1, SeqMonotonic
  <2>3. AsBag(a) \in Bag /\ \A m \in Node : AsBag(a)[m] > 0 <=> \E i \in 1 .. Len(a) : a[i] = m
    BY <2>2, AsBagFacts
  <2>4. \A i \in 1 .. Len(a) : a[i] \in S \cup F
    BY <2>1, ElementOfSeq
  <2>5. AsBag(a) \in Bag /\ \A m \in Node : AsBag(a)[m] > 0 => m \in S \cup F
    BY <2>3, <2>4
  <2> QED
    BY <2>5 DEF a
<1> DEFINE e == r.g
<1>14. f = SetOperands(e, n, b)
  BY DEF Expanding
<1> HIDE DEF b
<1>15. GraphInv(f, det, ret)
  <2>1. n \in e.alive /\ \A m \in Node : b[m] > 0 => m \in e.alive
    BY <1>6, <1>9, <1>13
  <2>2. GraphInv(e, det, ret)
    BY <1>9
  <2> HIDE DEF e
  <2>3. GraphInv(f, det \ {n}, ret \ Elements(b))
    BY <2>1, <2>2, <1>13, <1>14, SetOperandsInv
  <2>4. Elements(b) \subseteq S \cup F
    BY <1>13 DEF Elements
  <2>5. det \ {n} = det /\ ret \ Elements(b) = ret
    <3>1. ret \cap (S \cup F) = {}
      BY <1>2, <1>6, <1>12
    <3> QED
      BY <3>1, <2>4, <1>6
  <2> QED
    BY <2>3, <2>5
<1>16. /\ f.alive = h.alive \cup F
       /\ f.operands = [e.operands EXCEPT ![n] = b]
       /\ f.sources \subseteq e.sources \cup {n}
  <2>1. f.alive = e.alive /\ f.operands = [e.operands EXCEPT ![n] = b]
    BY <1>14 DEF SetOperands
  <2> HIDE DEF e
  <2>2. f.sources \subseteq e.sources \cup {n}
    BY <1>14 DEF SetOperands
  <2> QED
    BY <2>1, <2>2, <1>9 DEF e
<1>17. e.operands \in [Node -> Bag]
  BY <1>9 DEF GraphInv, Typed
<1> HIDE DEF e
<1>18. f.operands[n] = b /\ \A x \in Node \ {n} : f.operands[x] = e.operands[x]
  BY <1>6, <1>16, <1>17
<1>19. Below(f, n) \subseteq S \cup F
  BY <1>13, <1>18 DEF Below, Preds
<1>20. \A x \in Node \ (F \cup {n}) : Below(f, x) = Below(h, x)
  <2>1. \A x \in Node \ (F \cup {n}) : f.operands[x] = h.operands[x]
    BY <1>9, <1>18 DEF e
  <2> QED
    BY <2>1 DEF Below, Preds
<1>21. ASSUME NEW x \in F PROVE Below(f, x) \subseteq S \cup {y \in F : y < x}
  <2>1. Below(f, x) = Below(e, x)
    <3>1. f.operands[x] = e.operands[x]
      BY <1>11, <1>12, <1>18
    <3> QED
      BY <3>1 DEF Below, Preds
  <2>2. fresh .. (x - 1) \subseteq {y \in F : y < x}
    BY <1>9, <1>11 DEF F
  <2> QED
    BY <2>1, <2>2, <1>9 DEF e
<1>22. ASSUME NEW x \in Node PROVE Below(h, x) \subseteq h.alive \ det
  <2>1. \A m \in Preds(h, TRUE, x) : m \in Node
    BY DEF Preds
  <2> QED
    BY <2>1, <1>3 DEF Below
<1>23. Settled(f, det, ret)
  <2>1. ASSUME NEW x \in Node PROVE Below(f, x) \subseteq (h.alive \ det) \cup F
    <3>1. CASE x = n
      BY <3>1, <1>6, <1>19
    <3>2. CASE x \in F
      BY <3>2, <1>6, <1>21
    <3>3. CASE x \notin F \cup {n}
      BY <3>3, <1>20, <1>22
    <3> QED
      BY <3>1, <3>2, <3>3
  <2>2. \A d \in det : d \notin F
    BY <1>2, <1>12
  <2>3. \A d \in det : \A x \in Node : d \notin Below(f, x)
    BY <2>1, <2>2
  <2>4. \A d \in det : \A x \in Node : d \notin Preds(f, TRUE, x)
    BY <2>3 DEF Below
  <2>5. det \subseteq f.alive
    BY <1>2, <1>16
  <2> QED
    BY <2>4, <2>5, <1>2, <1>15, SettledAgain
<1>24. Balances(h, f, F, n)
  <2>1. \A x \in Node : Below(h, x) \cap F = {}
    BY <1>12, <1>22
  <2>2. Below(f, n) \subseteq Below(h, n) \cup F
    BY <1>4, <1>19
  <2>3. \A x \in F : Below(f, x) \subseteq Below(h, n) \cup {y \in F : y < x}
    BY <1>4, <1>21
  <2> QED
    BY <2>1, <2>2, <2>3, <1>20 DEF Balances, Below
<1>25. \A x, m \in Node : x \in Preds(f, FALSE, m) <=> m \in Preds(f, TRUE, x)
  BY <1>23, SettledFacts
<1>26. Acyclic(f, TRUE)
  <2>1. Acyclic(h, TRUE)
    BY DEF Sound
  <2> QED
    BY <2>1, <1>6, <1>11, <1>12, <1>24, BalancedForward
<1>27. Acyclic(f, FALSE)
  <2>1. Acyclic(h, FALSE)
    BY DEF Sound
  <2> QED
    BY <2>1, <1>3, <1>6, <1>11, <1>12, <1>24, <1>25, BalancedBackward
<1>28. Sound(f)
  BY <1>23, <1>26, <1>27, SettledSound
<1>29. /\ Below(f, n) \subseteq Below(h, n) \cup F
       /\ \A x \in F : Below(f, x) \subseteq Below(h, n) \cup F
       /\ f.sources \subseteq h.sources \cup {n}
  <2>1. e.sources \subseteq h.sources
    BY <1>9 DEF e
  <2> QED
    BY <2>1, <1>4, <1>16, <1>19, <1>21
<1> QED
  BY <1>9, <1>10, <1>11, <1>12, <1>16, <1>20, <1>28, <1>29 DEF F

\* Balancing is gentle: the new nodes lie over processed ones.
LEMMA ExpandingGentle ==
  ASSUME NEW h, Sound(h), NEW T, NEW E, NEW V, InOrder(T, h, TRUE, E, V), NEW n \in T.todo,
         NEW fresh \in Nat, \A x \in h.alive : x < fresh,
         NEW s \in Seq(Elements(h.operands[n])), Len(s) > 2, fresh + Len(s) - 2 <= MaxNode,
         NEW r, NEW f, Expanding(h, f, r, n, fresh, s)
  PROVE  Gentle(T, h, f, TRUE, E, n, TRUE)
<1> DEFINE open == OpenNodes(T, E)
           P(x) == Preds(h, TRUE, x)
           Q(x) == Preds(f, TRUE, x)
           F == fresh .. (r.next - 1)
           new == Roots(f, TRUE) \ T.ready
<1>1. /\ T.ready \subseteq h.alive /\ E \subseteq h.alive /\ h.alive \subseteq Node
      /\ T.ready = T.todo \cup V /\ T.todo \cap V = {} /\ T.processed \subseteq V
      /\ h.sources \subseteq T.ready
      /\ \A x \in Node : P(x) \cap open # {} => x \in E \ T.ready
      /\ \A x \in T.todo : P(x) \subseteq T.processed
  BY DEF InOrder, Roots
<1>2. /\ n \in h.alive /\ n \in Node /\ n \in open /\ n \in T.ready /\ open \subseteq h.alive
      /\ n \notin T.processed /\ P(n) \subseteq T.processed
      /\ T.processed \cap open = {}
  BY <1>1 DEF OpenNodes
<1>3. /\ Sound(f) /\ f.alive = h.alive \cup F
      /\ F \subseteq Node /\ F \cap h.alive = {}
      /\ \A x \in Node \ (F \cup {n}) : Q(x) = P(x)
      /\ Q(n) \subseteq P(n) \cup F
      /\ \A x \in F : Q(x) \subseteq P(n) \cup F
      /\ f.sources \subseteq h.sources \cup {n}
  <2>1. n \in h.alive
    BY <1>2
  <2> HIDE DEF P, Q, open
  <2>2. /\ Sound(f) /\ f.alive = h.alive \cup F
        /\ F \subseteq Node /\ F \cap h.alive = {}
        /\ \A x \in Node \ (F \cup {n}) : Below(f, x) = Below(h, x)
        /\ Below(f, n) \subseteq Below(h, n) \cup F
        /\ \A x \in F : Below(f, x) \subseteq Below(h, n) \cup F
        /\ f.sources \subseteq h.sources \cup {n}
    BY <2>1, ExpandedGraph
  <2> QED
    BY <2>2, Zenon DEF P, Q, Below
<1> HIDE DEF F
<1>4. /\ \A x \in Node : x \in Succs(h, TRUE, n) <=> n \in P(x)
      /\ \A x \in Node : x \in Succs(f, TRUE, n) <=> n \in Q(x)
      /\ Succs(f, TRUE, n) \subseteq Node
  <2>1. \A x \in Node : x \in Succs(h, TRUE, n) <=> n \in P(x)
    BY <1>2, SoundEdges
  <2>2. \A x \in Node : x \in Succs(f, TRUE, n) <=> n \in Q(x)
    BY <1>2, <1>3, SoundEdges
  <2> QED
    BY <2>1, <2>2 DEF Succs, Preds
<1>5. new = {}
  BY <1>1, <1>2, <1>3 DEF Roots
<1> HIDE DEF P, Q, new
<1>6. F \cap open = {} /\ n \notin F /\ F \cap T.ready = {} /\ F \cap E = {}
  BY <1>1, <1>2, <1>3
<1> HIDE DEF open
<1>7. ASSUME NEW x \in Node
      PROVE  Q(x) \cap (open \ {n}) \subseteq P(x)
  <2>1. CASE x \in F \cup {n}
    <3>1. Q(x) \subseteq P(n) \cup F
      BY <2>1, <1>3
    <3> QED
      BY <3>1, <1>2, <1>6
  <2>2. CASE x \notin F \cup {n}
    BY <2>2, <1>3
  <2> QED
    BY <2>1, <2>2
<1>8. h.alive \subseteq f.alive /\ f.alive \subseteq Node /\ new \subseteq f.alive
  BY <1>1, <1>3, <1>5
<1>9. \A x \in new : Q(x) = {}
  BY <1>5
<1>10. \A x \in Node : /\ Q(x) \cap new # {} => x \in E \ T.ready
                       /\ Q(x) \cap (open \ {n}) \subseteq P(x)
  BY <1>5, <1>7
<1>11. \A x \in T.todo \ {n} : Q(x) \subseteq P(x)
  BY <1>1, <1>3, <1>6
<1>12. ASSUME NEW x \in E \ T.ready PROVE Q(x) = P(x)
  <2>1. x \in Node /\ x # n /\ x \notin F
    BY <1>1, <1>2, <1>6
  <2> QED
    BY <2>1, <1>3
<1>13. \A x \in E \ T.ready :
          /\ Q(x) \subseteq (P(x) \ {n}) \cup T.processed \cup new \cup (IF TRUE THEN {n} ELSE {})
          /\ n \notin P(x) => P(x) \subseteq Q(x)
  BY <1>12
<1>14. Succs(f, TRUE, n) \subseteq Succs(h, TRUE, n)
  <2>1. ASSUME NEW x \in Node, n \in Q(x) PROVE n \in P(x)
    <3>1. CASE x \in F \cup {n}
      <4>1. Q(x) \subseteq P(n) \cup F
        BY <3>1, <1>3
      <4> QED
        BY <4>1, <2>1, <1>2, <1>6
    <3>2. CASE x \notin F \cup {n}
      BY <3>2, <2>1, <1>3
    <3> QED
      BY <3>1, <3>2
  <2> QED
    BY <2>1, <1>4
<1>15. \A x \in Node : x \in Succs(h, TRUE, n) <=> n \in P(x)
  BY <1>4
<1> QED
  BY <1>8, <1>9, <1>10, <1>11, <1>13, <1>14, <1>15, Zenon DEF Gentle, P, Q, open, new

\* Cleaning is gentle: what loses its last use becomes a root.
LEMMA CleaningGentle ==
  ASSUME NEW h, Sound(h), NEW T, NEW E, NEW V, InOrder(T, h, FALSE, E, V), NEW n \in T.todo,
         IsNone(h.uses[n])
  PROVE  Gentle(T, h, CleanNode(h, n), FALSE, E, n, FALSE)
<1> DEFINE f == CleanNode(h, n)
           open == OpenNodes(T, E)
           P(x) == Preds(h, FALSE, x)
           Q(x) == Preds(f, FALSE, x)
           new == Roots(f, FALSE) \ T.ready
<1>1. /\ T.ready \subseteq h.alive /\ E \subseteq h.alive /\ h.alive \subseteq Node
      /\ T.ready = T.todo \cup V
      /\ h.sinks \subseteq T.ready
      /\ \A x \in Node : P(x) \cap open # {} => x \in E \ T.ready
  BY DEF InOrder, Roots
<1>2. n \in h.alive /\ n \in Node /\ n \in open
  BY <1>1 DEF OpenNodes
<1>3. /\ Sound(f) /\ f.alive = h.alive
      /\ \A x \in Node : Q(x) = P(x) \ {n}
      /\ \A x \in f.sinks : x \in h.sinks \/ x \in Preds(h, TRUE, n)
  BY <1>2, CleanedGraph
<1>4. /\ \A x \in Node : x \in Succs(h, FALSE, n) <=> n \in P(x)
      /\ \A x \in Node : n \in P(x) <=> x \in Preds(h, TRUE, n)
  BY <1>2, SoundEdges
<1>5. /\ Roots(f, FALSE) \subseteq f.alive
      /\ \A x \in Roots(f, FALSE) : Q(x) = {}
  BY <1>3, SoundEdges
<1>6. Roots(f, FALSE) = f.sinks
  BY DEF Roots
<1> HIDE DEF f, P, Q
<1>7. ASSUME NEW x \in new PROVE x \in open /\ x \in Node
  <2>1. x \in f.sinks /\ x \notin T.ready /\ x \in Node
    BY <1>1, <1>3, <1>5, <1>6
  <2>2. x \in Preds(h, TRUE, n)
    BY <2>1, <1>1, <1>3
  <2>3. x \in E \ T.ready
    BY <2>1, <2>2, <1>1, <1>2, <1>4
  <2> QED
    BY <2>1, <2>3 DEF OpenNodes
<1> HIDE DEF open
<1>8. h.alive \subseteq f.alive /\ f.alive \subseteq Node /\ new \subseteq f.alive
  BY <1>1, <1>3, <1>5
<1>9. \A x \in new : Q(x) = {}
  BY <1>5
<1> HIDE DEF new
<1>10. \A x \in Node : /\ Q(x) \cap new # {} => x \in E \ T.ready
                       /\ Q(x) \cap (open \ {n}) \subseteq P(x)
  BY <1>1, <1>3, <1>7
<1>11. \A x \in T.todo \ {n} : Q(x) \subseteq P(x)
  BY <1>1, <1>3
<1>12. \A x \in E \ T.ready :
          /\ Q(x) \subseteq (P(x) \ {n}) \cup T.processed \cup new \cup (IF FALSE THEN {n} ELSE {})
          /\ n \notin P(x) => P(x) \subseteq Q(x)
  BY <1>1, <1>3
<1>13. \A x \in Node : x \in Succs(h, FALSE, n) <=> n \in P(x)
  BY <1>4
<1>14. FALSE => Succs(f, FALSE, n) \subseteq Succs(h, FALSE, n)
  OBVIOUS
<1>15. Gentle(T, h, f, FALSE, E, n, FALSE)
  BY <1>8, <1>9, <1>10, <1>11, <1>12, <1>13, <1>14, Zenon DEF Gentle, P, Q, open, new
<1> QED
  BY <1>15 DEF f
-----------------------------------------------------------------------------
(* The invariant                                                           *)

\* The factory's graph is sound: operands have smaller numbers.
LEMMA LoadedSound ==
  ASSUME NEW p \in Programs
  PROVE  /\ Sound(Loaded(p))
         /\ Cardinality(Loaded(p).alive) \in Nat /\ Cardinality(Loaded(p).alive) <= MaxNode
         /\ \A n \in Loaded(p).alive : n < Cardinality(Loaded(p).alive)
<1> DEFINE h == Loaded(p)
           made == {n \in Node : p.op[n] # "None"}
<1>1. PICK k \in 0 .. MaxNode : \A n \in Node : p.op[n] # "None" <=> n < k
  BY ProgramsAssumption
<1>2. /\ p.operands \in [Node -> Bag]
      /\ \A n, m \in Node : p.operands[n][m] > 0 => m < n /\ p.op[n] # "None"
  BY ProgramsAssumption
<1>3. k \in Nat /\ k <= MaxNode /\ Node \subseteq Nat
  BY <1>1, MaxNodeAssumption DEF Node
<1>4. made = 0 .. (k - 1)
  BY <1>1, <1>3, MaxNodeAssumption DEF Node
<1>5. Cardinality(made) = k
  <2>1. Cardinality(0 .. (k - 1)) = IF 0 > k - 1 THEN 0 ELSE k - 1 - 0 + 1
    <3>1. 0 \in Int /\ k - 1 \in Int
      BY <1>3
    <3> QED
      BY <3>1, FS_Interval
  <2>2. (IF 0 > k - 1 THEN 0 ELSE k - 1 - 0 + 1) = k
    BY <1>3
  <2> HIDE DEF made
  <2> QED
    BY <2>1, <2>2, <1>4, Zenon
<1>6. /\ h.alive = made /\ h.operands = p.operands
      /\ h.uses = [m \in Node |-> [n \in Node |-> p.operands[n][m]]]
      /\ h.sources = {n \in made : IsNone(p.operands[n])}
      /\ h.sinks = {n \in made : \A u \in Node : p.operands[u][n] = 0}
      /\ h = [alive |-> h.alive, operands |-> h.operands, uses |-> h.uses,
              sources |-> h.sources, sinks |-> h.sinks]
  BY DEF Loaded
<1> HIDE DEF h
<1>7. \A n, m \in Node : p.operands[n][m] \in Nat
  BY <1>2 DEF Bag
<1>8. \A n, m \in Node : h.uses[m][n] = h.operands[n][m]
  BY <1>6
<1>9. h.uses \in [Node -> Bag]
  BY <1>6, <1>7 DEF Bag
<1>10. Typed(h)
  BY <1>2, <1>6, <1>9 DEF Typed
<1>11. Inside(h)
  <2>1. ASSUME NEW n \in Node, NEW m \in Node, p.operands[n][m] > 0
        PROVE  n \in made /\ m \in made
    <3>1. m < n /\ n < k /\ n \in Nat /\ m \in Nat
      BY <2>1, <1>1, <1>2, <1>3
    <3>2. m < k
      BY <3>1, <1>3
    <3> QED
      BY <3>1, <3>2, <1>1
  <2>2. h.sources \cup h.sinks \subseteq h.alive
    BY <1>6
  <2> QED
    BY <2>1, <2>2, <1>6 DEF Inside
<1>12. RootsExact(h, {}, {})
  <2>1. made \subseteq Node
    OBVIOUS
  <2> HIDE DEF made
  <2> QED
    BY <2>1, <1>6, <1>8 DEF RootsExact, IsNone
<1>13. Settled(h, {}, {})
  BY <1>8, <1>10, <1>11, <1>12 DEF Settled, GraphInv, Mirror, HistoryIdle
<1>14. \A n, m \in Node : n \in Preds(h, FALSE, m) <=> m \in Preds(h, TRUE, n)
  BY <1>13, SettledFacts
<1>15. \A n, m \in Node : m \in Preds(h, TRUE, n) => m < n
  BY <1>2, <1>6 DEF Preds
<1>16. Acyclic(h, TRUE)
  <2> SUFFICES ASSUME NEW R \in SUBSET Node, R # {}
               PROVE  \E x \in R : Preds(h, TRUE, x) \cap R = {}
    BY DEF Acyclic
  <2>1. PICK x \in R : \A y \in R : x <= y
    BY <1>3, LeastNumber
  <2>2. ASSUME NEW y \in R, y \in Preds(h, TRUE, x) PROVE FALSE
    <3>1. y < x /\ x <= y /\ x \in Nat /\ y \in Nat
      BY <2>1, <2>2, <1>3, <1>15
    <3> QED
      BY <3>1
  <2> QED
    BY <2>2
<1>17. Acyclic(h, FALSE)
  <2> SUFFICES ASSUME NEW R \in SUBSET Node, R # {}
               PROVE  \E x \in R : Preds(h, FALSE, x) \cap R = {}
    BY DEF Acyclic
  <2>1. R \in SUBSET (0 .. MaxNode)
    BY MaxNodeAssumption DEF Node
  <2>2. PICK x \in R : \A y \in R : y <= x
    BY <2>1, MaxNodeAssumption, LargestNumber
  <2>3. ASSUME NEW y \in R, y \in Preds(h, FALSE, x) PROVE FALSE
    <3>1. x < y /\ y <= x /\ x \in Nat /\ y \in Nat
      BY <2>2, <2>3, <1>3, <1>14, <1>15
    <3> QED
      BY <3>1
  <2> QED
    BY <2>3
<1>18. Sound(h)
  BY <1>13, <1>16, <1>17, SettledSound
<1>19. \A n \in made : n < k
  BY <1>1
<1> QED
  BY <1>3, <1>5, <1>6, <1>18, <1>19 DEF h

\* A pass that begins has everything still to do.
LEMMA BegunOK ==
  ASSUME Sound(g), t = Begin(g, Forward(Passes[at])), seen = {}, entry = Attached(g)
  PROVE  OrderOK /\ CleanOK
<1>1. Forward(Passes[at]) \in BOOLEAN
  BY DEF Forward
<1>2. OrderOK
  BY <1>1, PassBegins DEF OrderOK
<1>3. t.processed = {}
  BY DEF Begin
<1> QED
  BY <1>2, <1>3 DEF CleanOK

\* A program, loaded, is a sound graph and its first pass is in order.
LEMMA InitIInv ==
  ASSUME Init
  PROVE  IInv
<1>1. start \in Programs /\ g = Loaded(start) /\ next = Cardinality(g.alive)
  BY DEF Init
<1>2. GraphOK
  BY <1>1, LoadedSound DEF GraphOK
<1>3. OrderOK /\ CleanOK
  <2>1. Sound(g) /\ t = Begin(g, Forward(Passes[at])) /\ seen = {} /\ entry = Attached(g)
    BY <1>2 DEF Init, GraphOK
  <2> QED
    BY <2>1, BegunOK
<1> QED
  BY <1>2, <1>3 DEF IInv

\* A gentle visit keeps the order.
LEMMA VisitOrdered ==
  ASSUME OrderOK, NEW n \in Node, NEW pass, NEW keep \in BOOLEAN, Visit(pass, n, keep),
         Gentle(t, g, g', Forward(pass), entry, n, keep)
  PROVE  OrderOK'
<1>1. /\ Passes[at] = pass /\ n \in t.todo
      /\ t' = Advance(t, Forward(pass), n, g, g', keep)
      /\ seen' = seen \cup {n} /\ at' = at /\ entry' = entry
  BY DEF Visit
<1>2. InOrder(t, g, Forward(pass), entry, seen)
  BY <1>1 DEF OrderOK
<1>3. InOrder(Advance(t, Forward(pass), n, g, g', keep), g', Forward(pass), entry, seen \cup {n})
  BY <1>1, <1>2, AdvanceInOrder
<1>4. InOrder(t', g', Forward(pass), entry', seen')
  BY <1>1, <1>3
<1>5. Passes[at'] = pass
  BY <1>1
<1> QED
  BY <1>4, <1>5 DEF OrderOK

\* In the forward passes only the graph and the order are at stake.
LEMMA ForwardVisit ==
  ASSUME IInv, NEW n \in Node, NEW pass, pass \notin {"Clean", "Release"},
         Visit(pass, n, TRUE), GraphOK', Gentle(t, g, g', TRUE, entry, n, TRUE)
  PROVE  IInv'
<1>1. Forward(pass) = TRUE
  BY DEF Forward
<1>2. Gentle(t, g, g', Forward(pass), entry, n, TRUE)
  BY <1>1
<1>3. OrderOK'
  BY <1>2, VisitOrdered DEF IInv
<1>4. Passes[at'] = pass
  BY DEF Visit
<1>5. CleanOK'
  BY <1>4 DEF CleanOK
<1> QED
  BY <1>3, <1>5 DEF IInv

\* What a forward pass knows of the node it visits.
LEMMA ForwardFacts ==
  ASSUME IInv, NEW n \in Node, NEW pass, pass \notin {"Clean", "Release"},
         Visit(pass, n, TRUE)
  PROVE  /\ Sound(g) /\ n \in t.todo /\ n \in g.alive
         /\ InOrder(t, g, TRUE, entry, seen)
<1>1. Sound(g) /\ n \in t.todo /\ Passes[at] = pass
  BY DEF IInv, GraphOK, Visit
<1>2. Forward(Passes[at]) = TRUE
  BY <1>1 DEF Forward
<1>3. InOrder(t, g, TRUE, entry, seen)
  BY <1>2 DEF IInv, OrderOK
<1>4. n \in g.alive
  BY <1>1, <1>3 DEF InOrder
<1> QED
  BY <1>1, <1>3, <1>4

\* A visit that leaves the graph as it is.
LEMMA ReadingVisit ==
  ASSUME IInv, NEW n \in Node, NEW pass, pass \notin {"Clean", "Release"},
         Visit(pass, n, TRUE), g' = g, next' = next
  PROVE  IInv'
<1>1. Sound(g) /\ n \in t.todo /\ InOrder(t, g, TRUE, entry, seen)
  BY ForwardFacts
<1>2. Gentle(t, g, g, TRUE, entry, n, TRUE)
  BY <1>1, ReadingGentle
<1>3. GraphOK'
  BY DEF IInv, GraphOK
<1> QED
  BY <1>2, <1>3, ForwardVisit

\* The handlers, one by one, keep the inductive invariant.
LEMMA TypeVisitIInv ==
  ASSUME IInv, NEW n \in Node, TypeVisit(n)
  PROVE  IInv'
<1>1. Visit("Type", n, TRUE) /\ g' = g /\ next' = next
  BY DEF TypeVisit
<1> QED
  BY <1>1, ReadingVisit

\* MultDepthCnt only reads.
LEMMA DepthVisitIInv ==
  ASSUME IInv, NEW n \in Node, DepthVisit(n)
  PROVE  IInv'
<1>1. Visit("Depth", n, TRUE) /\ g' = g /\ next' = next
  BY DEF DepthVisit
<1> QED
  BY <1>1, ReadingVisit

\* Reduction merges a node into its user.
LEMMA ReduceVisitIInv ==
  ASSUME IInv, NEW n \in Node, ReduceVisit(n)
  PROVE  IInv'
<1>1. Visit("Reduce", n, TRUE) /\ next' = next
  BY DEF ReduceVisit, data
<1>2. CASE g' = g
  BY <1>1, <1>2, ReadingVisit
<1>3. CASE \E u \in Elements(g.uses[n]) : ~IsNone(g.operands[n]) /\ g' = Merged(n, u)
  <2>1. PICK u \in Elements(g.uses[n]) : ~IsNone(g.operands[n]) /\ g' = Merged(n, u)
    BY <1>3
  <2>2. Sound(g) /\ n \in t.todo /\ InOrder(t, g, TRUE, entry, seen)
    BY <1>1, ForwardFacts
  <2>3. Sound(g') /\ g'.alive = g.alive
    BY <2>1, <2>2, MergedGraph
  <2>4. GraphOK'
    BY <1>1, <2>3 DEF IInv, GraphOK
  <2>5. Gentle(t, g, g', TRUE, entry, n, TRUE)
    BY <2>1, <2>2, MergingGentle
  <2> QED
    BY <1>1, <2>4, <2>5, ForwardVisit
<1> QED
  BY <1>2, <1>3 DEF ReduceVisit

\* ReductionLogExpander puts nodes between a node and its operands.
LEMMA ExpandVisitIInv ==
  ASSUME IInv, NEW n \in Node, ExpandVisit(n)
  PROVE  IInv'
<1> DEFINE b == g.operands[n]
<1>1. Visit("Expand", n, TRUE)
  BY DEF ExpandVisit
<1>2. CASE g' = g /\ next' = next
  BY <1>1, <1>2, ReadingVisit
<1>3. CASE /\ Total(b) > 2 /\ next + Total(b) - 2 <= MaxNode
           /\ \E s \in Sorted(b) : LET r == Balance(g, next, s) IN
                /\ g' = SetOperands(r.g, n, AsBag(r.args)) /\ next' = r.next
  <2>1. PICK s \in Sorted(b) : LET r == Balance(g, next, s) IN
                /\ g' = SetOperands(r.g, n, AsBag(r.args)) /\ next' = r.next
    BY <1>3
  <2> DEFINE r == Balance(g, next, s)
  <2>2. Expanding(g, g', r, n, next, s) /\ next' = r.next
    BY <2>1 DEF Expanding
  <2>3. Sound(g) /\ n \in t.todo /\ n \in g.alive /\ InOrder(t, g, TRUE, entry, seen)
    BY <1>1, ForwardFacts
  <2>4. b \in Bag
    <3>1. PICK det, ret \in SUBSET Node : Settled(g, det, ret)
      BY <2>3 DEF Sound
    <3>2. g.operands \in [Node -> Bag]
      BY <3>1, SettledFacts
    <3> QED
      BY <3>2
  <2>5. Total(b) \in Nat
    BY <2>4, TotalNat
  <2>6. s \in [1 .. Total(b) -> Elements(b)]
    BY DEF Sorted
  <2> HIDE DEF b, r
  <2>7. s \in Seq(Elements(b)) /\ Len(s) = Total(b)
    BY <2>5, <2>6
  <2>8. /\ next \in Nat /\ \A x \in g.alive : x < next
        /\ Len(s) > 2 /\ next + Len(s) - 2 <= MaxNode
    BY <1>3, <2>7 DEF IInv, GraphOK, b
  <2>9. s \in Seq(Elements(g.operands[n]))
    BY <2>7 DEF b
  <2>10. Gentle(t, g, g', TRUE, entry, n, TRUE)
    BY <2>2, <2>3, <2>8, <2>9, ExpandingGentle
  <2>11. /\ Sound(g') /\ g'.alive = g.alive \cup (next .. (r.next - 1))
         /\ r.next \in Nat /\ r.next <= MaxNode
         /\ \A x \in next .. (r.next - 1) : x < r.next
         /\ \A x \in g.alive : x < r.next
    BY <2>2, <2>3, <2>8, <2>9, ExpandedGraph
  <2>12. GraphOK'
    BY <2>2, <2>11 DEF GraphOK
  <2> QED
    BY <1>1, <2>10, <2>12, ForwardVisit
<1> QED
  BY <1>2, <1>3 DEF ExpandVisit

\* Folding leaves a sound graph with one node more.
LEMMA FoldedSound ==
  ASSUME NEW h, NEW f, NEW n \in h.alive, NEW c \in Node, c \notin h.alive,
         Sound(h), Folding(h, f, n, c)
  PROVE  Sound(f) /\ f.alive = h.alive \cup {c}
BY FoldedGraph, SMTT(30)

\* ConstantHandler puts a new node in the place of another.
LEMMA FoldVisitIInv ==
  ASSUME IInv, NEW n \in Node, FoldVisit(n)
  PROVE  IInv'
<1>1. Visit("Fold", n, TRUE)
  BY DEF FoldVisit
<1>2. CASE g' = g /\ next' = next
  BY <1>1, <1>2, ReadingVisit
<1>3. CASE /\ next < MaxNode /\ next' = next + 1
           /\ g' = ReplaceUses(NewNode(g, next), n, next, Elements(g.uses[n]))
  <2>1. Sound(g) /\ n \in t.todo /\ n \in g.alive /\ InOrder(t, g, TRUE, entry, seen)
    BY <1>1, ForwardFacts
  <2>2. Folding(g, g', n, next)
    BY <1>3 DEF Folding
  <2>3. next \in Nat /\ \A x \in g.alive : x < next
    BY DEF IInv, GraphOK
  <2>4. next \in Node /\ next \notin g.alive
    BY <1>3, <2>3, MaxNodeAssumption DEF Node
  <2>5. Gentle(t, g, g', TRUE, entry, n, TRUE)
    BY <2>1, <2>2, <2>4, FoldingGentle
  <2>6. Sound(g') /\ g'.alive = g.alive \cup {next}
    BY <2>1, <2>2, <2>4, FoldedSound
  <2>7. g.alive \subseteq Nat
    <3>1. Node \subseteq Nat
      BY MaxNodeAssumption DEF Node
    <3>2. g.alive \subseteq Node
      BY <2>1 DEF InOrder
    <3> QED
      BY <3>1, <3>2
  <2>8. next + 1 \in Nat /\ next + 1 <= MaxNode /\ \A x \in g.alive \cup {next} : x < next + 1
    <3>1. \A x \in Nat : x < next => x < next + 1
      BY <2>3
    <3> QED
      BY <1>3, <2>3, <2>7, <3>1, MaxNodeAssumption
  <2>9. GraphOK'
    BY <1>3, <2>6, <2>8 DEF GraphOK
  <2> QED
    BY <1>1, <2>5, <2>9, ForwardVisit
<1> QED
  BY <1>2, <1>3 DEF FoldVisit

\* A clean pass that keeps its node, which is in use or cannot be cleaned.
LEMMA KeptVisitIInv ==
  ASSUME IInv, NEW n \in Node, NEW pass, pass \in {"Clean", "Release"},
         Visit(pass, n, TRUE), g' = g, UNCHANGED data,
         pass = "Clean", ~(IsNone(g.uses[n]) /\ Cleanable(n))
  PROVE  IInv'
<1>1. /\ Passes[at] = pass /\ n \in t.todo /\ seen' = seen \cup {n}
      /\ at' = at /\ entry' = entry
      /\ t' = Advance(t, Forward(pass), n, g, g', TRUE)
  BY DEF Visit
<1>2. Forward(pass) = FALSE
  BY DEF Forward
<1>3. Sound(g) /\ InOrder(t, g, FALSE, entry, seen)
  BY <1>1, <1>2 DEF IInv, GraphOK, OrderOK
<1>4. Gentle(t, g, g', Forward(pass), entry, n, TRUE)
  BY <1>1, <1>2, <1>3, ReadingGentle
<1>5. OrderOK'
  BY <1>4, VisitOrdered DEF IInv
<1>6. GraphOK'
  BY DEF IInv, GraphOK, data
<1>7. t'.processed = t.processed \cup {n}
  BY <1>1 DEF Advance
<1>8. Preds(g, FALSE, n) \subseteq t.processed
  BY <1>1, <1>3 DEF InOrder
<1>9. /\ Attached(g) \subseteq entry
      /\ \A x \in seen \ t.processed : Gone(x)
      /\ \A x \in t.processed : /\ ~IsNone(g.uses[x]) \/ ~Cleanable(x)
                                /\ Preds(g, FALSE, x) \subseteq t.processed
  BY <1>1 DEF IInv, CleanOK
<1>10. /\ Attached(g') = Attached(g)
       /\ \A x : Gone(x)' <=> Gone(x)
       /\ \A x : Cleanable(x)' <=> Cleanable(x)
  BY DEF Attached, Gone, Cleanable, data
<1>11. Attached(g)' \subseteq entry'
  BY <1>1, <1>9, <1>10 DEF Attached
<1>12. \A x \in seen' \ t'.processed : Gone(x)'
  BY <1>1, <1>7, <1>9, <1>10
<1>13. \A x \in t'.processed : ~IsNone(g'.uses[x]) \/ ~Cleanable(x)'
  BY <1>7, <1>9, <1>10
<1>14. \A x \in t'.processed : Preds(g', FALSE, x) \subseteq t'.processed
  BY <1>7, <1>8, <1>9
<1>15. CleanOK'
  BY <1>1, <1>11, <1>12, <1>13, <1>14 DEF CleanOK
<1> QED
  BY <1>5, <1>6, <1>15 DEF IInv

\* A clean pass that drops its node: what it dropped before stays dropped.
LEMMA DroppedVisitIInv ==
  ASSUME IInv, NEW n \in Node, NEW pass, pass \in {"Clean", "Release"},
         Visit(pass, n, FALSE), g' = CleanNode(g, n), UNCHANGED data,
         pass = "Release" \/ IsNone(g.uses[n])
  PROVE  IInv'
<1>1. /\ Passes[at] = pass /\ n \in t.todo /\ seen' = seen \cup {n}
      /\ at' = at /\ entry' = entry
      /\ t' = Advance(t, Forward(pass), n, g, g', FALSE)
  BY DEF Visit
<1>2. Forward(pass) = FALSE
  BY DEF Forward
<1>3. Sound(g) /\ InOrder(t, g, FALSE, entry, seen)
  BY <1>1, <1>2 DEF IInv, GraphOK, OrderOK
<1>4. /\ Attached(g) \subseteq entry
      /\ \A x \in seen \ t.processed : Gone(x)
      /\ \A x \in t.processed : /\ pass = "Clean"
                                /\ ~IsNone(g.uses[x]) \/ ~Cleanable(x)
                                /\ Preds(g, FALSE, x) \subseteq t.processed
  BY <1>1 DEF IInv, CleanOK
<1>5. /\ t.ready \subseteq Node /\ t.ready \subseteq g.alive /\ seen \subseteq t.ready
      /\ n \in t.ready /\ n \notin seen /\ t.processed \subseteq seen
      /\ Preds(g, FALSE, n) \subseteq t.processed
  BY <1>1, <1>3 DEF InOrder
<1>6. /\ g.alive \subseteq Node
      /\ \A x, m \in Node : x \in Preds(g, FALSE, m) <=> m \in Preds(g, TRUE, x)
      /\ \A x \in Node : IsNone(g.operands[x]) <=> Preds(g, TRUE, x) = {}
      /\ \A x \in Node : IsNone(g.uses[x]) <=> Preds(g, FALSE, x) = {}
  BY <1>3, SoundEdges
<1>7. IsNone(g.uses[n])
  <2>1. CASE pass = "Release"
    <3>1. t.processed = {}
      BY <1>4, <2>1
    <3> QED
      BY <3>1, <1>5, <1>6
  <2> QED
    BY <2>1
<1>8. n \in g.alive
  BY <1>5
<1>9. /\ Sound(g') /\ g'.alive = g.alive
      /\ \A x \in Node : Preds(g', TRUE, x) = IF x = n THEN {} ELSE Preds(g, TRUE, x)
      /\ \A x \in Node : Preds(g', FALSE, x) = Preds(g, FALSE, x) \ {n}
      /\ n \notin g'.sources /\ n \notin g'.sinks
      /\ g'.sources \subseteq g.sources
      /\ \A x \in g'.sinks : x \in g.sinks \/ x \in Preds(g, TRUE, n)
  <2> DEFINE f == CleanNode(g, n)
  <2>1. g' = f
    OBVIOUS
  <2>2. /\ Sound(f) /\ f.alive = g.alive
        /\ \A x \in Node : Preds(f, TRUE, x) = IF x = n THEN {} ELSE Preds(g, TRUE, x)
        /\ \A x \in Node : Preds(f, FALSE, x) = Preds(g, FALSE, x) \ {n}
        /\ n \notin f.sources /\ n \notin f.sinks
        /\ f.sources \subseteq g.sources
        /\ \A x \in f.sinks : x \in g.sinks \/ x \in Preds(g, TRUE, n)
    BY <1>3, <1>7, <1>8, CleanedGraph
  <2> HIDE DEF f
  <2> QED
    BY <2>1, <2>2, Zenon
<1>10. Gentle(t, g, g', FALSE, entry, n, FALSE)
  BY <1>1, <1>3, <1>7, CleaningGentle
<1>11. OrderOK'
  <2>1. Gentle(t, g, g', Forward(pass), entry, n, FALSE)
    BY <1>2, <1>10
  <2> QED
    BY <2>1, VisitOrdered DEF IInv
<1>12. GraphOK'
  BY <1>9 DEF IInv, GraphOK, data
<1>13. t'.processed = t.processed
  BY <1>1 DEF Advance
<1>14. /\ \A x \in Node : IsNone(g'.operands[x]) <=> Preds(g', TRUE, x) = {}
       /\ \A x \in Node : IsNone(g'.uses[x]) <=> Preds(g', FALSE, x) = {}
  BY <1>9, SoundEdges
<1>15. Attached(g') \subseteq Attached(g)
  <2>1. ASSUME NEW x \in Attached(g') PROVE x \in Attached(g)
    <3>1. x \in g.alive /\ x \in Node /\ (x \in g'.sources \/ ~IsNone(g'.operands[x]))
      BY <2>1, <1>6, <1>9 DEF Attached
    <3>2. x \in g.sources \/ ~IsNone(g.operands[x])
      BY <3>1, <1>6, <1>9, <1>14
    <3> QED
      BY <3>1, <3>2 DEF Attached
  <2> QED
    BY <2>1
<1>16. Gone(n)'
  <2>1. Preds(g', TRUE, n) = {} /\ Preds(g', FALSE, n) = {}
    BY <1>6, <1>7, <1>9
  <2>2. IsNone(g'.operands[n]) /\ IsNone(g'.uses[n])
    BY <2>1, <1>14
  <2> QED
    BY <2>2, <1>9 DEF Gone
<1>17. ASSUME NEW x \in seen \ t.processed PROVE Gone(x)'
  <2>1. Gone(x) /\ x \in Node /\ x # n
    BY <1>4, <1>5
  <2>2. Preds(g, TRUE, x) = {} /\ Preds(g, FALSE, x) = {}
    BY <2>1, <1>6 DEF Gone
  <2>3. IsNone(g'.operands[x]) /\ IsNone(g'.uses[x])
    BY <2>1, <2>2, <1>9, <1>14
  <2>4. x \notin g'.sources /\ x \notin g'.sinks
    BY <2>1, <2>2, <1>6, <1>9 DEF Gone
  <2> QED
    BY <2>3, <2>4 DEF Gone
<1>18. ASSUME NEW x \in t.processed
       PROVE  /\ ~IsNone(g'.uses[x]) \/ ~Cleanable(x)'
              /\ Preds(g', FALSE, x) \subseteq t.processed
  <2>1. x \in Node /\ n \notin Preds(g, FALSE, x)
    BY <1>4, <1>5
  <2>2. Preds(g', FALSE, x) = Preds(g, FALSE, x)
    <3>1. Preds(g', FALSE, x) = Preds(g, FALSE, x) \ {n}
      BY <2>1, <1>9, Zenon
    <3> QED
      BY <2>1, <3>1
  <2>3. Cleanable(x)' <=> Cleanable(x)
    BY DEF Cleanable, data
  <2> QED
    BY <2>1, <2>2, <2>3, <1>4, <1>6, <1>14
<1>19. Attached(g)' \subseteq entry'
  BY <1>1, <1>4, <1>15 DEF Attached
<1>20. \A x \in seen' \ t'.processed : Gone(x)'
  BY <1>1, <1>13, <1>16, <1>17
<1>21. CleanOK'
  BY <1>1, <1>4, <1>13, <1>18, <1>19, <1>20 DEF CleanOK
<1> QED
  BY <1>11, <1>12, <1>21 DEF IInv

\* CleanNodeHandler keeps its node or drops it.
LEMMA CleanVisitIInv ==
  ASSUME IInv, NEW n \in Node, CleanVisit(n)
  PROVE  IInv'
<1> DEFINE dropped == Passes[at] = "Release" \/ (IsNone(g.uses[n]) /\ Cleanable(n))
<1>1. /\ g' = IF dropped THEN CleanNode(g, n) ELSE g
      /\ Visit("Clean", n, ~dropped) \/ Visit("Release", n, ~dropped)
      /\ UNCHANGED data
  BY DEF CleanVisit
<1>2. \A pass, keep : Visit(pass, n, keep) => Passes[at] = pass
  BY DEF Visit
<1>3. CASE dropped
  <2>1. Visit("Clean", n, FALSE) \/ Visit("Release", n, FALSE)
    BY <1>1, <1>3, Zenon
  <2>2. g' = CleanNode(g, n)
    BY <1>1, <1>3
  <2>3. \A pass : Visit(pass, n, FALSE) => pass = "Release" \/ IsNone(g.uses[n])
    BY <1>2, <1>3
  <2> QED
    BY <1>1, <2>1, <2>2, <2>3, DroppedVisitIInv
<1>4. CASE ~dropped
  <2>1. Visit("Clean", n, TRUE) \/ Visit("Release", n, TRUE)
    BY <1>1, <1>4, Zenon
  <2>2. Visit("Clean", n, TRUE)
    BY <1>2, <1>4, <2>1
  <2>3. g' = g
    BY <1>1, <1>4
  <2> QED
    BY <1>1, <1>4, <2>2, <2>3, KeptVisitIInv
<1> QED
  BY <1>3, <1>4

\* The next pass begins in order on what the last one left.
LEMMA StartPassIInv ==
  ASSUME IInv, StartPass
  PROVE  IInv'
<1>1. /\ t' = Begin(g, Forward(Passes[at'])) /\ seen' = {} /\ entry' = Attached(g)
      /\ g' = g /\ next' = next
  BY DEF StartPass
<1>2. Forward(Passes[at']) \in BOOLEAN
  BY DEF Forward
<1>3. InOrder(t', g', Forward(Passes[at']), entry', seen')
  BY <1>1, <1>2, PassBegins DEF IInv, GraphOK
<1>4. OrderOK'
  BY <1>3 DEF OrderOK
<1>5. GraphOK'
  BY <1>1 DEF IInv, GraphOK
<1>6. t'.processed = {}
  BY <1>1 DEF Begin
<1>7. Attached(g)' \subseteq entry'
  BY <1>1 DEF Attached
<1>8. CleanOK'
  BY <1>1, <1>6, <1>7 DEF CleanOK
<1> QED
  BY <1>4, <1>5, <1>8 DEF IInv

-----------------------------------------------------------------------------
(* The order of visits: the theorems                                       *)

(* However the passes rewrite it, the graph stays sound and acyclic, the   *)
(* traversal in order, and what a clean pass dropped stays dropped: the    *)
(* inductive invariant that the theorems below follow from.                *)
THEOREM PassesInOrder == Spec => []IInv
<1>1. IInv /\ [Next]_vars => IInv'
  <2> SUFFICES ASSUME IInv, [Next]_vars PROVE IInv'
    OBVIOUS
  <2>1. CASE UNCHANGED vars
    BY <2>1 DEF IInv, GraphOK, OrderOK, CleanOK, Attached, Gone, Cleanable, vars, data
  <2>2. CASE StartPass
    BY <2>2, StartPassIInv
  <2>3. ASSUME NEW n \in Node, CleanVisit(n) PROVE IInv'
    BY <2>3, CleanVisitIInv
  <2>4. ASSUME NEW n \in Node, TypeVisit(n) PROVE IInv'
    BY <2>4, TypeVisitIInv
  <2>5. ASSUME NEW n \in Node, ReduceVisit(n) PROVE IInv'
    BY <2>5, ReduceVisitIInv
  <2>6. ASSUME NEW n \in Node, ExpandVisit(n) PROVE IInv'
    BY <2>6, ExpandVisitIInv
  <2>7. ASSUME NEW n \in Node, DepthVisit(n) PROVE IInv'
    BY <2>7, DepthVisitIInv
  <2>8. ASSUME NEW n \in Node, FoldVisit(n) PROVE IInv'
    BY <2>8, FoldVisitIInv
  <2> QED
    BY <2>1, <2>2, <2>3, <2>4, <2>5, <2>6, <2>7, <2>8 DEF Next
<1>2. Init => IInv
  BY InitIInv
<1> QED
  BY <1>1, <1>2, PTL DEF Spec

(* No pass visits a node twice, and a pass that has run out of ready nodes *)
(* has visited all that were attached when it began.                       *)
THEOREM VisitsEachOnceHolds == Spec => []VisitsEachOnce
<1>1. IInv => VisitsEachOnce
  <2> SUFFICES ASSUME IInv PROVE VisitsEachOnce
    OBVIOUS
  <2>1. Forward(Passes[at]) \in BOOLEAN
    BY DEF Forward
  <2>2. Acyclic(g, Forward(Passes[at]))
    BY <2>1 DEF IInv, GraphOK, Sound
  <2>3. InOrder(t, g, Forward(Passes[at]), entry, seen)
    BY DEF IInv, OrderOK
  <2>4. t.todo \cap seen = {}
    BY <2>3 DEF InOrder
  <2>5. t.todo = {} => entry \subseteq seen
    BY <2>2, <2>3, EndInOrder
  <2> QED
    BY <2>4, <2>5 DEF VisitsEachOnce
<1> QED
  BY <1>1, PassesInOrder, PTL

(* When a node is visited, all its operands of that moment, in a backward  *)
(* pass all its users, have been visited.                                  *)
THEOREM OperandsFirstHolds == Spec => OperandsFirst
<1>1. IInv /\ [Next]_vars =>
        [at' = at => \A n \in seen' \ seen : Preds(g, Forward(Passes[at]), n) \subseteq seen]_vars
  <2> SUFFICES ASSUME IInv, Next, at' = at, NEW n \in seen' \ seen
               PROVE  Preds(g, Forward(Passes[at]), n) \subseteq seen
    BY DEF vars
  <2>1. InOrder(t, g, Forward(Passes[at]), entry, seen)
    BY DEF IInv, OrderOK
  <2>2. n \in t.todo
    <3>1. CASE StartPass
      BY <3>1 DEF StartPass
    <3>2. CASE \E m, pass, keep : Visit(pass, m, keep)
      BY <3>2 DEF Visit
    <3> QED
      BY <3>1, <3>2 DEF Next, CleanVisit, TypeVisit, ReduceVisit, ExpandVisit, DepthVisit,
                        FoldVisit
  <2> QED
    BY <2>1, <2>2 DEF InOrder
<1> QED
  BY <1>1, PassesInOrder, PTL DEF Spec, OperandsFirst

(* After a clean pass every operation that is left leads to an output.     *)
THEOREM NoDeadCodeHolds == Spec => []NoDeadCode
<1>1. IInv /\ VisitsEachOnce => NoDeadCode
  <2> SUFFICES ASSUME IInv, VisitsEachOnce, Finished("Clean"),
                      NEW n \in Attached(g), op[n] \notin {"Input", "Output"}
               PROVE  ~IsNone(g.uses[n])
    BY DEF NoDeadCode
  <2>1. Passes[at] = "Clean" /\ t.todo = {}
    BY DEF Finished
  <2>2. n \in seen
    BY <2>1 DEF VisitsEachOnce, IInv, CleanOK
  <2>3. ~Gone(n)
    BY DEF Attached, Gone
  <2>4. n \in t.processed
    BY <2>1, <2>2, <2>3 DEF IInv, CleanOK
  <2> QED
    BY <2>1, <2>4 DEF IInv, CleanOK, Cleanable
<1> QED
  BY <1>1, PassesInOrder, VisitsEachOnceHolds, PTL

(* After a release nothing keeps anything else alive.                      *)
THEOREM ReleaseEmptiesHolds == Spec => []ReleaseEmpties
<1>1. IInv /\ VisitsEachOnce => ReleaseEmpties
  <2> SUFFICES ASSUME IInv, VisitsEachOnce, Finished("Release")
               PROVE  /\ g.sources = {} /\ g.sinks = {}
                      /\ \A n \in Node : IsNone(g.operands[n]) /\ IsNone(g.uses[n])
    BY DEF ReleaseEmpties
  <2>1. Passes[at] = "Release" /\ t.todo = {}
    BY DEF Finished
  <2>2. /\ Attached(g) \subseteq seen
        /\ t.processed = {} /\ \A n \in seen : Gone(n)
    BY <2>1 DEF VisitsEachOnce, IInv, CleanOK
  <2>3. Attached(g) = {}
    BY <2>2 DEF Attached, Gone
  <2>4. Sound(g) /\ Forward(Passes[at]) = FALSE
    BY <2>1 DEF IInv, GraphOK, Forward
  <2>5. g.sinks \subseteq seen
    <3>1. Roots(g, FALSE) \subseteq t.ready /\ t.ready = seen
      BY <2>1, <2>4 DEF IInv, OrderOK, InOrder
    <3> QED
      BY <3>1 DEF Roots
  <2>6. g.sinks = {}
    BY <2>2, <2>5 DEF Gone
  <2>7. PICK det, ret \in SUBSET Node : Settled(g, det, ret)
    BY <2>4 DEF Sound
  <2>8. g.alive \ det = {}
    BY <2>3, <2>7, SettledFacts
  <2>9. \A n, m \in Node : m \notin Preds(g, TRUE, n) /\ m \notin Preds(g, FALSE, n)
    <3>1. \A n, m \in Node : n \in Preds(g, FALSE, m) <=> m \in Preds(g, TRUE, n)
      BY <2>7, SettledFacts
    <3>2. \A n, m \in Node : m \in Preds(g, TRUE, n) => n \in g.alive \ det
      BY <2>7, SettledFacts
    <3> QED
      BY <3>1, <3>2, <2>8
  <2>10. \A n \in Node : Preds(g, TRUE, n) = {} /\ Preds(g, FALSE, n) = {}
    BY <2>9 DEF Preds
  <2>11. \A n \in Node : IsNone(g.operands[n]) /\ IsNone(g.uses[n])
    BY <2>4, <2>10, SoundEdges
  <2>12. g.sources = {}
    <3>1. g.sources \subseteq g.alive
      BY <2>4, SoundEdges DEF Roots
    <3> QED
      BY <3>1, <2>3 DEF Attached
  <2> QED
    BY <2>6, <2>11, <2>12
<1> QED
  BY <1>1, PassesInOrder, VisitsEachOnceHolds, PTL

-----------------------------------------------------------------------------
(* Recursion over a graph without cycles                                   *)
(* A function of the nodes that is defined by recursion over the operands  *)
(* exists, for every graph without a cycle: partial solutions agree where  *)
(* they meet, and a least node without one could be added to their union.  *)

\* In every set of nodes there is one over none of the set.
Grounded(h) == \A S \in SUBSET Node : S # {} => \E n \in S : Below(h, n) \cap S = {}

\* Every node has a rule F[n], which reads the nodes below it only.
Rules(h, V, F) ==
  /\ F \in [Node -> [[Node -> V] -> V]]
  /\ \A n \in Node : \A a, c \in [Node -> V] :
       (\A m \in Below(h, n) : a[m] = c[m]) => F[n][a] = F[n][c]

Obeys(h, V, F, a, S) ==
  /\ a \in [Node -> V] /\ S \in SUBSET Node
  /\ \A n \in S : Below(h, n) \subseteq S /\ a[n] = F[n][a]

\* Two partial solutions agree where both obey the rules.
LEMMA ObeyersAgree ==
  ASSUME NEW h, Grounded(h), NEW V, NEW F, Rules(h, V, F),
         NEW a, NEW S, Obeys(h, V, F, a, S), NEW c, NEW T, Obeys(h, V, F, c, T)
  PROVE  \A n \in S \cap T : a[n] = c[n]
<1> DEFINE D == {n \in S \cap T : a[n] # c[n]}
<1>1. ASSUME D # {} PROVE FALSE
  <2>1. D \in SUBSET Node /\ a \in [Node -> V] /\ c \in [Node -> V]
    BY DEF Obeys
  <2>2. PICK n \in D : Below(h, n) \cap D = {}
    BY <1>1, <2>1 DEF Grounded
  <2>3. n \in Node /\ n \in S /\ n \in T /\ a[n] # c[n]
    BY <2>1
  <2>4. \A m \in Below(h, n) : a[m] = c[m]
    BY <2>2, <2>3 DEF Obeys
  <2>5. F[n][a] = F[n][c]
    BY <2>1, <2>3, <2>4 DEF Rules
  <2> QED
    BY <2>3, <2>5 DEF Obeys
<1> QED
  BY <1>1

\* A recursion over the operands has a solution.
LEMMA RecursionSolves ==
  ASSUME NEW h, Grounded(h), NEW V, NEW d \in V, NEW F, Rules(h, V, F)
  PROVE  \E a \in [Node -> V] : \A n \in Node : a[n] = F[n][a]
<1> DEFINE Known(n, v) == \E S, a : n \in S /\ Obeys(h, V, F, a, S) /\ v = a[n]
           Sol == {n \in Node : \E v : Known(n, v)}
           A   == [n \in Node |-> IF n \in Sol THEN CHOOSE v : Known(n, v) ELSE d]
<1>b. \A n : Below(h, n) \in SUBSET Node
  BY DEF Below, Preds
<1>1. ASSUME NEW a, NEW S, Obeys(h, V, F, a, S), NEW n \in S
      PROVE  n \in Sol /\ A[n] = a[n]
  <2>1. n \in Node /\ S \in SUBSET Node
    BY <1>1 DEF Obeys
  <2>2. Known(n, a[n])
    BY <1>1, <2>1
  <2>3. ASSUME NEW v, Known(n, v) PROVE v = a[n]
    BY <1>1, <2>3, ObeyersAgree
  <2> HIDE DEF Known
  <2>4. (CHOOSE v : Known(n, v)) = a[n]
    BY <2>2, <2>3
  <2> QED
    BY <2>1, <2>2, <2>4
<1>t. A \in [Node -> V]
  <2>1. ASSUME NEW n \in Node PROVE A[n] \in V
    <3>1. CASE n \in Sol
      <4>1. PICK v, S, a : n \in S /\ Obeys(h, V, F, a, S) /\ v = a[n]
        BY <3>1
      <4> HIDE DEF Sol, A, Known
      <4>2. A[n] = a[n]
        BY <1>1, <4>1
      <4> QED
        BY <4>1, <4>2 DEF Obeys
    <3>2. CASE n \notin Sol
      <4> HIDE DEF Known, Sol
      <4>1. A[n] = d
        BY <3>2
      <4> QED
        BY <4>1
    <3> QED
      BY <3>1, <3>2
  <2>2. A = [n \in Node |-> A[n]]
    OBVIOUS
  <2> HIDE DEF A
  <2> QED
    BY <2>1, <2>2
<1>2. ASSUME NEW n \in Sol PROVE Below(h, n) \subseteq Sol /\ A[n] = F[n][A]
  <2>1. PICK v, S, a : n \in S /\ Obeys(h, V, F, a, S) /\ v = a[n]
    OBVIOUS
  <2>n. n \in Node
    OBVIOUS
  <2> HIDE DEF Sol, A, Known
  <2>2. \A m \in S : m \in Sol /\ A[m] = a[m]
    BY <1>1, <2>1
  <2>3. Below(h, n) \subseteq S /\ a[n] = F[n][a] /\ a \in [Node -> V]
    BY <2>1 DEF Obeys
  <2>4. F[n][a] = F[n][A]
    BY <2>2, <2>3, <2>n, <1>t DEF Rules
  <2> QED
    BY <2>1, <2>2, <2>3, <2>4
<1>3. ASSUME NEW n \in Node \ Sol, Below(h, n) \cap (Node \ Sol) = {}
      PROVE  FALSE
  <2> DEFINE c == [A EXCEPT ![n] = F[n][A]]
             S == Sol \cup {n}
  <2>1. Sol \in SUBSET Node
    OBVIOUS
  <2> HIDE DEF Sol, A, Known
  <2>2. F[n][A] \in V
    BY <1>t DEF Rules
  <2>3. c \in [Node -> V] /\ c[n] = F[n][A] /\ \A m \in Node : m # n => c[m] = A[m]
    BY <1>t, <2>2
  <2>4. Below(h, n) \subseteq Sol
    BY <1>3, <1>b
  <2> HIDE DEF c
  <2>5. ASSUME NEW x \in S
        PROVE  Below(h, x) \subseteq S /\ c[x] = F[x][c]
    <3>1. Below(h, x) \subseteq Sol /\ x \in Node
      BY <1>2, <2>1, <2>4
    <3>2. \A m \in Below(h, x) : c[m] = A[m]
      BY <1>3, <2>1, <2>3, <3>1
    <3>3. F[x][c] = F[x][A]
      BY <3>1, <3>2, <2>3, <1>t DEF Rules
    <3>4. c[x] = F[x][A]
      BY <1>2, <1>3, <2>1, <2>3
    <3> QED
      BY <3>1, <3>3, <3>4
  <2>6. Obeys(h, V, F, c, S)
    BY <2>1, <2>3, <2>5 DEF Obeys
  <2>7. n \in Sol
    BY <1>1, <2>6
  <2> QED
    BY <1>3, <2>7
<1>4. Sol = Node
  <2>1. Sol \in SUBSET Node
    OBVIOUS
  <2> HIDE DEF Sol, A, Known
  <2>2. ASSUME Node \ Sol # {} PROVE FALSE
    <3>1. PICK n \in Node \ Sol : Below(h, n) \cap (Node \ Sol) = {}
      BY <2>2 DEF Grounded
    <3> QED
      BY <1>3, <3>1
  <2> QED
    BY <2>1, <2>2
<1> HIDE DEF A, Sol, Known
<1> QED
  BY <1>t, <1>2, <1>4

-----------------------------------------------------------------------------
(* What a node denotes                                                     *)

\* The operations of the scheme on the values of any operands.
LEMMA CombineFacts ==
  ASSUME NEW name, NEW b \in Bag
  PROVE  /\ \A v, w : (\A m \in Node : b[m] > 0 => v[m] = w[m]) =>
               Combine(name, b, v) = Combine(name, b, w)
         /\ \A v : (\A m \in Node : b[m] > 0 => v[m] \in Values) => Combine(name, b, v) \in Values
<1>1. Regroups(Values, Plus, Zero) /\ Regroups(Values, Times, Unit)
  BY ValuesAssumption
<1>2. \A x \in Values : Negative[x] \in Values
  BY ValuesAssumption
<1>3. ASSUME NEW v, NEW w, \A m \in Node : b[m] > 0 => v[m] = w[m]
      PROVE  Combine(name, b, v) = Combine(name, b, w)
  <2>1. Gather(Plus, Zero, b, v) = Gather(Plus, Zero, b, w)
    BY <1>3, GatherSame
  <2>2. Gather(Times, Unit, b, v) = Gather(Times, Unit, b, w)
    BY <1>3, GatherSame
  <2> QED
    BY <2>1, <2>2, Zenon DEF Combine
<1>4. ASSUME NEW v, \A m \in Node : b[m] > 0 => v[m] \in Values
      PROVE  Combine(name, b, v) \in Values
  <2>1. Gather(Plus, Zero, b, v) \in Values
    BY <1>1, <1>4, GatherType
  <2>2. Gather(Times, Unit, b, v) \in Values
    BY <1>1, <1>4, GatherType
  <2> QED
    BY <2>1, <2>2, <1>2 DEF Combine
<1> QED
  BY <1>3, <1>4

\* A node denotes what its operation makes of its operands, or its payload.
Denotes(v, h, name, pay, n) ==
  v[n] = IF IsNone(h.operands[n]) THEN pay[n] ELSE Combine(name[n], h.operands[n], v)

\* A valuation obeys the graph at the nodes of K, which has all that is below them.
Obeyed(v, h, name, pay, K) == \A n \in K : Denotes(v, h, name, pay, n)
Whole(h, K) == K \in SUBSET Node /\ \A n \in K : Below(h, n) \subseteq K

\* Two valuations that obey a graph on a set closed under its edges agree there.
LEMMA ValuesAgree ==
  ASSUME NEW h, Grounded(h), h.operands \in [Node -> Bag], NEW name, NEW pay,
         NEW K, Whole(h, K),
         NEW v, Obeyed(v, h, name, pay, K), NEW w, Obeyed(w, h, name, pay, K)
  PROVE  \A n \in K : v[n] = w[n]
<1> DEFINE D == {n \in K : v[n] # w[n]}
<1>1. ASSUME D # {} PROVE FALSE
  <2>1. D \in SUBSET Node
    BY DEF Whole
  <2>2. PICK n \in D : Below(h, n) \cap D = {}
    BY <1>1, <2>1 DEF Grounded
  <2>3. n \in K /\ n \in Node /\ v[n] # w[n]
    BY DEF Whole
  <2>4. \A m \in Node : h.operands[n][m] > 0 => m \in Below(h, n)
    BY DEF Below, Preds
  <2>5. \A m \in Below(h, n) : v[m] = w[m]
    BY <2>2, <2>3 DEF Whole
  <2>6. h.operands[n] \in Bag
    BY <2>3
  <2>7. \A m \in Node : h.operands[n][m] > 0 => v[m] = w[m]
    BY <2>4, <2>5
  <2>8. Combine(name[n], h.operands[n], v) = Combine(name[n], h.operands[n], w)
    <3> DEFINE b == h.operands[n]
    <3>1. b \in Bag /\ \A m \in Node : b[m] > 0 => v[m] = w[m]
      BY <2>6, <2>7
    <3> HIDE DEF b
    <3>2. Combine(name[n], b, v) = Combine(name[n], b, w)
      BY <3>1, CombineFacts
    <3> QED
      BY <3>2 DEF b
  <2>9. Denotes(v, h, name, pay, n) /\ Denotes(w, h, name, pay, n)
    BY <2>3 DEF Obeyed
  <2>10. v[n] = w[n]
    <3>1. CASE IsNone(h.operands[n])
      BY <2>9, <3>1 DEF Denotes
    <3>2. CASE ~IsNone(h.operands[n])
      <4>1. /\ v[n] = Combine(name[n], h.operands[n], v)
            /\ w[n] = Combine(name[n], h.operands[n], w)
        BY <2>9, <3>2 DEF Denotes
      <4> QED
        BY <4>1, <2>8, Zenon
    <3> QED
      BY <3>1, <3>2
  <2> QED
    BY <2>3, <2>10
<1> QED
  BY <1>1

\* What the nodes denote are values, and obeys the graph everywhere.
LEMMA ValueSolves ==
  ASSUME NEW h, Grounded(h), h.operands \in [Node -> Bag], NEW name,
         NEW pay \in [Node -> Values]
  PROVE  /\ Value(h, name, pay) \in [Node -> Values]
         /\ Obeyed(Value(h, name, pay), h, name, pay, Node)
<1> DEFINE Rule(n, a) == IF IsNone(h.operands[n]) THEN pay[n]
                         ELSE Combine(name[n], h.operands[n], a)
           F == [n \in Node |-> [a \in [Node -> Values] |-> Rule(n, a)]]
<1>1. ASSUME NEW n \in Node, NEW a \in [Node -> Values] PROVE Rule(n, a) \in Values
  BY CombineFacts
<1>2. ASSUME NEW n \in Node, NEW a, NEW c, \A m \in Below(h, n) : a[m] = c[m]
      PROVE  Rule(n, a) = Rule(n, c)
  <2>1. \A m \in Node : h.operands[n][m] > 0 => a[m] = c[m]
    BY <1>2 DEF Below, Preds
  <2>2. Combine(name[n], h.operands[n], a) = Combine(name[n], h.operands[n], c)
    BY <2>1, CombineFacts
  <2> QED
    BY <2>2, Zenon
<1> DEFINE Body(v) == [n \in Node |-> Rule(n, v)]
<1>3. Value(h, name, pay) = CHOOSE v : v = Body(v)
  BY DEF Value
<1> HIDE DEF Rule
<1>4. \A n \in Node : \A a \in [Node -> Values] : F[n][a] = Rule(n, a)
  OBVIOUS
<1>5. Rules(h, Values, F)
  <2>1. F \in [Node -> [[Node -> Values] -> Values]]
    BY <1>1
  <2>2. ASSUME NEW n \in Node, NEW a \in [Node -> Values], NEW c \in [Node -> Values],
               \A m \in Below(h, n) : a[m] = c[m]
        PROVE  F[n][a] = F[n][c]
    <3>1. Rule(n, a) = Rule(n, c)
      BY <1>2, <2>2
    <3>2. F[n][a] = Rule(n, a) /\ F[n][c] = Rule(n, c)
      BY <1>4
    <3> QED
      BY <3>1, <3>2
  <2> HIDE DEF F
  <2> QED
    BY <2>1, <2>2 DEF Rules
<1>6. Zero \in Values
  BY ValuesAssumption DEF Regroups
<1> HIDE DEF F
<1>7. PICK a \in [Node -> Values] : \A n \in Node : a[n] = F[n][a]
  BY <1>5, <1>6, RecursionSolves
<1>8. a = Body(a)
  BY <1>4, <1>7
<1> DEFINE v == Value(h, name, pay)
<1> HIDE DEF Body, v
<1>9. v = Body(v)
  BY <1>3, <1>8 DEF v
<1>10. /\ v = [n \in Node |-> v[n]]
       /\ \A n \in Node : v[n] = Rule(n, v) /\ a[n] = Rule(n, a)
  BY <1>8, <1>9 DEF Body
<1>11. Obeyed(v, h, name, pay, Node) /\ Obeyed(a, h, name, pay, Node)
  BY <1>10 DEF Rule, Denotes, Obeyed
<1>12. Whole(h, Node)
  BY DEF Whole, Below, Preds
<1>13. \A n \in Node : v[n] = a[n]
  BY <1>11, <1>12, ValuesAgree
<1>14. v \in [Node -> Values]
  BY <1>10, <1>13
<1> QED
  BY <1>11, <1>14 DEF v

-----------------------------------------------------------------------------
(* What is gathered from few operands                                      *)

\* The first two elements and the others.
LEMMA PairOff ==
  ASSUME NEW a \in Seq(Node), Len(a) >= 2
  PROVE  /\ a[1] \in Node /\ a[2] \in Node
         /\ SubSeq(a, 3, Len(a)) \in Seq(Node)
         /\ a = <<a[1], a[2]>> \o SubSeq(a, 3, Len(a))
<1> DEFINE k == Len(a)
           p == <<a[1], a[2]>>
           rest == SubSeq(a, 3, k)
<1>1. k \in Nat /\ k >= 2 /\ k = Len(a)
  BY LenProperties
<1> HIDE DEF k
<1>2. \A i \in 1 .. k : a[i] \in Node
  BY <1>1, ElementOfSeq
<1>3. a[1] \in Node /\ a[2] \in Node
  <2>1. 1 \in 1 .. k /\ 2 \in 1 .. k
    BY <1>1
  <2> QED
    BY <2>1, <1>2
<1>4. rest \in Seq(Node) /\ Len(rest) = k - 2 /\ \A i \in 1 .. (k - 2) : rest[i] = a[i + 2]
  <2>1. \A i \in 3 .. k : a[i] \in Node
    BY <1>1, <1>2
  <2>2. /\ rest \in Seq(Node) /\ Len(rest) = IF 3 <= k THEN k - 3 + 1 ELSE 0
        /\ \A i \in 1 .. (k - 3 + 1) : rest[i] = a[3 + i - 1]
    BY <1>1, <2>1, SubSeqProperties
  <2>3. k - 3 + 1 = k - 2 /\ (IF 3 <= k THEN k - 3 + 1 ELSE 0) = k - 2
    BY <1>1
  <2>4. \A i \in 1 .. (k - 2) : 3 + i - 1 = i + 2
    OBVIOUS
  <2> HIDE DEF rest
  <2> QED
    BY <2>2, <2>3, <2>4
<1>5. p \in Seq(Node) /\ Len(p) = 2 /\ p[1] = a[1] /\ p[2] = a[2]
  BY <1>3
<1> HIDE DEF p, rest
<1>6. /\ p \o rest \in Seq(Node) /\ Len(p \o rest) = k
      /\ \A i \in 1 .. k : (p \o rest)[i] = IF i <= 2 THEN p[i] ELSE rest[i - 2]
  <2>0. /\ p \o rest \in Seq(Node) /\ Len(p \o rest) = Len(p) + Len(rest)
        /\ \A i \in 1 .. (Len(p) + Len(rest)) :
              (p \o rest)[i] = IF i <= Len(p) THEN p[i] ELSE rest[i - Len(p)]
    <3>1. p \in Seq(Node) /\ rest \in Seq(Node)
      BY <1>4, <1>5
    <3> QED
      BY <3>1, ConcatProperties
  <2>1. /\ p \o rest \in Seq(Node) /\ Len(p \o rest) = 2 + (k - 2)
        /\ \A i \in 1 .. (2 + (k - 2)) : (p \o rest)[i] = IF i <= 2 THEN p[i] ELSE rest[i - 2]
    BY <2>0, <1>4, <1>5
  <2>2. 2 + (k - 2) = k
    BY <1>1
  <2> QED
    BY <2>1, <2>2
<1>7. ASSUME NEW i \in 1 .. k PROVE (p \o rest)[i] = a[i]
  <2>1. CASE i <= 2
    <3>1. i = 1 \/ i = 2
      BY <2>1, <1>1
    <3> QED
      BY <3>1, <2>1, <1>5, <1>6
  <2>2. CASE ~(i <= 2)
    <3>1. i - 2 \in 1 .. (k - 2) /\ (i - 2) + 2 = i
      BY <2>2, <1>1
    <3> QED
      BY <3>1, <2>2, <1>4, <1>6
  <2> QED
    BY <2>1, <2>2
<1>8. a = p \o rest
  BY <1>1, <1>6, <1>7, SeqEqual
<1> QED
  BY <1>3, <1>4, <1>8 DEF p, rest, k

\* What a sequence gathers: that of its parts.
LEMMA GatherConcat ==
  ASSUME NEW V, NEW f, NEW e, Regroups(V, f, e), NEW v \in [Node -> V],
         NEW s \in Seq(Node), NEW r \in Seq(Node)
  PROVE  /\ Gather(f, e, AsBag(s), v) \in V
         /\ Gather(f, e, AsBag(s \o r), v) = f[Gather(f, e, AsBag(s), v)][Gather(f, e, AsBag(r), v)]
<1>1. AsBag(s) \in Bag /\ AsBag(r) \in Bag
  BY AsBagFacts
<1>2. Both(AsBag(s), AsBag(r), AsBag(s \o r))
  BY AsBagConcat
<1>3. \A m \in Node : v[m] \in V
  OBVIOUS
<1> QED
  BY <1>1, <1>2, <1>3, GatherBoth, GatherType

\* Gathering from a sequence of none and of one.
LEMMA GatherFew ==
  ASSUME NEW V, NEW f, NEW e, Regroups(V, f, e), NEW v \in [Node -> V]
  PROVE  /\ Gather(f, e, AsBag(<<>>), v) = e
         /\ \A x \in Node : Gather(f, e, AsBag(<<x>>), v) = v[x]
<1>1. IsNone(AsBag(<<>>))
  <2>1. <<>> \in Seq(Node) /\ Len(<<>>) = 0
    BY EmptySeq
  <2>2. AsBag(<<>>) \in Bag /\ \A m \in Node : AsBag(<<>>)[m] > 0 <=> \E i \in 1 .. 0 : <<>>[i] = m
    BY <2>1, AsBagFacts
  <2> DEFINE b == AsBag(<<>>)
  <2>3. b \in Bag /\ \A m \in Node : ~(b[m] > 0)
    BY <2>2
  <2> HIDE DEF b
  <2>4. IsNone(b)
    BY <2>3 DEF Bag, IsNone
  <2> QED
    BY <2>4 DEF b
<1>2. Gather(f, e, AsBag(<<>>), v) = e
  BY <1>1, GatherNone
<1>3. ASSUME NEW x \in Node PROVE Gather(f, e, AsBag(<<x>>), v) = v[x]
  <2>1. AsBag(<<x>>) = Only(x, 1)
    BY AsBagOne, OnlyFacts, Zenon
  <2>2. v[x] \in V /\ 1 \in Nat
    OBVIOUS
  <2>3. Gather(f, e, Only(x, 1), v) = Repeat(f, e, v[x], 1)
    BY <2>2, GatherOnly
  <2>4. Repeat(f, e, v[x], 1) = v[x]
    BY <2>2, RepeatOnce
  <2> QED
    BY <2>1, <2>3, <2>4
<1> QED
  BY <1>2, <1>3

\* A pair of operands.
LEMMA PairFacts ==
  ASSUME NEW x \in Node, NEW y \in Node
  PROVE  /\ AsBag(<<x, y>>) \in Bag /\ Total(AsBag(<<x, y>>)) = 2
         /\ ~IsNone(AsBag(<<x, y>>))
         /\ \A m \in Node : AsBag(<<x, y>>)[m] > 0 <=> m \in {x, y}
         /\ \A V, f, e, v : Regroups(V, f, e) /\ v \in [Node -> V] =>
               Gather(f, e, AsBag(<<x, y>>), v) = f[v[x]][v[y]]
<1> DEFINE p == <<x, y>>
           b == AsBag(p)
<1>1. /\ <<x>> \in Seq(Node) /\ <<y>> \in Seq(Node) /\ p = <<x>> \o <<y>>
      /\ p \in Seq(Node) /\ Len(p) = 2 /\ p[1] = x /\ p[2] = y
  <2> DEFINE r == <<x>>
             s == <<y>>
  <2>1. /\ r \in Seq(Node) /\ Len(r) = 1 /\ r[1] = x
        /\ s \in Seq(Node) /\ Len(s) = 1 /\ s[1] = y
        /\ p \in Seq(Node) /\ Len(p) = 2 /\ p[1] = x /\ p[2] = y
    OBVIOUS
  <2> HIDE DEF r, s, p
  <2>2. /\ r \o s \in Seq(Node) /\ Len(r \o s) = Len(r) + Len(s)
        /\ \A i \in 1 .. (Len(r) + Len(s)) :
              (r \o s)[i] = IF i <= Len(r) THEN r[i] ELSE s[i - Len(r)]
    BY <2>1, ConcatProperties
  <2>3. /\ Len(r \o s) = 2
        /\ \A i \in 1 .. 2 : (r \o s)[i] = IF i <= 1 THEN r[i] ELSE s[i - 1]
    BY <2>1, <2>2
  <2>4. \A i \in 1 .. 2 : p[i] = (r \o s)[i]
    BY <2>1, <2>3
  <2>5. p = r \o s
    BY <2>1, <2>2, <2>3, <2>4, SeqEqual
  <2> QED
    BY <2>1, <2>5 DEF r, s
<1> HIDE DEF p
<1>2. /\ b \in Bag
      /\ \A m \in Node : b[m] > 0 <=> m \in {x, y}
  <2>1. b \in Bag /\ \A m \in Node : b[m] > 0 <=> \E i \in 1 .. 2 : p[i] = m
    BY <1>1, AsBagFacts
  <2>2. 1 .. 2 = {1, 2}
    OBVIOUS
  <2> HIDE DEF b
  <2> QED
    BY <2>1, <2>2, <1>1
<1>3. Both(AsBag(<<x>>), AsBag(<<y>>), b)
  BY <1>1, AsBagConcat
<1>4. Total(b) = 2
  <2>0. AsBag(<<x>>) = Only(x, 1) /\ AsBag(<<y>>) = Only(y, 1)
    BY AsBagOne, OnlyFacts, Zenon
  <2>1. /\ AsBag(<<x>>) \in Bag /\ AsBag(<<y>>) \in Bag
        /\ AsBag(<<x>>) = Only(x, 1) /\ AsBag(<<y>>) = Only(y, 1)
    BY <2>0, <1>1, AsBagFacts
  <2>2. Total(b) = Total(AsBag(<<x>>)) + Total(AsBag(<<y>>))
    BY <2>1, <1>3, TotalBoth
  <2>3. Total(AsBag(<<x>>)) = 1 /\ Total(AsBag(<<y>>)) = 1
    BY <2>1, TotalOnly
  <2> QED
    BY <2>2, <2>3
<1>5. ASSUME NEW V, NEW f, NEW e, NEW v, Regroups(V, f, e), v \in [Node -> V]
      PROVE  Gather(f, e, b, v) = f[v[x]][v[y]]
  <2>1. Gather(f, e, AsBag(<<x>> \o <<y>>), v) =
          f[Gather(f, e, AsBag(<<x>>), v)][Gather(f, e, AsBag(<<y>>), v)]
    BY <1>1, <1>5, GatherConcat
  <2>2. Gather(f, e, AsBag(<<x>>), v) = v[x] /\ Gather(f, e, AsBag(<<y>>), v) = v[y]
    BY <1>5, GatherFew
  <2> QED
    BY <2>1, <2>2, <1>1, Zenon
<1> HIDE DEF b
<1>6. ~IsNone(b)
  BY <1>2 DEF IsNone
<1> QED
  BY <1>2, <1>4, <1>5, <1>6 DEF b, p

-----------------------------------------------------------------------------
(* Balancing: a measure that every turn decreases                          *)

\* What a join does to its parts.
LEMMA JoinParts ==
  ASSUME NEW q, NEW h, NEW fresh, NEW S, NEW L, NEW det, NEW ret,
         Roomy(h, fresh, S, L, det, ret), Growing(q, h, fresh, S, L, det, ret),
         Len(q.args) >= 2, Len(q.args) + Len(q.out) >= 3
  PROVE  LET c == q.next
             F == fresh .. (q.next - 1) IN
         /\ c \in Node /\ F \subseteq Node /\ c \notin F
         /\ fresh .. (Join(q).next - 1) = F \cup {c}
         /\ q.args \in Seq(Node) /\ q.out \in Seq(Node)
         /\ \A i \in 1 .. Len(q.args) : q.args[i] # c
         /\ \A i \in 1 .. Len(q.out) : q.out[i] # c
         /\ \A z \in F : c \notin Below(q.g, z)
         /\ q.args[1] \in Node /\ q.args[2] \in Node
         /\ Join(q).g.operands[c] = AsBag(<<q.args[1], q.args[2]>>)
         /\ \A z \in Node \ {c} : Join(q).g.operands[z] = q.g.operands[z]
         /\ q.g.operands \in [Node -> Bag]
<1> DEFINE c == q.next
           F == fresh .. (q.next - 1)
           x == q.args[1]
           y == q.args[2]
           f == SetOperands(NewNode(q.g, c), c, AsBag(<<x, y>>))
<1>1. /\ c \in Nat /\ fresh <= c
      /\ GraphInv(q.g, det, ret)
      /\ q.g.alive = h.alive \cup F
      /\ q.args \in Seq(S \cup F) /\ q.out \in Seq(S \cup F)
      /\ c + Len(q.args) + Len(q.out) = fresh + L
      /\ \A z \in F : Below(q.g, z) \subseteq S \cup (fresh .. (z - 1))
  BY DEF Growing
<1>2. /\ fresh \in Nat /\ L \in Nat /\ fresh + L - 2 <= MaxNode
      /\ h.alive \subseteq Node /\ \A z \in h.alive : z < fresh
      /\ S \subseteq h.alive \ det /\ det \subseteq h.alive /\ ret \subseteq det
  BY DEF Roomy
<1>3. /\ Len(q.args) \in Nat /\ Len(q.out) \in Nat
      /\ x \in S \cup F /\ y \in S \cup F
  <2>1. Len(q.args) \in Nat /\ Len(q.out) \in Nat
    BY <1>1, LenProperties
  <2>2. 1 \in 1 .. Len(q.args) /\ 2 \in 1 .. Len(q.args)
    BY <2>1
  <2> HIDE DEF F
  <2> QED
    BY <1>1, <2>1, <2>2, ElementOfSeq
<1>4. c \in Node
  <2>0. \A i, j, k \in Nat : k + i + j = fresh + L /\ i + j >= 3 => k <= MaxNode - 1
    BY <1>2, MaxNodeAssumption
  <2>1. c <= MaxNode - 1
    BY <2>0, <1>1, <1>3, Zenon
  <2> QED
    BY <2>1, <1>1, MaxNodeAssumption DEF Node
<1>5. /\ fresh .. c = F \cup {c} /\ c \notin F /\ F \subseteq Nat
      /\ \A z \in F : fresh <= z /\ z < c
      /\ \A z \in F : c \notin fresh .. (z - 1)
      /\ fresh .. (c + 1 - 1) = F \cup {c}
  BY <1>1, <1>2
<1>6. c \notin h.alive
  <2>1. ~(c < fresh)
    BY <1>1, <1>2
  <2> QED
    BY <2>1, <1>2
<1>7. c \notin q.g.alive /\ c \notin det /\ c \notin S
  BY <1>1, <1>2, <1>5, <1>6
<1>8. \A z \in F : z \notin det
  <2>1. ASSUME NEW z \in F, z \in det PROVE FALSE
    <3>1. fresh <= z /\ z < fresh /\ z \in Nat
      BY <2>1, <1>2, <1>5
    <3> QED
      BY <3>1, <1>2
  <2> QED
    BY <2>1
<1>9. x \in q.g.alive \ det /\ y \in q.g.alive \ det
  BY <1>1, <1>2, <1>3, <1>8
<1>n. q.g.alive \subseteq Node /\ q.g.operands \in [Node -> Bag]
  BY <1>1 DEF GraphInv, Typed
<1>s. F \subseteq Node /\ S \cup F \subseteq Node /\ c \notin S \cup F
  BY <1>1, <1>2, <1>5, <1>7, <1>n
<1>b. \A z \in F : c \notin Below(q.g, z)
  BY <1>1, <1>5, <1>7
<1> HIDE DEF F, x, y
<1>10. /\ \A z \in Node \ {c} : f.operands[z] = q.g.operands[z]
       /\ f.operands[c] = AsBag(<<x, y>>)
  <2> DEFINE gr == q.g
             ff == f
  <2>1. /\ GraphInv(gr, det, ret) /\ c \notin gr.alive
        /\ x \in gr.alive \ det /\ y \in gr.alive \ det
        /\ ff = SetOperands(NewNode(gr, c), c, AsBag(<<x, y>>))
    BY <1>1, <1>7, <1>9
  <2> HIDE DEF gr, ff, f
  <2>2. /\ \A z \in Node \ {c} : ff.operands[z] = gr.operands[z]
        /\ ff.operands[c] = AsBag(<<x, y>>)
    BY <2>1, <1>2, <1>4, <1>7, JoinGraph
  <2> QED
    BY <2>2 DEF gr, ff
<1>11. /\ Join(q).g = f /\ Join(q).next = c + 1
  BY DEF Join, x, y
<1> HIDE DEF f
<1>12. q.args \in Seq(Node) /\ q.out \in Seq(Node)
  BY <1>1, <1>s, SeqMonotonic
<1>13. /\ \A i \in 1 .. Len(q.args) : q.args[i] # c
       /\ \A i \in 1 .. Len(q.out) : q.out[i] # c
  <2>1. /\ \A i \in 1 .. Len(q.args) : q.args[i] \in S \cup F
        /\ \A i \in 1 .. Len(q.out) : q.out[i] \in S \cup F
    BY <1>1, ElementOfSeq
  <2> QED
    BY <2>1, <1>s
<1>14. fresh .. (Join(q).next - 1) = F \cup {c}
  <2> DEFINE r == Join(q)
  <2>1. r.next = c + 1
    BY <1>11
  <2> HIDE DEF r, c
  <2>2. fresh .. (r.next - 1) = F \cup {c}
    BY <2>1, <1>5
  <2> QED
    BY <2>2 DEF r
<1>15. x \in Node /\ y \in Node
  BY <1>3, <1>s
<1> QED
  BY <1>4, <1>5, <1>s, <1>n, <1>b, <1>10, <1>11, <1>12, <1>13, <1>14, <1>15 DEF F, x, y

\* A turn of the loops is one of three; the sequences and their lengths.
LEMMA TurnCases ==
  ASSUME NEW q, NEW X, q.args \in Seq(X), q.out \in Seq(X)
  PROVE  /\ Len(q.args) \in Nat /\ Len(q.out) \in Nat
         /\ q.out = <<>> => Len(q.out) = 0
         /\ q.out # <<>> => Len(q.out) > 0
         /\ \/ Balanced(q) /\ Turn(q) = q
            \/ ~Balanced(q) /\ Turn(q) = NextLevel(q) /\ Len(q.args) < 2 /\ q.out # <<>>
            \/ ~Balanced(q) /\ Turn(q) = Join(q) /\ Len(q.args) >= 2 /\ Len(q.args) + Len(q.out) >= 3
<1> DEFINE a == q.args
           o == q.out
<1>1. a \in Seq(X) /\ o \in Seq(X)
  OBVIOUS
<1> HIDE DEF a, o
<1>2. Len(a) \in Nat /\ Len(o) \in Nat /\ (o = <<>> => Len(o) = 0) /\ (o # <<>> => Len(o) > 0)
  <2>1. Len(a) \in Nat /\ Len(o) \in Nat /\ (o # <<>> => Len(o) # 0) /\ (o = <<>> => Len(o) = 0)
    BY <1>1, LenProperties, EmptySeq
  <2> QED
    BY <2>1
<1>3. Balanced(q) <=> o = <<>> /\ Len(a) <= 2
  BY DEF Balanced, a, o
<1>4. Turn(q) = IF Balanced(q) THEN q ELSE IF Len(a) < 2 THEN NextLevel(q) ELSE Join(q)
  BY DEF Turn, a
<1>5. CASE Balanced(q)
  BY <1>2, <1>4, <1>5 DEF a, o
<1>6. CASE ~Balanced(q) /\ Len(a) < 2
  <2>1. o # <<>>
    BY <1>2, <1>3, <1>6
  <2>2. Turn(q) = NextLevel(q)
    BY <1>4, <1>6
  <2> QED
    BY <2>1, <2>2, <1>2, <1>6 DEF a, o
<1>7. CASE ~Balanced(q) /\ ~(Len(a) < 2)
  <2>1. Turn(q) = Join(q)
    BY <1>4, <1>7
  <2>2. Len(a) >= 2 /\ Len(a) + Len(o) >= 3
    <3>1. \A i, j \in Nat : ~(i < 2) /\ (j > 0 \/ ~(i <= 2)) => i >= 2 /\ i + j >= 3
      OBVIOUS
    <3> QED
      BY <3>1, <1>2, <1>3, <1>7, Zenon
  <2> QED
    BY <2>1, <2>2, <1>2, <1>7 DEF a, o
<1> QED
  BY <1>5, <1>6, <1>7

\* Balancing has ended, or it has turns enough to come.
Progress(q, i, L) ==
  \/ Balanced(q)
  \/ 2 * (Len(q.args) + Len(q.out)) + (IF q.out = <<>> THEN 0 ELSE 1) + i <= 2 * L

\* A turn decreases the measure, until the nodes are balanced.
LEMMA TurnProgresses ==
  ASSUME NEW q, NEW X, q.args \in Seq(X), q.out \in Seq(X), q.next \in X,
         NEW L \in Nat, NEW i \in Nat, Progress(q, i, L)
  PROVE  Progress(Turn(q), i + 1, L)
<1> DEFINE r == Turn(q)
           a == q.args
           o == q.out
<1>1. /\ Len(a) \in Nat /\ Len(o) \in Nat
      /\ o = <<>> => Len(o) = 0
      /\ o # <<>> => Len(o) > 0
  BY TurnCases
<1>2. CASE Balanced(q) /\ r = q
  BY <1>2 DEF Progress
<1>3. CASE ~Balanced(q) /\ r = NextLevel(q) /\ Len(a) < 2 /\ o # <<>>
  <2>0. NextLevel(q).args = o \o a /\ NextLevel(q).out = <<>>
    BY DEF NextLevel
  <2>1. r.args = o \o a /\ r.out = <<>>
    BY <2>0, <1>3, Zenon
  <2>2. 2 * (Len(a) + Len(o)) + 1 + i <= 2 * L
    <3>1. 2 * (Len(a) + Len(o)) + (IF o = <<>> THEN 0 ELSE 1) + i <= 2 * L
      BY <1>3 DEF Progress
    <3>2. (IF o = <<>> THEN 0 ELSE 1) = 1
      BY <1>3
    <3> QED
      BY <3>1, <3>2
  <2>3. a \in Seq(X) /\ o \in Seq(X)
    OBVIOUS
  <2> HIDE DEF r, a, o
  <2>4. Len(o \o a) = Len(o) + Len(a)
    BY <2>3, ConcatProperties
  <2>5. Len(r.args) = Len(o) + Len(a) /\ Len(r.out) = 0
    BY <2>1, <2>4, EmptySeq
  <2>6. \A j, k \in Nat : 2 * (j + k) + 1 + i <= 2 * L => 2 * ((k + j) + 0) + 0 + (i + 1) <= 2 * L
    OBVIOUS
  <2>7. 2 * ((Len(o) + Len(a)) + 0) + 0 + (i + 1) <= 2 * L
    BY <1>1, <2>2, <2>6, Zenon
  <2>8. (IF r.out = <<>> THEN 0 ELSE 1) = 0
    BY <2>1
  <2>9. 2 * (Len(r.args) + Len(r.out)) + (IF r.out = <<>> THEN 0 ELSE 1) + (i + 1) <= 2 * L
    BY <2>5, <2>7, <2>8, Zenon
  <2> QED
    BY <2>9 DEF Progress, r
<1>4. CASE ~Balanced(q) /\ r = Join(q) /\ Len(a) >= 2
  <2> DEFINE k == Len(a)
             c == q.next
  <2>1. r.args = SubSeq(a, 3, k) /\ r.out = Append(o, c)
    BY <1>4 DEF Join
  <2>2. 2 * (k + Len(o)) + i <= 2 * L
    <3>1. 2 * (k + Len(o)) + (IF o = <<>> THEN 0 ELSE 1) + i <= 2 * L
      BY <1>4 DEF Progress
    <3>2. (IF o = <<>> THEN 0 ELSE 1) \in {0, 1}
      OBVIOUS
    <3>3. \A m, j, d \in Nat : 2 * (m + j) + d + i <= 2 * L => 2 * (m + j) + i <= 2 * L
      OBVIOUS
    <3> QED
      BY <3>1, <3>2, <3>3, <1>1
  <2>3. a \in Seq(X) /\ o \in Seq(X) /\ c \in X
    OBVIOUS
  <2>4. k \in Nat /\ k >= 2 /\ k = Len(a)
    BY <1>1, <1>4
  <2> HIDE DEF r, a, o, k, c
  <2>5. Len(SubSeq(a, 3, k)) = k - 2
    <3>1. \A j \in 3 .. k : a[j] \in X
      BY <2>3, <2>4, ElementOfSeq
    <3>2. Len(SubSeq(a, 3, k)) = IF 3 <= k THEN k - 3 + 1 ELSE 0
      BY <2>3, <2>4, <3>1, SubSeqProperties
    <3> QED
      BY <3>2, <2>4
  <2>6. Len(Append(o, c)) = Len(o) + 1 /\ Append(o, c) \in Seq(X)
    BY <2>3, AppendProperties
  <2>7. Len(r.args) = k - 2 /\ Len(r.out) = Len(o) + 1 /\ r.out # <<>>
    <3>1. Append(o, c) # <<>>
      BY <2>3, AppendProperties
    <3> QED
      BY <3>1, <2>1, <2>5, <2>6
  <2>8. \A m, j \in Nat : m >= 2 /\ 2 * (m + j) + i <= 2 * L =>
           2 * ((m - 2) + (j + 1)) + 1 + (i + 1) <= 2 * L
    OBVIOUS
  <2>9. 2 * ((k - 2) + (Len(o) + 1)) + 1 + (i + 1) <= 2 * L
    BY <1>1, <2>2, <2>4, <2>8, Zenon
  <2>10. (IF r.out = <<>> THEN 0 ELSE 1) = 1
    BY <2>7
  <2>11. 2 * (Len(r.args) + Len(r.out)) + (IF r.out = <<>> THEN 0 ELSE 1) + (i + 1) <= 2 * L
    BY <2>7, <2>9, <2>10, Zenon
  <2> QED
    BY <2>11 DEF Progress, r
<1> QED
  BY <1>2, <1>3, <1>4, TurnCases

-----------------------------------------------------------------------------
(* Balancing: what every turn carries over                                 *)

\* Every new node is over two.
Pairs(q, fresh) ==
  \A x \in fresh .. (q.next - 1) : \E y, z \in Node : q.g.operands[x] = AsBag(<<y, z>>)

\* A turn makes nodes over two others only.
LEMMA TurnPairs ==
  ASSUME NEW q, NEW h, NEW fresh, NEW S, NEW L, NEW det, NEW ret,
         Roomy(h, fresh, S, L, det, ret), Growing(q, h, fresh, S, L, det, ret),
         Pairs(q, fresh)
  PROVE  Pairs(Turn(q), fresh)
<1> DEFINE X == S \cup (fresh .. (q.next - 1))
<1>1. q.args \in Seq(X) /\ q.out \in Seq(X)
  BY DEF Growing
<1> HIDE DEF X
<1>2. CASE Turn(q) = q
  BY <1>2
<1>3. CASE Turn(q) = NextLevel(q)
  <2>1. NextLevel(q).g = q.g /\ NextLevel(q).next = q.next
    BY DEF NextLevel
  <2> QED
    BY <1>3, <2>1, Zenon DEF Pairs
<1>4. CASE Turn(q) = Join(q) /\ Len(q.args) >= 2 /\ Len(q.args) + Len(q.out) >= 3
  <2> DEFINE c == q.next
             F == fresh .. (q.next - 1)
             r == Join(q)
             x == q.args[1]
             y == q.args[2]
  <2>1. /\ c \in Node /\ F \subseteq Node /\ c \notin F
        /\ fresh .. (r.next - 1) = F \cup {c}
        /\ x \in Node /\ y \in Node
        /\ r.g.operands[c] = AsBag(<<x, y>>)
        /\ \A z \in Node \ {c} : r.g.operands[z] = q.g.operands[z]
    BY <1>4, JoinParts
  <2>2. \A z \in F : \E k, l \in Node : q.g.operands[z] = AsBag(<<k, l>>)
    BY DEF Pairs
  <2> HIDE DEF c, F, r, x, y
  <2>3. \A z \in F \cup {c} : \E k, l \in Node : r.g.operands[z] = AsBag(<<k, l>>)
    BY <2>1, <2>2
  <2>4. Pairs(r, fresh)
    BY <2>1, <2>3, Zenon DEF Pairs
  <2> QED
    BY <2>4, <1>4 DEF r
<1> QED
  BY <1>1, <1>2, <1>3, <1>4, TurnCases

\* The values that the new nodes have to have for what is gathered to stay the same.
Carries(w, q, fresh, V, f, e, v, total) ==
  /\ w \in [Node -> V]
  /\ \A m \in Node : m \notin fresh .. (q.next - 1) => w[m] = v[m]
  /\ \A m \in fresh .. (q.next - 1) : w[m] = Gather(f, e, q.g.operands[m], w)
  /\ f[Gather(f, e, AsBag(q.out), w)][Gather(f, e, AsBag(q.args), w)] = total

\* The value of a node that does not occur is of no account.
Skips(s, c) == \A i \in 1 .. Len(s) : s[i] # c
AgreeBut(c, v, w) == \A m \in Node : m # c => v[m] = w[m]

\* What is gathered does not change with the value of a node that does not occur.
LEMMA GatherWithout ==
  ASSUME NEW f, NEW e, NEW s \in Seq(Node), NEW c, Skips(s, c),
         NEW v, NEW w, AgreeBut(c, v, w)
  PROVE  Gather(f, e, AsBag(s), v) = Gather(f, e, AsBag(s), w)
<1>1. AsBag(s) \in Bag /\ \A m \in Node : AsBag(s)[m] > 0 <=> \E i \in 1 .. Len(s) : s[i] = m
  BY AsBagFacts
<1>2. \A m \in Node : AsBag(s)[m] > 0 => v[m] = w[m]
  BY <1>1 DEF Skips, AgreeBut
<1> QED
  BY <1>1, <1>2, GatherSame

\* The next level begins with what the last one gathered.
LEMMA NextLevelCarries ==
  ASSUME NEW q, q.args \in Seq(Node), q.out \in Seq(Node), NEW fresh,
         NEW V, NEW f, NEW e, Regroups(V, f, e), NEW v, NEW total,
         NEW w, Carries(w, q, fresh, V, f, e, v, total)
  PROVE  Carries(w, NextLevel(q), fresh, V, f, e, v, total)
<1> DEFINE r == NextLevel(q)
           a == q.args
           o == q.out
<1>1. r.g = q.g /\ r.next = q.next /\ r.args = o \o a /\ r.out = <<>>
  BY DEF NextLevel
<1>2. a \in Seq(Node) /\ o \in Seq(Node)
  OBVIOUS
<1>3. /\ w \in [Node -> V]
      /\ \A m \in Node : m \notin fresh .. (q.next - 1) => w[m] = v[m]
      /\ \A m \in fresh .. (q.next - 1) : w[m] = Gather(f, e, q.g.operands[m], w)
      /\ f[Gather(f, e, AsBag(o), w)][Gather(f, e, AsBag(a), w)] = total
  BY DEF Carries
<1> HIDE DEF r, a, o
<1>4. /\ Gather(f, e, AsBag(o \o a), w) = total
      /\ Gather(f, e, AsBag(o \o a), w) \in V
  <2>1. o \o a \in Seq(Node)
    BY <1>2, ConcatProperties
  <2> QED
    <3>1. w \in [Node -> V] /\ o \in Seq(Node) /\ a \in Seq(Node)
      BY <1>2, <1>3
    <3>2. Gather(f, e, AsBag(o \o a), w) = f[Gather(f, e, AsBag(o), w)][Gather(f, e, AsBag(a), w)]
      BY <3>1, GatherConcat
    <3>3. Gather(f, e, AsBag(o \o a), w) \in V
      BY <2>1, <3>1, GatherConcat
    <3> QED
      BY <3>2, <3>3, <1>3, Zenon
<1>5. Gather(f, e, AsBag(<<>>), w) = e
  BY <1>3, GatherFew
<1>6. f[e][total] = total
  BY <1>4 DEF Regroups
<1>7. f[Gather(f, e, AsBag(r.out), w)][Gather(f, e, AsBag(r.args), w)] = total
  BY <1>1, <1>4, <1>5, <1>6, Zenon
<1>8. Carries(w, r, fresh, V, f, e, v, total)
  BY <1>1, <1>3, <1>7, Zenon DEF Carries
<1> QED
  BY <1>8 DEF r

\* A join has a new node gather what its two operands gathered.
LEMMA JoinCarries ==
  ASSUME NEW q, NEW h, NEW fresh, NEW S, NEW L, NEW det, NEW ret,
         Roomy(h, fresh, S, L, det, ret), Growing(q, h, fresh, S, L, det, ret),
         Len(q.args) >= 2, Len(q.args) + Len(q.out) >= 3,
         NEW V, NEW f, NEW e, Regroups(V, f, e), NEW v, NEW total,
         NEW w, Carries(w, q, fresh, V, f, e, v, total)
  PROVE  \E u : Carries(u, Join(q), fresh, V, f, e, v, total)
<1> DEFINE c == q.next
           F == fresh .. (q.next - 1)
           r == Join(q)
           a == q.args
           o == q.out
           x == a[1]
           y == a[2]
           p == AsBag(<<x, y>>)
           rest == SubSeq(a, 3, Len(a))
           u == [w EXCEPT ![c] = Gather(f, e, p, w)]
<1>1. /\ c \in Node /\ F \subseteq Node /\ c \notin F
      /\ fresh .. (r.next - 1) = F \cup {c}
      /\ a \in Seq(Node) /\ o \in Seq(Node)
      /\ \A i \in 1 .. Len(a) : a[i] # c
      /\ \A i \in 1 .. Len(o) : o[i] # c
      /\ \A z \in F : c \notin Below(q.g, z)
      /\ x \in Node /\ y \in Node
      /\ r.g.operands[c] = p
      /\ \A z \in Node \ {c} : r.g.operands[z] = q.g.operands[z]
      /\ q.g.operands \in [Node -> Bag]
  BY JoinParts
<1>2. r.args = rest /\ r.out = Append(o, c)
  BY DEF Join
<1>3. /\ w \in [Node -> V]
      /\ \A m \in Node : m \notin F => w[m] = v[m]
      /\ \A m \in F : w[m] = Gather(f, e, q.g.operands[m], w)
      /\ f[Gather(f, e, AsBag(o), w)][Gather(f, e, AsBag(a), w)] = total
  BY DEF Carries
<1>4. Len(a) >= 2
  OBVIOUS
<1> HIDE DEF c, F, r, a, o
<1>5. rest \in Seq(Node) /\ a = <<x, y>> \o rest /\ <<x, y>> \in Seq(Node)
  BY <1>1, <1>4, PairOff
<1>6. x # c /\ y # c
  <2>1. Len(a) \in Nat
    BY <1>1, LenProperties
  <2>2. 1 \in 1 .. Len(a) /\ 2 \in 1 .. Len(a)
    BY <2>1, <1>4
  <2> QED
    BY <2>2, <1>1
<1> HIDE DEF x, y
<1>7. /\ p \in Bag
      /\ \A m \in Node : p[m] > 0 <=> m \in {x, y}
  BY <1>1, PairFacts
<1>8. Gather(f, e, p, w) \in V
  <2>1. \A m \in Node : p[m] > 0 => w[m] \in V
    BY <1>3
  <2> QED
    BY <2>1, <1>7, GatherType
<1> HIDE DEF p, rest
<1>9. /\ u \in [Node -> V] /\ u[c] = Gather(f, e, p, w)
      /\ \A m \in Node : m # c => w[m] = u[m]
  BY <1>1, <1>3, <1>8
<1> HIDE DEF u
<1>10. u[c] = Gather(f, e, p, u)
  <2>1. \A m \in Node : p[m] > 0 => w[m] = u[m]
    BY <1>6, <1>7, <1>9
  <2>2. Gather(f, e, p, w) = Gather(f, e, p, u)
    BY <2>1, <1>7, GatherSame
  <2> QED
    BY <2>2, <1>9
<1>11. ASSUME NEW m \in F PROVE u[m] = Gather(f, e, r.g.operands[m], u)
  <2> DEFINE b == q.g.operands[m]
  <2>1. m \in Node /\ m # c
    BY <1>1
  <2>2. b \in Bag
    BY <1>1, <2>1
  <2>3. r.g.operands[m] = b
    BY <1>1, <2>1
  <2>4. \A z \in Node : b[z] > 0 => z # c
    BY <1>1 DEF Below, Preds
  <2>5. w[m] = Gather(f, e, b, w)
    BY <1>3
  <2> HIDE DEF b
  <2>6. Gather(f, e, b, w) = Gather(f, e, b, u)
    <3>1. \A z \in Node : b[z] > 0 => w[z] = u[z]
      BY <2>4, <1>9
    <3> QED
      BY <3>1, <2>2, GatherSame
  <2>7. u[m] = Gather(f, e, b, u)
    BY <2>1, <2>5, <2>6, <1>9
  <2> QED
    BY <2>3, <2>7, Zenon
<1>12. \A m \in F \cup {c} : u[m] = Gather(f, e, r.g.operands[m], u)
  <2>1. u[c] = Gather(f, e, r.g.operands[c], u)
    BY <1>1, <1>10, Zenon
  <2> QED
    BY <2>1, <1>11
<1>13. \A m \in Node : m \notin F \cup {c} => u[m] = v[m]
  BY <1>3, <1>9
<1> DEFINE O == Gather(f, e, AsBag(o), u)
           P == Gather(f, e, AsBag(<<x, y>>), u)
           R == Gather(f, e, AsBag(rest), u)
<1>14. /\ Gather(f, e, AsBag(o), w) = O
       /\ Gather(f, e, AsBag(a), w) = Gather(f, e, AsBag(a), u)
  <2>1. AgreeBut(c, w, u)
    BY <1>9 DEF AgreeBut
  <2>2. Gather(f, e, AsBag(o), w) = Gather(f, e, AsBag(o), u)
    <3>1. o \in Seq(Node) /\ Skips(o, c)
      BY <1>1 DEF Skips
    <3> QED
      BY <2>1, <3>1, GatherWithout
  <2>3. Gather(f, e, AsBag(a), w) = Gather(f, e, AsBag(a), u)
    <3>1. a \in Seq(Node) /\ Skips(a, c)
      BY <1>1 DEF Skips
    <3> QED
      BY <2>1, <3>1, GatherWithout
  <2> QED
    BY <2>2, <2>3
<1>u. u \in [Node -> V]
  BY <1>9
<1>15. Gather(f, e, AsBag(a), u) = f[P][R] /\ P \in V /\ R \in V /\ O \in V
  <2> DEFINE d == <<x, y>>
  <2>1. rest \in Seq(Node) /\ d \in Seq(Node) /\ o \in Seq(Node) /\ a = d \o rest
    BY <1>1, <1>5
  <2> HIDE DEF d
  <2>2. Gather(f, e, AsBag(d \o rest), u) = f[Gather(f, e, AsBag(d), u)][R]
    BY <2>1, <1>u, GatherConcat
  <2>3. Gather(f, e, AsBag(d), u) \in V /\ R \in V /\ O \in V
    BY <2>1, <1>u, GatherConcat
  <2> QED
    BY <2>1, <2>2, <2>3, Zenon DEF d
<1>16. Gather(f, e, AsBag(Append(o, c)), u) = f[O][P]
  <2> DEFINE d == <<c>>
  <2>1. d \in Seq(Node) /\ o \in Seq(Node)
    BY <1>1
  <2>2. Append(o, c) = o \o d
    BY <1>1, AppendIsConcat
  <2>4. Gather(f, e, AsBag(d), u) = u[c]
    BY <1>1, <1>9, GatherFew
  <2> HIDE DEF d
  <2>3. Gather(f, e, AsBag(o \o d), u) = f[O][Gather(f, e, AsBag(d), u)]
    BY <2>1, <1>u, GatherConcat
  <2>5. u[c] = P
    BY <1>10, Zenon DEF p
  <2> QED
    BY <2>2, <2>3, <2>4, <2>5, Zenon
<1>17. f[f[O][P]][R] = total
  <2>1. f[O][f[P][R]] = total
    BY <1>3, <1>14, <1>15, Zenon
  <2> HIDE DEF O, P, R
  <2>2. f[f[O][P]][R] = f[O][f[P][R]]
    BY <1>15 DEF Regroups
  <2> QED
    BY <2>1, <2>2
<1>18. f[Gather(f, e, AsBag(r.out), u)][Gather(f, e, AsBag(r.args), u)] = total
  BY <1>2, <1>16, <1>17, Zenon
<1>19. Carries(u, r, fresh, V, f, e, v, total)
  BY <1>1, <1>9, <1>12, <1>13, <1>18, Zenon DEF Carries
<1> QED
  BY <1>19 DEF r

\* Every turn carries over what all the nodes gather.
LEMMA TurnCarries ==
  ASSUME NEW q, NEW h, NEW fresh, NEW S, NEW L, NEW det, NEW ret,
         Roomy(h, fresh, S, L, det, ret), Growing(q, h, fresh, S, L, det, ret),
         NEW V, NEW f, NEW e, Regroups(V, f, e), NEW v, NEW total,
         NEW w, Carries(w, q, fresh, V, f, e, v, total)
  PROVE  \E u : Carries(u, Turn(q), fresh, V, f, e, v, total)
<1> DEFINE X == S \cup (fresh .. (q.next - 1))
<1>1. q.args \in Seq(X) /\ q.out \in Seq(X)
  BY DEF Growing
<1>n. X \subseteq Node
  <2>1. X \subseteq q.g.alive \cup h.alive
    BY DEF Growing, Roomy
  <2>2. q.g.alive \subseteq Node /\ h.alive \subseteq Node
    BY DEF Growing, Roomy, GraphInv, Typed
  <2> QED
    BY <2>1, <2>2
<1> HIDE DEF X
<1>2. CASE Turn(q) = q
  BY <1>2
<1>3. CASE Turn(q) = NextLevel(q)
  <2>1. q.args \in Seq(Node) /\ q.out \in Seq(Node)
    BY <1>1, <1>n, SeqMonotonic
  <2>2. Carries(w, NextLevel(q), fresh, V, f, e, v, total)
    BY <2>1, NextLevelCarries
  <2> QED
    BY <2>2, <1>3
<1>4. CASE Turn(q) = Join(q) /\ Len(q.args) >= 2 /\ Len(q.args) + Len(q.out) >= 3
  <2>1. \E u : Carries(u, Join(q), fresh, V, f, e, v, total)
    BY <1>4, JoinCarries
  <2> QED
    BY <2>1, <1>4
<1> QED
  BY <1>1, <1>2, <1>3, <1>4, TurnCases

-----------------------------------------------------------------------------
(* Balancing: what is left at its end                                      *)

\* Balancing ends: two are left, and every new node is over two.
LEMMA BalanceEnds ==
  ASSUME NEW h, NEW fresh, NEW S, NEW s, NEW det, NEW ret,
         GraphInv(h, det, ret), s \in Seq(S), Len(s) >= 2, Roomy(h, fresh, S, Len(s), det, ret),
         NEW r, r = Balance(h, fresh, s)
  PROVE  r.out = <<>> /\ Len(r.args) = 2 /\ Pairs(r, fresh)
<1> DEFINE q == Turns(h, fresh, s)
           L == Len(s)
           first == [g |-> h, next |-> fresh, args |-> s, out |-> <<>>]
           Fine(i) == Progress(q[i], i, L) /\ Pairs(q[i], fresh)
           Bad == {i \in 0 .. (2 * L) : ~Fine(i)}
<1>1. L \in Nat /\ fresh \in Nat /\ L >= 2
  BY LenProperties DEF Roomy
<1>2. /\ q[0] = first
      /\ \A i \in 1 .. (2 * L) : q[i] = Turn(q[i - 1])
  BY <1>1, TurnsFollow DEF Follows
<1>3. \A i \in 0 .. (2 * L) : Growing(q[i], h, fresh, S, L, det, ret)
  BY TurnsGrow
<1>4. first.next = fresh /\ first.args = s /\ first.out = <<>>
  OBVIOUS
<1>r. r = q[2 * L]
  BY DEF Balance
<1> HIDE DEF q, first
<1>5. Fine(0)
  <2>1. Pairs(first, fresh)
    <3>1. fresh .. (fresh - 1) = {}
      BY <1>1
    <3> QED
      BY <3>1, <1>4 DEF Pairs
  <2>2. Len(<<>>) = 0
    BY EmptySeq
  <2>3. 2 * (L + 0) + 0 + 0 <= 2 * L
    BY <1>1
  <2>4. (IF first.out = <<>> THEN 0 ELSE 1) = 0
    BY <1>4
  <2>5. 2 * (Len(first.args) + Len(first.out)) + (IF first.out = <<>> THEN 0 ELSE 1) + 0 <= 2 * L
    BY <1>4, <2>2, <2>3, <2>4, Zenon
  <2>6. Progress(first, 0, L)
    BY <2>5 DEF Progress
  <2> QED
    BY <1>2, <2>1, <2>6, Zenon
<1>6. ASSUME NEW i \in 1 .. (2 * L), Fine(i - 1) PROVE Fine(i)
  <2> DEFINE p == q[i - 1]
             X == S \cup (fresh .. (p.next - 1)) \cup {p.next}
  <2>1. i - 1 \in 0 .. (2 * L) /\ i - 1 \in Nat /\ (i - 1) + 1 = i
    BY <1>1
  <2>2. Growing(p, h, fresh, S, L, det, ret)
    BY <2>1, <1>3
  <2>3. q[i] = Turn(p)
    BY <1>2
  <2>4. Progress(p, i - 1, L) /\ Pairs(p, fresh)
    BY <1>6
  <2> HIDE DEF p
  <2>5. p.args \in Seq(X) /\ p.out \in Seq(X) /\ p.next \in X
    <3>1. S \cup (fresh .. (p.next - 1)) \subseteq X
      OBVIOUS
    <3>2. p.args \in Seq(S \cup (fresh .. (p.next - 1))) /\ p.out \in Seq(S \cup (fresh .. (p.next - 1)))
      BY <2>2 DEF Growing
    <3> QED
      BY <3>1, <3>2, SeqMonotonic
  <2> HIDE DEF X
  <2>6. Progress(Turn(p), (i - 1) + 1, L)
    BY <1>1, <2>1, <2>4, <2>5, TurnProgresses
  <2>7. Pairs(Turn(p), fresh)
    BY <2>2, <2>4, TurnPairs
  <2> QED
    BY <2>1, <2>3, <2>6, <2>7, Zenon
<1> HIDE DEF Fine
<1>7. ASSUME Bad # {} PROVE FALSE
  <2>1. Bad \in SUBSET Nat
    BY <1>1
  <2>2. PICK i \in Bad : \A j \in Bad : i <= j
    BY <1>7, <2>1, LeastNumber
  <2>3. i \in 1 .. (2 * L) /\ i - 1 \in 0 .. (2 * L) /\ ~(i <= i - 1)
    BY <1>1, <1>5, <2>2
  <2>4. Fine(i - 1)
    BY <2>2, <2>3
  <2> QED
    BY <2>2, <2>3, <2>4, <1>6
<1>8. Fine(2 * L) /\ Growing(q[2 * L], h, fresh, S, L, det, ret)
  <2>1. 2 * L \in 0 .. (2 * L)
    BY <1>1
  <2> QED
    BY <2>1, <1>3, <1>7
<1>9. Progress(r, 2 * L, L) /\ Pairs(r, fresh)
  BY <1>8, <1>r, Zenon DEF Fine
<1>10. /\ Len(r.args) \in Nat /\ Len(r.out) \in Nat
       /\ Len(r.args) + Len(r.out) >= 2
  <2>1. Growing(r, h, fresh, S, L, det, ret)
    BY <1>8, <1>r
  <2>2. /\ r.args \in Seq(S \cup (fresh .. (r.next - 1)))
        /\ r.out \in Seq(S \cup (fresh .. (r.next - 1)))
        /\ Len(r.args) + Len(r.out) >= 2
    BY <2>1 DEF Growing
  <2> QED
    BY <2>2, LenProperties
<1>11. Balanced(r)
  <2>1. (IF r.out = <<>> THEN 0 ELSE 1) \in {0, 1}
    OBVIOUS
  <2>2. \A i, j \in Nat : \A d \in {0, 1} : i + j >= 2 => ~(2 * (i + j) + d + 2 * L <= 2 * L)
    BY <1>1
  <2>3. ~(2 * (Len(r.args) + Len(r.out)) + (IF r.out = <<>> THEN 0 ELSE 1) + 2 * L <= 2 * L)
    BY <1>10, <2>1, <2>2, Zenon
  <2> QED
    BY <1>9, <2>3 DEF Progress
<1>12. r.out = <<>> /\ Len(r.args) <= 2
  BY <1>11 DEF Balanced
<1>13. Len(r.args) = 2
  <2>1. Len(r.out) = 0
    BY <1>12, EmptySeq
  <2>2. \A i \in Nat : i + 0 >= 2 /\ i <= 2 => i = 2
    OBVIOUS
  <2>3. Len(r.args) + 0 >= 2
    BY <2>1, <1>10, Zenon
  <2> QED
    BY <2>2, <2>3, <1>10, <1>12, Zenon
<1> QED
  BY <1>9, <1>12, <1>13

\* What the sequence gathered, the two that are left gather.
LEMMA BalanceCarries ==
  ASSUME NEW h, NEW fresh, NEW S, NEW s, NEW det, NEW ret,
         GraphInv(h, det, ret), s \in Seq(S), Len(s) >= 2, Roomy(h, fresh, S, Len(s), det, ret),
         NEW V, NEW f, NEW e, Regroups(V, f, e), NEW v \in [Node -> V]
  PROVE  \E w : Carries(w, Balance(h, fresh, s), fresh, V, f, e, v, Gather(f, e, AsBag(s), v))
<1> DEFINE q == Turns(h, fresh, s)
           L == Len(s)
           total == Gather(f, e, AsBag(s), v)
           first == [g |-> h, next |-> fresh, args |-> s, out |-> <<>>]
           Fine(i) == \E w : Carries(w, q[i], fresh, V, f, e, v, total)
           Bad == {i \in 0 .. (2 * L) : ~Fine(i)}
<1>1. L \in Nat /\ fresh \in Nat /\ S \subseteq Node
  BY LenProperties DEF Roomy
<1>2. /\ q[0] = first
      /\ \A i \in 1 .. (2 * L) : q[i] = Turn(q[i - 1])
  BY <1>1, TurnsFollow DEF Follows
<1>3. \A i \in 0 .. (2 * L) : Growing(q[i], h, fresh, S, L, det, ret)
  BY TurnsGrow
<1>4. first.next = fresh /\ first.args = s /\ first.out = <<>>
  OBVIOUS
<1>r. Balance(h, fresh, s) = q[2 * L]
  BY DEF Balance
<1>s. s \in Seq(Node)
  BY <1>1, SeqMonotonic
<1>t. total \in V
  BY <1>s, GatherConcat
<1> HIDE DEF q, first
<1>5. Fine(0)
  <2>1. fresh .. (fresh - 1) = {}
    BY <1>1
  <2>2. Gather(f, e, AsBag(<<>>), v) = e
    BY GatherFew
  <2>3. f[e][total] = total
    BY <1>t DEF Regroups
  <2> HIDE DEF total
  <2>4. f[Gather(f, e, AsBag(first.out), v)][Gather(f, e, AsBag(first.args), v)] = total
    BY <1>4, <2>2, <2>3, Zenon DEF total
  <2>5. /\ \A m \in fresh .. (first.next - 1) : v[m] = Gather(f, e, first.g.operands[m], v)
        /\ \A m \in Node : m \notin fresh .. (first.next - 1) => v[m] = v[m]
    BY <1>4, <2>1
  <2>6. Carries(v, first, fresh, V, f, e, v, total)
    BY <2>4, <2>5, Zenon DEF Carries
  <2> QED
    BY <2>6, <1>2, Zenon
<1> HIDE DEF total
<1>6. ASSUME NEW i \in 1 .. (2 * L), Fine(i - 1) PROVE Fine(i)
  <2> DEFINE p == q[i - 1]
  <2>1. i - 1 \in 0 .. (2 * L)
    BY <1>1
  <2>2. Growing(p, h, fresh, S, L, det, ret)
    BY <2>1, <1>3
  <2>3. q[i] = Turn(p)
    BY <1>2
  <2>4. PICK w : Carries(w, p, fresh, V, f, e, v, total)
    BY <1>6
  <2> HIDE DEF p
  <2>5. \E u : Carries(u, Turn(p), fresh, V, f, e, v, total)
    BY <2>2, <2>4, TurnCarries
  <2> QED
    BY <2>3, <2>5, Zenon
<1> HIDE DEF Fine
<1>7. ASSUME Bad # {} PROVE FALSE
  <2>1. Bad \in SUBSET Nat
    BY <1>1
  <2>2. PICK i \in Bad : \A j \in Bad : i <= j
    BY <1>7, <2>1, LeastNumber
  <2>3. i \in 1 .. (2 * L) /\ i - 1 \in 0 .. (2 * L) /\ ~(i <= i - 1)
    BY <1>1, <1>5, <2>2
  <2>4. Fine(i - 1)
    BY <2>2, <2>3
  <2> QED
    BY <2>2, <2>3, <2>4, <1>6
<1>8. Fine(2 * L)
  <2>1. 2 * L \in 0 .. (2 * L)
    BY <1>1
  <2> QED
    BY <2>1, <1>7
<1> QED
  BY <1>8, <1>r, Zenon DEF Fine, total

-----------------------------------------------------------------------------
(* Balancing: the operands that a node has after it                        *)

\* There is room above the graph for balancing one of its nodes.
LEMMA ExpandingRoomy ==
  ASSUME NEW h, Sound(h), NEW n \in h.alive, NEW fresh \in Nat, \A x \in h.alive : x < fresh,
         NEW s \in Seq(Elements(h.operands[n])), Len(s) > 2, fresh + Len(s) - 2 <= MaxNode
  PROVE  \E det, ret \in SUBSET Node :
            /\ Settled(h, det, ret)
            /\ Roomy(h, fresh, Elements(h.operands[n]), Len(s), det, ret)
<1> DEFINE S == Elements(h.operands[n])
           L == Len(s)
<1>1. PICK det, ret \in SUBSET Node : Settled(h, det, ret)
  BY DEF Sound
<1>2. ret \subseteq det /\ det \subseteq h.alive
  BY <1>1 DEF Settled
<1>3. /\ h.alive \subseteq Node
      /\ \A x, m \in Node : m \in Preds(h, TRUE, x) =>
            x \in h.alive \ det /\ m \in h.alive \ det
  BY <1>1, SettledFacts
<1>4. S = Preds(h, TRUE, n) /\ S \subseteq Node
  BY DEF Elements, Preds
<1> HIDE DEF S
<1>5. L \in Nat /\ s \in Seq(S)
  BY LenProperties DEF S
<1>6. S \subseteq h.alive \ det
  <2>1. n \in Node
    BY <1>3
  <2> QED
    BY <2>1, <1>3, <1>4
<1>7. Roomy(h, fresh, S, L, det, ret)
  BY <1>2, <1>3, <1>5, <1>6 DEF Roomy
<1> QED
  BY <1>1, <1>7 DEF S

\* The new nodes F have values for which n, over two of them, gathers what it did.
Rebalanced(V, p, e, v, w, f, F, n, total) ==
  /\ w \in [Node -> V]
  /\ \A m \in Node : m \notin F => w[m] = v[m]
  /\ \A m \in F : w[m] = Gather(p, e, f.operands[m], w)
  /\ Gather(p, e, f.operands[n], w) = total

\* What the operands are after balancing.
LEMMA ExpandedOperands ==
  ASSUME NEW h, Sound(h), NEW n \in h.alive, NEW fresh \in Nat, \A x \in h.alive : x < fresh,
         NEW s \in Seq(Elements(h.operands[n])), Len(s) > 2, fresh + Len(s) - 2 <= MaxNode,
         NEW r, NEW f, Expanding(h, f, r, n, fresh, s)
  PROVE  LET F == fresh .. (r.next - 1) IN
         /\ n \in Node /\ n \notin F /\ F \subseteq Node
         /\ f.operands \in [Node -> Bag]
         /\ \E x, y \in Node : f.operands[n] = AsBag(<<x, y>>)
         /\ \A z \in F : \E x, y \in Node : f.operands[z] = AsBag(<<x, y>>)
         /\ \A z \in Node \ (F \cup {n}) : f.operands[z] = h.operands[z]
         /\ \A V, p, e : Regroups(V, p, e) => \A v \in [Node -> V] :
               \E w : Rebalanced(V, p, e, v, w, f, F, n, Gather(p, e, AsBag(s), v))
<1> DEFINE F == fresh .. (r.next - 1)
           S == Elements(h.operands[n])
           L == Len(s)
           b == AsBag(r.args)
           gr == r.g
<1>1. PICK det, ret \in SUBSET Node :
         Settled(h, det, ret) /\ Roomy(h, fresh, S, L, det, ret)
  BY ExpandingRoomy
<1>2. GraphInv(h, det, ret)
  BY <1>1 DEF Settled
<1>3. L \in Nat /\ L >= 2 /\ S \subseteq Node
  BY LenProperties DEF Elements
<1> HIDE DEF S
<1>4. s \in Seq(S)
  BY DEF S
<1>5. r = Balance(h, fresh, s) /\ f = SetOperands(gr, n, b)
  BY DEF Expanding
<1>6. r.out = <<>> /\ Len(r.args) = 2 /\ Pairs(r, fresh)
  BY <1>1, <1>2, <1>3, <1>4, <1>5, BalanceEnds
<1>7. Growing(r, h, fresh, S, L, det, ret)
  BY <1>1, <1>2, <1>3, <1>4, <1>5, BalanceGrows
<1>8. /\ GraphInv(gr, det, ret)
      /\ r.args \in Seq(S \cup F)
      /\ \A x \in Node \ F : gr.operands[x] = h.operands[x]
      /\ gr.alive = h.alive \cup F
  BY <1>7 DEF Growing
<1>9. gr.operands \in [Node -> Bag] /\ gr.alive \subseteq Node
  BY <1>8 DEF GraphInv, Typed
<1>10. F \subseteq Node /\ n \in Node /\ n \notin F
  <2>1. n < fresh /\ \A x \in F : ~(x < fresh)
    BY <1>7 DEF Growing
  <2> HIDE DEF F
  <2> QED
    BY <2>1, <1>8, <1>9
<1>11. r.args \in Seq(Node)
  BY <1>3, <1>8, <1>10, SeqMonotonic
<1> DEFINE a == r.args
<1> HIDE DEF a, F, gr
<1>12. a[1] \in Node /\ a[2] \in Node /\ a = <<a[1], a[2]>>
  <2>1. a \in Seq(Node) /\ Len(a) = 2
    BY <1>6, <1>11 DEF a
  <2>2. a[1] \in Node /\ a[2] \in Node
    BY <2>1, PairOff
  <2> DEFINE d == <<a[1], a[2]>>
  <2>3. d \in Seq(Node) /\ Len(d) = 2 /\ d[1] = a[1] /\ d[2] = a[2]
    BY <2>2
  <2> HIDE DEF d
  <2>4. \A i \in 1 .. 2 : a[i] = d[i]
    <3>1. 1 .. 2 = {1, 2}
      OBVIOUS
    <3> QED
      BY <3>1, <2>3
  <2>5. a = d
    BY <2>1, <2>3, <2>4, SeqEqual
  <2> QED
    BY <2>2, <2>5 DEF d
<1>13. b = AsBag(<<a[1], a[2]>>) /\ b \in Bag
  <2>1. b = AsBag(a)
    BY DEF a
  <2>2. AsBag(a) = AsBag(<<a[1], a[2]>>)
    BY <1>12, Zenon
  <2>3. AsBag(<<a[1], a[2]>>) \in Bag
    BY <1>12, PairFacts
  <2> QED
    BY <2>1, <2>2, <2>3, Zenon
<1> HIDE DEF b
<1>14. f.operands = [gr.operands EXCEPT ![n] = b]
  BY <1>5 DEF SetOperands
<1>15. /\ f.operands \in [Node -> Bag]
       /\ f.operands[n] = b
       /\ \A x \in Node \ {n} : f.operands[x] = gr.operands[x]
  BY <1>9, <1>10, <1>13, <1>14
<1>16. \E x, y \in Node : f.operands[n] = AsBag(<<x, y>>)
  BY <1>12, <1>13, <1>15, Zenon
<1>17. ASSUME NEW z \in F PROVE \E x, y \in Node : f.operands[z] = AsBag(<<x, y>>)
  <2>1. PICK x, y \in Node : gr.operands[z] = AsBag(<<x, y>>)
    BY <1>6 DEF Pairs, F, gr
  <2>2. f.operands[z] = gr.operands[z]
    BY <1>10, <1>15
  <2> QED
    BY <2>1, <2>2, Zenon
<1>18. \A z \in Node \ (F \cup {n}) : f.operands[z] = h.operands[z]
  BY <1>8, <1>15
<1>19. ASSUME NEW V, NEW p, NEW e, Regroups(V, p, e), NEW v \in [Node -> V]
       PROVE  \E w : Rebalanced(V, p, e, v, w, f, F, n, Gather(p, e, AsBag(s), v))
  <2> DEFINE total == Gather(p, e, AsBag(s), v)
  <2>1. \E w : Carries(w, Balance(h, fresh, s), fresh, V, p, e, v, total)
    BY <1>1, <1>2, <1>3, <1>4, <1>19, BalanceCarries
  <2> HIDE DEF total
  <2>2. PICK w : Carries(w, r, fresh, V, p, e, v, total)
    BY <2>1, <1>5
  <2>3. /\ w \in [Node -> V]
        /\ \A m \in Node : m \notin F => w[m] = v[m]
        /\ \A m \in F : w[m] = Gather(p, e, gr.operands[m], w)
        /\ p[Gather(p, e, AsBag(r.out), w)][Gather(p, e, AsBag(r.args), w)] = total
    BY <2>2 DEF Carries, F, gr
  <2>4. Gather(p, e, b, w) = total
    <3>1. Gather(p, e, AsBag(<<>>), w) = e
      BY <1>19, <2>3, GatherFew
    <3>2. b \in Bag /\ \A m \in Node : b[m] > 0 => w[m] \in V
      BY <1>13, <2>3
    <3>3. Gather(p, e, b, w) \in V
      BY <3>2, <1>19, GatherType
    <3>4. p[e][Gather(p, e, b, w)] = Gather(p, e, b, w)
      BY <3>3, <1>19 DEF Regroups
    <3> QED
      BY <3>1, <3>4, <2>3, <1>6, Zenon DEF b
  <2>5. \A m \in F : w[m] = Gather(p, e, f.operands[m], w)
    <3>1. ASSUME NEW m \in F PROVE w[m] = Gather(p, e, f.operands[m], w)
      <4>1. f.operands[m] = gr.operands[m]
        BY <1>10, <1>15
      <4>2. w[m] = Gather(p, e, gr.operands[m], w)
        BY <2>3
      <4> QED
        BY <4>1, <4>2, Zenon
    <3> QED
      BY <3>1, Zenon
  <2>6. Gather(p, e, f.operands[n], w) = total
    BY <2>4, <1>15, Zenon
  <2>7. Rebalanced(V, p, e, v, w, f, F, n, total)
    BY <2>3, <2>5, <2>6, Zenon DEF Rebalanced
  <2> QED
    BY <2>7 DEF total
<1> QED
  BY <1>10, <1>15, <1>16, <1>17, <1>18, <1>19 DEF F

-----------------------------------------------------------------------------
(* What a step of each pass does to the graph                              *)

\* What is known of the node that any pass visits.
LEMMA VisitFacts ==
  ASSUME IInv, NEW n \in Node, NEW pass, NEW keep, Visit(pass, n, keep)
  PROVE  /\ Sound(g) /\ n \in g.alive /\ g.alive \subseteq Node
         /\ g.operands \in [Node -> Bag]
         /\ Passes[at] = pass /\ at' = at /\ entry' = entry /\ start' = start
         /\ seen' = seen \cup {n}
<1>1. /\ Passes[at] = pass /\ n \in t.todo /\ at' = at /\ entry' = entry /\ start' = start
      /\ seen' = seen \cup {n}
  BY DEF Visit
<1>2. InOrder(t, g, Forward(Passes[at]), entry, seen) /\ Sound(g)
  BY DEF IInv, OrderOK, GraphOK
<1>3. n \in g.alive
  BY <1>1, <1>2 DEF InOrder
<1>4. PICK det, ret \in SUBSET Node : Settled(g, det, ret)
  BY <1>2 DEF Sound
<1>5. g.alive \subseteq Node /\ g.operands \in [Node -> Bag]
  BY <1>4, SettledFacts
<1> QED
  BY <1>1, <1>2, <1>3, <1>5

\* A sound graph: what its sources and its operands are.
LEMMA SoundFacts ==
  ASSUME NEW h, Sound(h)
  PROVE  /\ h.operands \in [Node -> Bag] /\ h.alive \subseteq Node
         /\ h.sources \subseteq h.alive
         /\ \A n \in h.sources : n \in Node /\ IsNone(h.operands[n])
         /\ \A n \in Node : ~IsNone(h.operands[n]) => n \in h.alive
         /\ \A n \in Node : Below(h, n) \subseteq Attached(h)
         /\ Attached(h) \subseteq h.alive
<1>1. PICK det, ret \in SUBSET Node : Settled(h, det, ret)
  BY DEF Sound
<1>2. /\ h.operands \in [Node -> Bag] /\ h.alive \subseteq Node /\ h.sources \subseteq Node
      /\ \A n \in Node : n \in h.sources <=> n \in h.alive /\ IsNone(h.operands[n]) /\ n \notin det
      /\ \A n \in Node : IsNone(h.operands[n]) <=> Preds(h, TRUE, n) = {}
      /\ \A n, m \in Node : m \in Preds(h, TRUE, n) => n \in h.alive \ det /\ m \in h.alive \ det
      /\ Attached(h) = h.alive \ det
  BY <1>1, SettledFacts
<1>3. \A n \in Node : \A m \in Preds(h, TRUE, n) : m \in Node
  BY DEF Preds
<1>4. \A n \in Node : ~IsNone(h.operands[n]) => n \in h.alive
  BY <1>2, <1>3
<1>5. \A n \in Node : Below(h, n) \subseteq Attached(h)
  BY <1>2, <1>3 DEF Below
<1> QED
  BY <1>2, <1>4, <1>5

\* A clean pass leaves the graph as it is, or empties the node it visits.
LEMMA CleanStep ==
  ASSUME IInv, NEW n \in Node, CleanVisit(n)
  PROVE  /\ UNCHANGED <<data, at, entry, start>>
         /\ Passes[at] \in {"Clean", "Release"}
         /\ \/ g' = g
            \/ /\ g'.sources \subseteq g.sources /\ g'.alive = g.alive /\ Sound(g')
               /\ IsNone(g'.operands[n])
               /\ \A x \in Node \ {n} : g'.operands[x] = g.operands[x]
               /\ \A x \in Node : n \notin Below(g', x)
<1>1. /\ g' = g \/ g' = CleanNode(g, n)
      /\ Visit("Clean", n, TRUE) \/ Visit("Clean", n, FALSE)
         \/ Visit("Release", n, TRUE) \/ Visit("Release", n, FALSE)
      /\ UNCHANGED data
  BY DEF CleanVisit
<1>2. /\ UNCHANGED <<data, at, entry, start>>
      /\ Passes[at] \in {"Clean", "Release"}
  BY <1>1 DEF Visit
<1>3. Sound(g) /\ n \in g.alive /\ g.alive \subseteq Node /\ g.operands \in [Node -> Bag]
  BY <1>1, VisitFacts
<1>4. ASSUME g' # g PROVE IsNone(g.uses[n])
  <2> DEFINE dropped == Passes[at] = "Release" \/ (IsNone(g.uses[n]) /\ Cleanable(n))
  <2>1. dropped /\ (Visit("Clean", n, ~dropped) \/ Visit("Release", n, ~dropped))
    BY <1>4 DEF CleanVisit
  <2>2. CASE Passes[at] # "Release"
    BY <2>1, <2>2
  <2>3. CASE Passes[at] = "Release"
    <3>1. /\ n \in t.todo /\ InOrder(t, g, FALSE, entry, seen)
      <4>1. Forward(Passes[at]) = FALSE
        BY <2>3 DEF Forward
      <4> QED
        BY <2>1, <4>1 DEF IInv, OrderOK, Visit
    <3>2. t.processed = {}
      BY <2>3 DEF IInv, CleanOK
    <3>3. Preds(g, FALSE, n) = {}
      BY <3>1, <3>2 DEF InOrder
    <3> QED
      BY <3>3, <1>3, SoundEdges
  <2> QED
    BY <2>2, <2>3
<1>5. CASE g' = CleanNode(g, n) /\ IsNone(g.uses[n])
  <2> DEFINE f == CleanNode(g, n)
  <2>1. /\ Sound(f) /\ f.alive = g.alive /\ f.sources \subseteq g.sources
        /\ \A x \in Node : Preds(f, TRUE, x) = IF x = n THEN {} ELSE Preds(g, TRUE, x)
        /\ \A x \in Node : Preds(f, FALSE, x) = Preds(g, FALSE, x) \ {n}
    BY <1>3, <1>5, CleanedGraph
  <2>2. f.operands = [g.operands EXCEPT ![n] = NoNodes]
    BY DEF CleanNode, EraseAllOperand
  <2> HIDE DEF f
  <2>3. \A x \in Node \ {n} : f.operands[x] = g.operands[x]
    BY <1>3, <2>2
  <2>4. IsNone(f.operands[n])
    BY <1>3, <2>2, BagFacts
  <2>5. \A x \in Node : n \notin Below(f, x)
    <3>1. \A x, m \in Node : x \in Preds(g, FALSE, m) <=> m \in Preds(g, TRUE, x)
      BY <1>3, SoundEdges
    <3>2. Preds(g, FALSE, n) = {}
      BY <1>3, <1>5, SoundEdges
    <3> QED
      BY <3>1, <3>2, <2>1, <1>3 DEF Below
  <2>6. g' = f
    BY <1>5 DEF f
  <2> QED
    BY <1>2, <2>1, <2>3, <2>4, <2>5, <2>6
<1> QED
  BY <1>1, <1>2, <1>4, <1>5

\* A step of Reduction merges nothing, or a node into its only user, of the same kind.
LEMMA ReduceStep ==
  ASSUME IInv, NEW n \in Node, ReduceVisit(n)
  PROVE  /\ UNCHANGED <<data, at, entry, start>> /\ Passes[at] = "Reduce"
         /\ \/ g' = g
            \/ \E u \in Node \ {n} :
                  /\ op[n] \in Reducible /\ op[u] = op[n]
                  /\ ~IsNone(g.operands[n]) /\ g.operands[u][n] > 0
                  /\ Sound(g') /\ g'.alive = g.alive /\ g'.sources \subseteq g.sources
                  /\ Handed(g, g', n, u)
<1>1. /\ UNCHANGED <<data, at, entry, start>> /\ Passes[at] = "Reduce"
      /\ Visit("Reduce", n, TRUE)
  BY DEF ReduceVisit, Visit
<1>2. Sound(g) /\ n \in g.alive
  BY <1>1, VisitFacts
<1>3. ASSUME NEW u \in Elements(g.uses[n]), g' = Merged(n, u),
             ~IsNone(g.operands[n]), op[n] \in Reducible, op[u] = op[n]
      PROVE  \E x \in Node \ {n} :
                  /\ op[n] \in Reducible /\ op[x] = op[n]
                  /\ ~IsNone(g.operands[n]) /\ g.operands[x][n] > 0
                  /\ Sound(g') /\ g'.alive = g.alive /\ g'.sources \subseteq g.sources
                  /\ Handed(g, g', n, x)
  <2> DEFINE f == Merged(n, u)
  <2>1. /\ Sound(f) /\ f.alive = g.alive /\ u # n /\ u \in Node
        /\ f.sources \subseteq g.sources /\ g.operands[u][n] > 0 /\ Handed(g, f, n, u)
    BY <1>2, <1>3, MergedGraph
  <2> HIDE DEF f
  <2>2. g' = f
    BY <1>3 DEF f
  <2> QED
    BY <1>3, <2>1, <2>2, Zenon
<1>4. g' = g \/ \E u \in Elements(g.uses[n]) :
                  /\ g' = Merged(n, u)
                  /\ ~IsNone(g.operands[n]) /\ op[n] \in Reducible /\ op[u] = op[n]
  BY DEF ReduceVisit
<1> QED
  BY <1>1, <1>3, <1>4

(* From h to f the new nodes F, each over two others, went between the     *)
(* node n and its operands, and n can gather from them what it gathered.   *)
Widened(h, f, n, F) ==
  /\ F \subseteq Node /\ n \notin F /\ F \cap h.alive = {}
  /\ Sound(f) /\ f.alive = h.alive \cup F /\ f.sources \subseteq h.sources \cup {n}
  /\ \A z \in F \cup {n} : \E x, y \in Node : f.operands[z] = AsBag(<<x, y>>)
  /\ \A z \in Node \ (F \cup {n}) : f.operands[z] = h.operands[z]
  /\ \A V, p, e : Regroups(V, p, e) => \A v \in [Node -> V] :
        \E w : Rebalanced(V, p, e, v, w, f, F, n, Gather(p, e, h.operands[n], v))

\* What balancing a node over the sequence s leaves is widened at the node.
LEMMA BalancedWidens ==
  ASSUME NEW h, Sound(h), NEW n \in h.alive, NEW fresh \in Nat, \A x \in h.alive : x < fresh,
         NEW s \in Seq(Elements(h.operands[n])), Len(s) > 2, fresh + Len(s) - 2 <= MaxNode,
         AsBag(s) = h.operands[n],
         NEW r, NEW f, Expanding(h, f, r, n, fresh, s)
  PROVE  Widened(h, f, n, fresh .. (r.next - 1))
<1> DEFINE F == fresh .. (r.next - 1)
<1>1. /\ Sound(f) /\ f.alive = h.alive \cup F
      /\ F \cap h.alive = {} /\ f.sources \subseteq h.sources \cup {n}
  BY ExpandedGraph
<1> DEFINE b == h.operands[n]
<1> HIDE DEF b
<1>b. AsBag(s) = b
  BY DEF b
<1>a. /\ n \in Node /\ n \notin F /\ F \subseteq Node
      /\ f.operands \in [Node -> Bag]
      /\ \E x, y \in Node : f.operands[n] = AsBag(<<x, y>>)
      /\ \A z \in F : \E x, y \in Node : f.operands[z] = AsBag(<<x, y>>)
      /\ \A z \in Node \ (F \cup {n}) : f.operands[z] = h.operands[z]
      /\ \A V, p, e : Regroups(V, p, e) => \A v \in [Node -> V] :
               \E w : Rebalanced(V, p, e, v, w, f, F, n, Gather(p, e, AsBag(s), v))
  BY ExpandedOperands, ZenonT(60)
<1>2. /\ n \notin F /\ F \subseteq Node
      /\ \E x, y \in Node : f.operands[n] = AsBag(<<x, y>>)
      /\ \A z \in F : \E x, y \in Node : f.operands[z] = AsBag(<<x, y>>)
      /\ \A z \in Node \ (F \cup {n}) : f.operands[z] = h.operands[z]
      /\ \A V, p, e : Regroups(V, p, e) => \A v \in [Node -> V] :
             \E w : Rebalanced(V, p, e, v, w, f, F, n, Gather(p, e, b, v))
  BY <1>a, <1>b, Zenon
<1> HIDE DEF F
<1>3. \A V, p, e : Regroups(V, p, e) => \A v \in [Node -> V] :
             \E w : Rebalanced(V, p, e, v, w, f, F, n, Gather(p, e, h.operands[n], v))
  BY <1>2, Zenon DEF b
<1>4. \A z \in F \cup {n} : \E x, y \in Node : f.operands[z] = AsBag(<<x, y>>)
  BY <1>2, Zenon
<1>5. Widened(h, f, n, F)
  BY <1>1, <1>2, <1>3, <1>4, Zenon DEF Widened
<1> QED
  BY <1>5 DEF F

\* A step of the expander leaves a node alone, or widens it.
LEMMA ExpandStep ==
  ASSUME IInv, NEW n \in Node, ExpandVisit(n)
  PROVE  /\ UNCHANGED <<payload, types, depth, at, entry, start>> /\ Passes[at] = "Expand"
         /\ \/ UNCHANGED <<g, next, op>> /\ ~(op[n] \in Reducible /\ Total(g.operands[n]) > 2)
            \/ /\ op[n] \in Reducible /\ Total(g.operands[n]) > 2
               /\ \E F : /\ Widened(g, g', n, F)
                         /\ op' = [m \in Node |-> IF m \in F THEN op[n] ELSE op[m]]
<1> DEFINE b == g.operands[n]
<1>1. /\ UNCHANGED <<payload, types, depth, at, entry, start>> /\ Passes[at] = "Expand"
      /\ Visit("Expand", n, TRUE)
  BY DEF ExpandVisit, Visit
<1>2. Sound(g) /\ n \in g.alive /\ b \in Bag
  BY <1>1, VisitFacts
<1>3. ASSUME op[n] \in Reducible, Total(b) > 2, next + Total(b) - 2 <= MaxNode,
             NEW s \in Sorted(b), NEW r, r = Balance(g, next, s),
             g' = SetOperands(r.g, n, AsBag(r.args)),
             op' = [m \in Node |-> IF m \in next .. (r.next - 1) THEN op[n] ELSE op[m]]
      PROVE  \E F : /\ Widened(g, g', n, F)
                    /\ op' = [m \in Node |-> IF m \in F THEN op[n] ELSE op[m]]
  <2>1. Expanding(g, g', r, n, next, s)
    BY <1>3 DEF Expanding
  <2>2. Total(b) \in Nat
    BY <1>2, TotalNat
  <2>3. s \in [1 .. Total(b) -> Elements(b)] /\ AsBag(s) = b
    BY DEF Sorted
  <2> HIDE DEF b
  <2>4. s \in Seq(Elements(b)) /\ Len(s) = Total(b)
    BY <2>2, <2>3
  <2>5. /\ next \in Nat /\ \A x \in g.alive : x < next
        /\ Len(s) > 2 /\ next + Len(s) - 2 <= MaxNode
    BY <1>3, <2>4 DEF IInv, GraphOK
  <2>6. s \in Seq(Elements(g.operands[n]))
    BY <2>4 DEF b
  <2> DEFINE f == g'
             F == next .. (r.next - 1)
  <2>7. Expanding(g, f, r, n, next, s) /\ AsBag(s) = g.operands[n]
    BY <2>1, <2>3 DEF b
  <2> HIDE DEF f
  <2>8. Widened(g, f, n, F)
    BY <2>5, <2>6, <2>7, <1>2, BalancedWidens
  <2>9. op' = [m \in Node |-> IF m \in F THEN op[n] ELSE op[m]]
    BY <1>3
  <2> HIDE DEF F
  <2> QED
    BY <2>8, <2>9 DEF f
<1>4. CASE op[n] \in Reducible /\ Total(b) > 2
  <2>1. PICK s \in Sorted(b) : LET r == Balance(g, next, s) IN
            /\ next + Total(b) - 2 <= MaxNode
            /\ g' = SetOperands(r.g, n, AsBag(r.args))
            /\ op' = [m \in Node |-> IF m \in next .. (r.next - 1) THEN op[n] ELSE op[m]]
    BY <1>4 DEF ExpandVisit
  <2> DEFINE r == Balance(g, next, s)
  <2>2. /\ next + Total(b) - 2 <= MaxNode
        /\ g' = SetOperands(r.g, n, AsBag(r.args))
        /\ op' = [m \in Node |-> IF m \in next .. (r.next - 1) THEN op[n] ELSE op[m]]
        /\ r = Balance(g, next, s)
    BY <2>1
  <2> HIDE DEF r, b
  <2>3. \E F : /\ Widened(g, g', n, F)
               /\ op' = [m \in Node |-> IF m \in F THEN op[n] ELSE op[m]]
    BY <1>3, <1>4, <2>2
  <2> QED
    BY <1>1, <1>4, <2>3 DEF b
<1>5. CASE ~(op[n] \in Reducible /\ Total(b) > 2)
  <2>1. UNCHANGED <<g, next, op>>
    BY <1>5 DEF ExpandVisit
  <2> QED
    BY <1>1, <1>5, <2>1
<1> QED
  BY <1>4, <1>5

\* A step of the constant handler leaves a node alone, or puts a constant in its place.
LEMMA FoldStep ==
  ASSUME IInv, NEW n \in Node, FoldVisit(n)
  PROVE  /\ UNCHANGED <<types, scale, depth, at, entry, start>> /\ Passes[at] = "Fold"
         /\ \/ UNCHANGED <<g, next, op, payload>>
            \/ /\ Folds(n)
               /\ \E c \in Node \ {n} :
                     /\ c \notin g.alive
                     /\ Sound(g') /\ g'.alive = g.alive \cup {c}
                     /\ g'.sources = g.sources \cup {c}
                     /\ Substituted(g, g', n, c)
                     /\ op' = [op EXCEPT ![c] = "Constant"]
                     /\ payload' = [payload EXCEPT ![c] = Combine(op[n], g.operands[n], payload)]
<1>1. /\ UNCHANGED <<types, scale, depth, at, entry, start>> /\ Passes[at] = "Fold"
      /\ Visit("Fold", n, TRUE)
  BY DEF FoldVisit, Visit
<1>2. Sound(g) /\ n \in g.alive
  BY <1>1, VisitFacts
<1>3. CASE Folds(n)
  <2>1. /\ next < MaxNode
        /\ g' = ReplaceUses(NewNode(g, next), n, next, Elements(g.uses[n]))
        /\ op' = [op EXCEPT ![next] = "Constant"]
        /\ payload' = [payload EXCEPT ![next] = Combine(op[n], g.operands[n], payload)]
    BY <1>3 DEF FoldVisit
  <2>2. Folding(g, g', n, next)
    BY <2>1 DEF Folding
  <2>3. next \in Nat /\ \A x \in g.alive : x < next
    BY DEF IInv, GraphOK
  <2>4. next \in Node /\ next \notin g.alive /\ next # n
    BY <1>2, <2>1, <2>3, MaxNodeAssumption DEF Node
  <2> DEFINE f == g'
             c == next
  <2> HIDE DEF f, c
  <2>5. Folding(g, f, n, c) /\ c \in Node /\ c \notin g.alive
    BY <2>2, <2>4 DEF f, c
  <2>6. /\ Sound(f) /\ f.alive = g.alive \cup {c}
        /\ f.sources = g.sources \cup {c}
        /\ Substituted(g, f, n, c)
    BY <1>2, <2>5, FoldedGraph
  <2> QED
    BY <1>1, <1>3, <2>1, <2>4, <2>6 DEF f, c
<1>4. CASE ~Folds(n)
  BY <1>1, <1>4 DEF FoldVisit
<1> QED
  BY <1>3, <1>4

-----------------------------------------------------------------------------
(* The shape: leaves stay leaves                                           *)

(* Leaves are the nodes without operands, as long as a node is attached;   *)
(* what a leaf holds is a value.                                           *)
Shape ==
  /\ start \in Programs /\ at \in 1 .. Len(Passes)
  /\ payload \in [Node -> Values]
  /\ DOMAIN op = Node /\ DOMAIN types = Node /\ DOMAIN depth = Node
  /\ \A n \in Node : op[n] \in Leaves => IsNone(g.operands[n])
  /\ \A n \in g.sources : op[n] \in Leaves

\* The parts of the program that the passes start from.
LEMMA ProgramFacts ==
  ASSUME Init
  PROVE  /\ start \in Programs /\ g = Loaded(start) /\ op = start.op /\ payload = start.payload
         /\ at = 1 /\ 1 \in 1 .. Len(Passes)
         /\ g.operands = start.operands /\ g.operands \in [Node -> Bag]
         /\ payload \in [Node -> Values] /\ DOMAIN op = Node
         /\ g.alive = {n \in Node : op[n] # "None"}
         /\ g.sources = {n \in g.alive : IsNone(g.operands[n])}
         /\ \A n \in Node : op[n] # "None" => (op[n] \in Leaves <=> IsNone(g.operands[n]))
         /\ \A n \in Node : op[n] \in Reducible => Total(g.operands[n]) = 2
         /\ \A n, m \in Node : g.operands[n][m] > 0 => op[n] # "None"
<1>1. start \in Programs /\ g = Loaded(start) /\ op = start.op /\ payload = start.payload /\ at = 1
  BY DEF Init
<1>2. 1 \in 1 .. Len(Passes)
  BY PassesAssumption
<1>3. /\ g.operands = start.operands
      /\ g.alive = {n \in Node : op[n] # "None"}
      /\ g.sources = {n \in g.alive : IsNone(g.operands[n])}
  BY <1>1 DEF Loaded
<1> QED
  BY <1>1, <1>2, <1>3, ProgramsAssumption

\* A program, loaded, has its leaves as sources.
LEMMA InitShape ==
  ASSUME Init
  PROVE  Shape
<1>1. DOMAIN types = Node /\ DOMAIN depth = Node
  BY DEF Init
<1>2. \A n \in Node : op[n] \in Leaves => IsNone(g.operands[n])
  <2>1. \A n \in Node : op[n] \in Leaves => op[n] # "None"
    BY DEF Leaves
  <2> QED
    BY <2>1, ProgramFacts
<1>3. \A n \in g.sources : op[n] \in Leaves
  BY ProgramFacts
<1> QED
  BY <1>1, <1>2, <1>3, ProgramFacts DEF Shape

\* Reduction merges no leaves.
LEMMA ReduceShape ==
  ASSUME IInv, Shape, NEW n \in Node, ReduceVisit(n)
  PROVE  Shape'
<1>1. UNCHANGED <<data, at, entry, start>>
  BY ReduceStep
<1>2. CASE g' = g
  BY <1>1, <1>2 DEF Shape, data
<1>3. CASE g' # g
  <2>1. PICK u \in Node \ {n} :
                  /\ op[n] \in Reducible /\ op[u] = op[n]
                  /\ g'.sources \subseteq g.sources
                  /\ Handed(g, g', n, u)
    BY <1>3, ReduceStep
  <2>2. \A x \in Node \ {n, u} : g'.operands[x] = g.operands[x]
    BY <2>1 DEF Handed
  <2>3. op[n] \notin Leaves
    BY <2>1 DEF Reducible, Leaves
  <2>4. \A x \in Node : op[x] \in Leaves => IsNone(g'.operands[x])
    BY <2>1, <2>2, <2>3 DEF Shape
  <2> QED
    BY <1>1, <2>1, <2>4 DEF Shape, data
<1> QED
  BY <1>2, <1>3

\* A dropped leaf has no operands either.
LEMMA CleanShape ==
  ASSUME IInv, Shape, NEW n \in Node, CleanVisit(n)
  PROVE  Shape'
<1>1. UNCHANGED <<data, at, entry, start>>
  BY CleanStep
<1>2. CASE g' = g
  BY <1>1, <1>2 DEF Shape, data
<1>3. CASE g' # g
  <2>1. /\ g'.sources \subseteq g.sources /\ IsNone(g'.operands[n])
        /\ \A x \in Node \ {n} : g'.operands[x] = g.operands[x]
    BY <1>3, CleanStep
  <2>4. \A x \in Node : op[x] \in Leaves => IsNone(g'.operands[x])
    BY <2>1 DEF Shape
  <2> QED
    BY <1>1, <2>1, <2>4 DEF Shape, data
<1> QED
  BY <1>2, <1>3

\* What a widened node, and a new node below it, has: two operands, and it is no source.
LEMMA WidenedFacts ==
  ASSUME NEW h, NEW f, NEW n \in Node, NEW F, Widened(h, f, n, F)
  PROVE  \A z \in F \cup {n} : /\ Total(f.operands[z]) = 2 /\ ~IsNone(f.operands[z])
                               /\ z \notin f.sources
<1> SUFFICES ASSUME NEW z \in F \cup {n}
             PROVE  /\ Total(f.operands[z]) = 2 /\ ~IsNone(f.operands[z])
                    /\ z \notin f.sources
  OBVIOUS
<1>1. PICK x, y \in Node : f.operands[z] = AsBag(<<x, y>>)
  BY DEF Widened
<1>2. Total(AsBag(<<x, y>>)) = 2 /\ ~IsNone(AsBag(<<x, y>>))
  BY PairFacts
<1>3. Total(f.operands[z]) = 2 /\ ~IsNone(f.operands[z])
  BY <1>1, <1>2, Zenon
<1>4. z \notin f.sources
  BY <1>3, SoundFacts DEF Widened
<1> QED
  BY <1>3, <1>4

\* The nodes that the expander makes are no leaves, and no sources.
LEMMA ExpandShape ==
  ASSUME IInv, Shape, NEW n \in Node, ExpandVisit(n)
  PROVE  Shape'
<1>1. UNCHANGED <<payload, types, depth, at, entry, start>>
  BY ExpandStep
<1>2. CASE g' = g /\ op' = op
  BY <1>1, <1>2 DEF Shape
<1>3. CASE ~(g' = g /\ op' = op)
  <2>1. PICK F : /\ op[n] \in Reducible /\ Widened(g, g', n, F)
                 /\ op' = [m \in Node |-> IF m \in F THEN op[n] ELSE op[m]]
    BY <1>3, ExpandStep
  <2>2. /\ \A z \in Node \ (F \cup {n}) : g'.operands[z] = g.operands[z]
        /\ F \cap g.alive = {} /\ g'.sources \subseteq g.sources \cup {n}
    BY <2>1 DEF Widened
  <2>3. op[n] \notin Leaves
    BY <2>1 DEF Reducible, Leaves
  <2>4. ASSUME NEW x \in Node, op'[x] \in Leaves PROVE IsNone(g'.operands[x])
    <3>1. x \notin F \cup {n} /\ op'[x] = op[x]
      BY <2>1, <2>3, <2>4
    <3> QED
      BY <2>2, <2>4, <3>1 DEF Shape
  <2>5. ASSUME NEW x \in g'.sources PROVE op'[x] \in Leaves
    <3>1. x \notin F \cup {n}
      <4> DEFINE f == g'
      <4>1. Widened(g, f, n, F) /\ x \in f.sources
        BY <2>1
      <4> HIDE DEF f
      <4> QED
        BY <4>1, WidenedFacts
    <3>2. x \in g.sources /\ x \in Node
      BY <2>2, <3>1, SoundFacts DEF IInv, GraphOK
    <3> QED
      BY <2>1, <3>1, <3>2 DEF Shape
  <2>6. DOMAIN op' = Node
    BY <2>1
  <2> QED
    BY <1>1, <2>4, <2>5, <2>6 DEF Shape
<1> QED
  BY <1>2, <1>3

\* A replaced node and the one in its place: who has no operands.
LEMMA SubstitutedFacts ==
  ASSUME NEW h, h.operands \in [Node -> Bag], NEW f, NEW n \in Node, NEW c \in Node, c # n,
         Substituted(h, f, n, c)
  PROVE  /\ IsNone(f.operands[c])
         /\ \A x \in Node : IsNone(f.operands[x]) <=> IsNone(h.operands[x])
<1>1. /\ \A x, m \in Node : f.operands[x][m] =
            IF m = n THEN 0 ELSE IF m = c THEN h.operands[x][c] + h.operands[x][n]
            ELSE h.operands[x][m]
      /\ \A x \in Node : h.operands[x][c] = 0 /\ h.operands[c][x] = 0
  BY DEF Substituted, Renamed
<1>2. \A x, m \in Node : h.operands[x][m] \in Nat
  BY DEF Bag
<1>3. \A x \in Node : IsNone(f.operands[x]) <=> IsNone(h.operands[x])
  <2> SUFFICES ASSUME NEW x \in Node PROVE IsNone(f.operands[x]) <=> IsNone(h.operands[x])
    OBVIOUS
  <2>1. f.operands[x][c] = h.operands[x][n]
    BY <1>1, <1>2
  <2>2. \A m \in Node : m # n /\ m # c => f.operands[x][m] = h.operands[x][m]
    BY <1>1
  <2>3. f.operands[x][n] = 0 /\ h.operands[x][c] = 0
    BY <1>1
  <2> QED
    BY <2>1, <2>2, <2>3 DEF IsNone
<1>4. IsNone(h.operands[c])
  BY <1>1 DEF IsNone
<1> QED
  BY <1>3, <1>4

\* The node that constant folding makes is a leaf, and a source.
LEMMA FoldShape ==
  ASSUME IInv, Shape, NEW n \in Node, FoldVisit(n)
  PROVE  Shape'
<1>1. UNCHANGED <<types, scale, depth, at, entry, start>>
  BY FoldStep
<1>2. CASE UNCHANGED <<g, next, op, payload>>
  BY <1>1, <1>2 DEF Shape
<1>3. CASE ~UNCHANGED <<g, next, op, payload>>
  <2>1. PICK c \in Node \ {n} :
                     /\ c \notin g.alive
                     /\ g'.sources = g.sources \cup {c}
                     /\ Substituted(g, g', n, c)
                     /\ op' = [op EXCEPT ![c] = "Constant"]
                     /\ payload' = [payload EXCEPT ![c] = Combine(op[n], g.operands[n], payload)]
    BY <1>3, FoldStep
  <2>2. g.operands \in [Node -> Bag] /\ g.sources \subseteq g.alive /\ g.alive \subseteq Node
    BY SoundFacts DEF IInv, GraphOK
  <2>3. /\ IsNone(g'.operands[c])
        /\ \A x \in Node : IsNone(g'.operands[x]) <=> IsNone(g.operands[x])
    <3> DEFINE f == g'
    <3>1. Substituted(g, f, n, c)
      BY <2>1
    <3> HIDE DEF f
    <3>2. /\ IsNone(f.operands[c])
          /\ \A x \in Node : IsNone(f.operands[x]) <=> IsNone(g.operands[x])
      BY <2>2, <3>1, SubstitutedFacts
    <3> QED
      BY <3>2 DEF f
  <2>4. payload' \in [Node -> Values]
    <3>1. g.operands[n] \in Bag /\ \A m \in Node : payload[m] \in Values
      BY <2>2 DEF Shape
    <3>2. Combine(op[n], g.operands[n], payload) \in Values
      BY <3>1, CombineFacts
    <3> QED
      BY <2>1, <3>2 DEF Shape
  <2>5. DOMAIN op' = Node /\ op'[c] \in Leaves /\ \A x \in Node : x # c => op'[x] = op[x]
    BY <2>1 DEF Shape, Leaves
  <2>6. \A x \in Node : op'[x] \in Leaves => IsNone(g'.operands[x])
    BY <2>3, <2>5 DEF Shape
  <2>7. \A x \in g'.sources : op'[x] \in Leaves
    BY <2>1, <2>2, <2>5 DEF Shape
  <2> QED
    BY <1>1, <2>4, <2>5, <2>6, <2>7 DEF Shape
<1> QED
  BY <1>2, <1>3

(* However the passes rewrite the graph, its leaves stay its sources.      *)
THEOREM ShapeHolds == Spec => []Shape
<1>1. IInv /\ Shape /\ [Next]_vars => Shape'
  <2> SUFFICES ASSUME IInv, Shape, [Next]_vars PROVE Shape'
    OBVIOUS
  <2>1. CASE UNCHANGED vars
    BY <2>1 DEF Shape, vars, data
  <2>2. CASE StartPass
    <3>1. at' \in 1 .. Len(Passes) /\ DOMAIN depth' = Node
      BY <2>2, PassesAssumption DEF StartPass, Shape
    <3> QED
      BY <2>2, <3>1 DEF StartPass, Shape
  <2>3. ASSUME NEW n \in Node, CleanVisit(n) PROVE Shape'
    BY <2>3, CleanShape
  <2>4. ASSUME NEW n \in Node, TypeVisit(n) PROVE Shape'
    <3>1. UNCHANGED <<g, op, payload, depth, at, start>> /\ DOMAIN types' = DOMAIN types
      BY <2>4 DEF TypeVisit, Visit
    <3> QED
      BY <3>1 DEF Shape
  <2>5. ASSUME NEW n \in Node, ReduceVisit(n) PROVE Shape'
    BY <2>5, ReduceShape
  <2>6. ASSUME NEW n \in Node, ExpandVisit(n) PROVE Shape'
    BY <2>6, ExpandShape
  <2>7. ASSUME NEW n \in Node, DepthVisit(n) PROVE Shape'
    <3>1. UNCHANGED <<g, op, payload, types, at, start>> /\ DOMAIN depth' = DOMAIN depth
      BY <2>7 DEF DepthVisit, Visit
    <3> QED
      BY <3>1 DEF Shape
  <2>8. ASSUME NEW n \in Node, FoldVisit(n) PROVE Shape'
    BY <2>8, FoldShape
  <2> QED
    BY <2>1, <2>2, <2>3, <2>4, <2>5, <2>6, <2>7, <2>8 DEF Next
<1>2. Init => Shape
  BY InitShape
<1> QED
  BY <1>1, <1>2, PassesInOrder, PTL DEF Spec

-----------------------------------------------------------------------------
(* Encrypted and DepthOf obey their recursions                             *)

\* No cycle is above an edge: every set of nodes has one over none of it.
LEMMA SoundGrounded ==
  ASSUME NEW h, Sound(h)
  PROVE  Grounded(h)
<1>1. \A forward \in BOOLEAN : Acyclic(h, forward)
  BY DEF Sound
<1>2. \A S \in SUBSET Node : S # {} => \E n \in S : Preds(h, TRUE, n) \cap S = {}
  BY <1>1 DEF Acyclic
<1> QED
  BY <1>2 DEF Grounded, Below

(* What "is encrypted" says at a node: the recursion has a solution.       *)
Crypt(h, name, a, n) ==
  a[n] = IF IsNone(h.operands[n]) THEN name[n] = "Input" /\ start.type[n] = "Cipher"
         ELSE \E m \in Elements(h.operands[n]) : a[m]

\* Encrypted obeys its recursion.
LEMMA EncryptedSolves ==
  ASSUME NEW h, Grounded(h), NEW name
  PROVE  \A n \in Node : Crypt(h, name, Encrypted(h, name), n)
<1> DEFINE Rule(n, a) == IF IsNone(h.operands[n]) THEN name[n] = "Input" /\ start.type[n] = "Cipher"
                         ELSE \E m \in Elements(h.operands[n]) : a[m]
           F == [n \in Node |-> [a \in [Node -> BOOLEAN] |-> Rule(n, a)]]
           Body(v) == [n \in Node |-> Rule(n, v)]
<1>1. ASSUME NEW n \in Node, NEW a PROVE Rule(n, a) \in BOOLEAN
  <2>1. CASE IsNone(h.operands[n])
    BY <2>1, Zenon
  <2>2. CASE ~IsNone(h.operands[n])
    BY <2>2, Zenon
  <2> QED
    BY <2>1, <2>2, Zenon
<1>2. ASSUME NEW n \in Node, NEW a, NEW c, \A m \in Below(h, n) : a[m] = c[m]
      PROVE  Rule(n, a) = Rule(n, c)
  <2>1. \A m \in Elements(h.operands[n]) : a[m] = c[m]
    BY <1>2 DEF Below, Preds, Elements
  <2>2. (\E m \in Elements(h.operands[n]) : a[m]) = (\E m \in Elements(h.operands[n]) : c[m])
    BY <2>1, Zenon
  <2> QED
    BY <2>2, Zenon
<1>3. Encrypted(h, name) = CHOOSE v : v = Body(v)
  BY DEF Encrypted
<1> HIDE DEF Rule
<1>4. \A n \in Node : \A a \in [Node -> BOOLEAN] : F[n][a] = Rule(n, a)
  BY Zenon
<1>5. Rules(h, BOOLEAN, F)
  <2>1. F \in [Node -> [[Node -> BOOLEAN] -> BOOLEAN]]
    BY <1>1, Zenon
  <2>2. ASSUME NEW n \in Node, NEW a \in [Node -> BOOLEAN], NEW c \in [Node -> BOOLEAN],
               \A m \in Below(h, n) : a[m] = c[m]
        PROVE  F[n][a] = F[n][c]
    <3>1. Rule(n, a) = Rule(n, c)
      BY <1>2, <2>2
    <3>2. F[n][a] = Rule(n, a) /\ F[n][c] = Rule(n, c)
      BY <1>4, Zenon
    <3> QED
      BY <3>1, <3>2, Zenon
  <2> HIDE DEF F
  <2> QED
    BY <2>1, <2>2, Zenon DEF Rules
<1> HIDE DEF F
<1>6. PICK a \in [Node -> BOOLEAN] : \A n \in Node : a[n] = F[n][a]
  <2> DEFINE V == BOOLEAN
             d == TRUE
  <2>1. Rules(h, V, F) /\ d \in V
    BY <1>5, Zenon
  <2> HIDE DEF V, d
  <2>2. \E a \in [Node -> V] : \A n \in Node : a[n] = F[n][a]
    BY <2>1, RecursionSolves
  <2> QED
    BY <2>2, Zenon DEF V
<1>7. a = Body(a)
  <2>1. \A n \in Node : a[n] = Rule(n, a)
    BY <1>4, <1>6, Zenon
  <2>2. a = [n \in Node |-> a[n]]
    BY Zenon
  <2>3. [n \in Node |-> a[n]] = [n \in Node |-> Rule(n, a)]
    BY <2>1, Zenon
  <2> QED
    BY <2>2, <2>3, Zenon
<1> DEFINE v == Encrypted(h, name)
<1> HIDE DEF Body, v
<1>8. v = Body(v)
  BY <1>3, <1>7, Zenon DEF v
<1>9. \A n \in Node : v[n] = Rule(n, v)
  BY <1>8, Zenon DEF Body
<1> QED
  BY <1>9, Zenon DEF Rule, Crypt, v

\* Of the numbers that a set of nodes has there is a largest one.
LEMMA LargestOfNodes ==
  ASSUME NEW v \in [Node -> Nat], NEW S \in SUBSET Node
  PROVE  LargestScale({v[m] : m \in S}) \in Nat
<1>1. MaxNode \in Nat /\ Node = 0 .. (MaxNode - 1)
  BY MaxNodeAssumption DEF Node
<1> DEFINE Bounds(k) == \E c \in Nat : \A m \in Node : m < k => v[m] <= c
           D == {k \in 0 .. MaxNode : ~Bounds(k)}
<1>2. D = {}
  <2> SUFFICES ASSUME D # {} PROVE FALSE
    OBVIOUS
  <2>0. D \in SUBSET Nat
    BY <1>1
  <2> HIDE DEF Bounds, D
  <2>1. PICK k \in D : \A j \in D : k <= j
    BY <2>0, LeastNumber
  <2>2. k \in Nat /\ k <= MaxNode /\ ~Bounds(k)
    BY <1>1 DEF D
  <2>3. k # 0
    <3>1. \A m \in Node : ~(m < 0)
      BY <1>1
    <3>2. Bounds(0)
      BY <3>1 DEF Bounds
    <3> QED
      BY <2>2, <3>2
  <2>4. k - 1 \in 0 .. MaxNode /\ k - 1 \in Node /\ ~(k <= k - 1)
    BY <1>1, <2>2, <2>3
  <2>5. Bounds(k - 1)
    BY <2>1, <2>4 DEF D
  <2>6. PICK c \in Nat : \A m \in Node : m < k - 1 => v[m] <= c
    BY <2>5 DEF Bounds
  <2> DEFINE top == IF v[k - 1] <= c THEN c ELSE v[k - 1]
  <2>7. top \in Nat /\ c <= top /\ v[k - 1] <= top
    BY <2>4
  <2> HIDE DEF top
  <2>8. ASSUME NEW m \in Node, m < k PROVE v[m] <= top
    <3>1. m = k - 1 \/ m < k - 1
      BY <1>1, <2>2, <2>8
    <3>2. v[m] \in Nat
      OBVIOUS
    <3>3. CASE m = k - 1
      BY <2>7, <3>3
    <3>4. CASE m < k - 1
      <4>1. v[m] <= c
        BY <2>6, <3>4
      <4> QED
        BY <4>1, <3>2, <2>7
    <3> QED
      BY <3>1, <3>3, <3>4
  <2>9. Bounds(k)
    BY <2>7, <2>8 DEF Bounds
  <2> QED
    BY <2>2, <2>9
<1>3. PICK c \in Nat : \A m \in Node : v[m] <= c
  <2> HIDE DEF Bounds
  <2>1. MaxNode \in 0 .. MaxNode /\ \A m \in Node : m < MaxNode
    BY <1>1
  <2>2. Bounds(MaxNode)
    BY <2>1, <1>2
  <2>3. PICK c \in Nat : \A m \in Node : m < MaxNode => v[m] <= c
    BY <2>2 DEF Bounds
  <2> QED
    BY <2>1, <2>3
<1> DEFINE R == {v[m] : m \in S}
<1>4. R \in SUBSET (0 .. c)
  <2>1. \A m \in S : v[m] \in Nat /\ v[m] <= c
    BY <1>3
  <2> QED
    BY <2>1
<1>5. CASE R = {}
  <2> HIDE DEF R
  <2>1. LargestScale(R) \in Nat
    BY <1>5 DEF LargestScale
  <2> QED
    BY <2>1 DEF R
<1>6. CASE R # {}
  <2> HIDE DEF R
  <2>1. \E x \in R : \A y \in R : y <= x
    BY <1>4, <1>6, LargestNumber
  <2>2. \E x \in R : \A y \in R : x >= y
    <3>1. \A x, y \in R : y <= x => x >= y
      BY <1>4
    <3> QED
      BY <2>1, <3>1
  <2>3. Max(R) \in R
    BY <2>2 DEF Max
  <2>4. LargestScale(R) = Max(R)
    BY <1>6, Zenon DEF LargestScale
  <2>5. R \subseteq Nat
    BY <1>4
  <2>7. Max(R) \in Nat
    BY <2>3, <2>5, Zenon
  <2>6. LargestScale(R) \in Nat
    BY <2>4, <2>7, Zenon
  <2> QED
    BY <2>6 DEF R
<1> QED
  BY <1>5, <1>6

(* What the depth of a node is, in terms of the depths below it.           *)
Deep(h, name, a, n) ==
  a[n] = IF IsNone(h.operands[n]) THEN 0
         ELSE LargestScale({a[m] : m \in Elements(h.operands[n])})
               + (IF /\ name[n] = "Mul"
                     /\ \E m \in Elements(h.operands[n]) : Encrypted(h, name)[m]
                  THEN 1 ELSE 0)

\* DepthOf obeys its recursion.
LEMMA DepthSolves ==
  ASSUME NEW h, Grounded(h), NEW name
  PROVE  \A n \in Node : Deep(h, name, DepthOf(h, name), n)
<1> DEFINE Mark(n) == IF /\ name[n] = "Mul"
                         /\ \E m \in Elements(h.operands[n]) : Encrypted(h, name)[m]
                      THEN 1 ELSE 0
           Rule(n, a) == IF IsNone(h.operands[n]) THEN 0
                         ELSE LargestScale({a[m] : m \in Elements(h.operands[n])}) + Mark(n)
           F == [n \in Node |-> [a \in [Node -> Nat] |-> Rule(n, a)]]
           Body(v) == [n \in Node |-> Rule(n, v)]
<1>3. DepthOf(h, name) = CHOOSE v : v = Body(v)
  BY DEF DepthOf
<1>m. \A n : Mark(n) \in Nat
  OBVIOUS
<1> HIDE DEF Mark
<1>1. ASSUME NEW n \in Node, NEW a \in [Node -> Nat] PROVE Rule(n, a) \in Nat
  <2>1. Elements(h.operands[n]) \in SUBSET Node
    BY DEF Elements
  <2>2. LargestScale({a[m] : m \in Elements(h.operands[n])}) \in Nat
    BY <2>1, LargestOfNodes
  <2> QED
    BY <2>2, <1>m
<1>2. ASSUME NEW n \in Node, NEW a, NEW c, \A m \in Below(h, n) : a[m] = c[m]
      PROVE  Rule(n, a) = Rule(n, c)
  <2>1. \A m \in Elements(h.operands[n]) : a[m] = c[m]
    BY <1>2 DEF Below, Preds, Elements
  <2>2. {a[m] : m \in Elements(h.operands[n])} = {c[m] : m \in Elements(h.operands[n])}
    BY <2>1
  <2> QED
    BY <2>2, Zenon
<1> HIDE DEF Rule
<1>4. \A n \in Node : \A a \in [Node -> Nat] : F[n][a] = Rule(n, a)
  OBVIOUS
<1>5. Rules(h, Nat, F)
  <2>1. F \in [Node -> [[Node -> Nat] -> Nat]]
    BY <1>1
  <2>2. ASSUME NEW n \in Node, NEW a \in [Node -> Nat], NEW c \in [Node -> Nat],
               \A m \in Below(h, n) : a[m] = c[m]
        PROVE  F[n][a] = F[n][c]
    <3>1. Rule(n, a) = Rule(n, c)
      BY <1>2, <2>2
    <3>2. F[n][a] = Rule(n, a) /\ F[n][c] = Rule(n, c)
      BY <1>4
    <3> QED
      BY <3>1, <3>2
  <2> HIDE DEF F
  <2> QED
    BY <2>1, <2>2 DEF Rules
<1> HIDE DEF F
<1>6. PICK a \in [Node -> Nat] : \A n \in Node : a[n] = F[n][a]
  <2> DEFINE V == Nat
             d == 0
  <2>1. Rules(h, V, F) /\ d \in V
    BY <1>5
  <2> HIDE DEF V, d
  <2>2. \E a \in [Node -> V] : \A n \in Node : a[n] = F[n][a]
    BY <2>1, RecursionSolves
  <2> QED
    BY <2>2 DEF V
<1>7. a = Body(a)
  BY <1>4, <1>6
<1> DEFINE v == DepthOf(h, name)
<1> HIDE DEF Body, v
<1>8. v = Body(v)
  BY <1>3, <1>7 DEF v
<1>9. \A n \in Node : v[n] = Rule(n, v)
  BY <1>8, Zenon DEF Body
<1> QED
  BY <1>9, Zenon DEF Rule, Mark, Deep, v

-----------------------------------------------------------------------------
(* What the passes that only read find                                     *)

\* The types are exact, and so are the depths, of the nodes of a set.
TypesFit(S) == \A n \in S : types[n] = "Cipher" <=> Encrypted(g, op)[n]
DepthsFit(S) == \A n \in S : depth[n] = DepthOf(g, op)[n]

\* A pass that only reads visits attached nodes, and what it has found so far fits.
ReadingOK ==
  Passes[at] \in {"Type", "Depth"} =>
    /\ entry = Attached(g) /\ t.ready \subseteq Attached(g)
    /\ Passes[at] = "Type" => TypesFit(seen)
    /\ Passes[at] = "Depth" => TypesFit(Attached(g)) /\ DepthsFit(seen)

\* When all are visited, the types of all fit.
LEMMA ReadingExact ==
  ASSUME VisitsEachOnce, ReadingOK
  PROVE  TypesExact
<1>1. ASSUME Finished("Type") PROVE TypesFit(Attached(g))
  <2>1. Passes[at] = "Type" /\ t.todo = {}
    BY <1>1 DEF Finished
  <2>2. entry \subseteq seen
    BY <2>1 DEF VisitsEachOnce
  <2> QED
    BY <2>1, <2>2 DEF ReadingOK, TypesFit
<1> QED
  BY <1>1 DEF TypesExact, TypesFit

\* When all are visited, the depths of all fit.
LEMMA DepthsExact ==
  ASSUME VisitsEachOnce, ReadingOK
  PROVE  DepthExact
<1>1. ASSUME Finished("Depth") PROVE DepthsFit(Attached(g))
  <2>1. Passes[at] = "Depth" /\ t.todo = {}
    BY <1>1 DEF Finished
  <2>2. entry \subseteq seen
    BY <2>1 DEF VisitsEachOnce
  <2> QED
    BY <2>1, <2>2 DEF ReadingOK, DepthsFit
<1> QED
  BY <1>1 DEF DepthExact, DepthsFit, OutputNodes

\* What a forward pass that leaves the graph alone visits next is attached.
LEMMA ReadsAttached ==
  ASSUME NEW h, Sound(h), NEW forward \in BOOLEAN, forward = TRUE, NEW T, T.ready \subseteq Attached(h),
         NEW n \in Node
  PROVE  Advance(T, forward, n, h, h, TRUE).ready \subseteq Attached(h)
<1>1. h.sources \subseteq Attached(h)
  BY SoundFacts DEF Attached
<1>2. Roots(h, forward) = h.sources
  BY DEF Roots
<1>3. Succs(h, forward, n) \subseteq Attached(h)
  <2>1. \A s \in Node : s \in Succs(h, forward, n) => n \in Preds(h, forward, s)
    BY SoundEdges
  <2>2. \A s \in Node : n \in Preds(h, forward, s) => h.operands[s][n] > 0
    BY DEF Preds
  <2>3. \A s \in Node : h.operands[s][n] > 0 => ~IsNone(h.operands[s])
    BY DEF IsNone
  <2>4. \A s \in Node : ~IsNone(h.operands[s]) => s \in Attached(h)
    BY SoundFacts DEF Attached
  <2>5. Succs(h, forward, n) \subseteq Node
    BY DEF Succs, Preds
  <2> QED
    BY <2>1, <2>2, <2>3, <2>4, <2>5
<1> QED
  BY <1>1, <1>2, <1>3 DEF Advance

\* What a reading visit knows of its node.
LEMMA ReaderFacts ==
  ASSUME IInv, Shape, ReadingOK, NEW n \in Node, NEW pass \in {"Type", "Depth"},
         Visit(pass, n, TRUE), g' = g
  PROVE  /\ Passes[at] = pass /\ at' = at /\ entry' = entry /\ start' = start
         /\ seen' = seen \cup {n} /\ n \notin seen /\ seen \subseteq Node
         /\ n \in Attached(g) /\ t'.ready \subseteq Attached(g)
         /\ Elements(g.operands[n]) \subseteq seen
         /\ Elements(g.operands[n]) \subseteq Attached(g)
         /\ IsNone(g.operands[n]) => op[n] \in Leaves
         /\ Elements(g.operands[n]) \subseteq Node
<1>1. /\ Passes[at] = pass /\ at' = at /\ entry' = entry /\ start' = start
      /\ seen' = seen \cup {n} /\ n \in t.todo
      /\ t' = Advance(t, Forward(pass), n, g, g, TRUE)
  BY DEF Visit
<1>2. Forward(pass) = TRUE
  BY DEF Forward
<1>3. InOrder(t, g, TRUE, entry, seen) /\ Sound(g)
  BY <1>1, <1>2 DEF IInv, OrderOK, GraphOK
<1>4. /\ n \notin seen /\ n \in t.ready /\ Preds(g, TRUE, n) \subseteq t.processed
      /\ t.processed \subseteq seen /\ t.ready \subseteq g.alive /\ seen \subseteq t.ready
      /\ g.alive \subseteq Node
  BY <1>1, <1>3 DEF InOrder
<1>5. t.ready \subseteq Attached(g)
  BY <1>1 DEF ReadingOK
<1>6. Elements(g.operands[n]) = Below(g, n)
  BY DEF Elements, Below, Preds
<1>7. Elements(g.operands[n]) \subseteq seen /\ Elements(g.operands[n]) \subseteq Attached(g)
  <2>1. Below(g, n) \subseteq Attached(g)
    BY <1>3, SoundFacts
  <2> QED
    BY <2>1, <1>4, <1>6 DEF Below
<1>8. IsNone(g.operands[n]) => op[n] \in Leaves
  BY <1>4, <1>5 DEF Attached, Shape
<1>9. t'.ready \subseteq Attached(g)
  <2> DEFINE forward == Forward(pass)
  <2>1. forward \in BOOLEAN /\ forward = TRUE
    BY DEF Forward
  <2> HIDE DEF forward
  <2>2. Advance(t, forward, n, g, g, TRUE).ready \subseteq Attached(g)
    BY <1>3, <1>5, <2>1, ReadsAttached
  <2> QED
    BY <1>1, <2>2, Zenon DEF forward
<1> QED
  BY <1>1, <1>4, <1>5, <1>7, <1>8, <1>9, SoundFacts DEF Elements

\* The type of a node fits if those of its operands do.
LEMMA TypeVisitReads ==
  ASSUME IInv, Shape, ReadingOK, NEW n \in Node, TypeVisit(n)
  PROVE  ReadingOK'
<1>1. /\ Visit("Type", n, TRUE) /\ g' = g /\ op' = op
      /\ types' = [types EXCEPT ![n] =
                 IF IsNone(g.operands[n])
                 THEN IF op[n] = "Constant" THEN "Raw" ELSE start.type[n]
                 ELSE IF \E m \in Elements(g.operands[n]) : types[m] = "Cipher"
                      THEN "Cipher" ELSE "Raw"]
  BY DEF TypeVisit
<1>2. /\ Passes[at] = "Type" /\ at' = at /\ entry' = entry /\ start' = start
      /\ seen' = seen \cup {n} /\ n \notin seen /\ seen \subseteq Node
      /\ n \in Attached(g) /\ t'.ready \subseteq Attached(g)
      /\ Elements(g.operands[n]) \subseteq seen
      /\ IsNone(g.operands[n]) => op[n] \in Leaves
  <2> DEFINE pass == "Type"
  <2>1. pass \in {"Type", "Depth"} /\ Visit(pass, n, TRUE)
    BY <1>1
  <2> HIDE DEF pass
  <2>2. /\ Passes[at] = pass /\ at' = at /\ entry' = entry /\ start' = start
        /\ seen' = seen \cup {n} /\ n \notin seen /\ seen \subseteq Node
        /\ n \in Attached(g) /\ t'.ready \subseteq Attached(g)
        /\ Elements(g.operands[n]) \subseteq seen
        /\ IsNone(g.operands[n]) => op[n] \in Leaves
    BY <1>1, <2>1, ReaderFacts
  <2> QED
    BY <2>2 DEF pass
<1> DEFINE E == Encrypted(g, op)
<1>3. Crypt(g, op, E, n)
  BY SoundGrounded, EncryptedSolves DEF IInv, GraphOK
<1>4. Encrypted(g, op)' = E
  BY <1>1, <1>2 DEF Encrypted
<1> HIDE DEF E
<1>5. TypesFit(seen) /\ entry = Attached(g)
  BY <1>2 DEF ReadingOK
<1>6. \A m \in seen : types[m] = "Cipher" <=> E[m]
  BY <1>5 DEF TypesFit, E
<1>7. types'[n] = "Cipher" <=> E[n]
  <2>1. types'[n] = IF IsNone(g.operands[n])
                 THEN IF op[n] = "Constant" THEN "Raw" ELSE start.type[n]
                 ELSE IF \E m \in Elements(g.operands[n]) : types[m] = "Cipher"
                      THEN "Cipher" ELSE "Raw"
    BY <1>1 DEF Shape
  <2>2. CASE IsNone(g.operands[n])
    <3>1. op[n] = "Constant" \/ op[n] = "Input"
      BY <1>2, <2>2 DEF Leaves
    <3>2. E[n] = (op[n] = "Input" /\ start.type[n] = "Cipher")
      BY <1>3, <2>2, Zenon DEF Crypt
    <3>3. CASE op[n] = "Constant"
      <4>1. types'[n] = "Raw"
        BY <2>1, <2>2, <3>3
      <4>2. ~E[n]
        BY <3>2, <3>3
      <4> QED
        BY <4>1, <4>2
    <3>4. CASE op[n] = "Input"
      <4>1. types'[n] = start.type[n]
        BY <2>1, <2>2, <3>4
      <4>2. E[n] <=> start.type[n] = "Cipher"
        BY <3>2, <3>4
      <4> QED
        BY <4>1, <4>2
    <3> QED
      BY <3>1, <3>3, <3>4
  <2>3. CASE ~IsNone(g.operands[n])
    <3>1. E[n] = \E m \in Elements(g.operands[n]) : E[m]
      BY <1>3, <2>3, Zenon DEF Crypt
    <3>2. (\E m \in Elements(g.operands[n]) : types[m] = "Cipher")
             <=> (\E m \in Elements(g.operands[n]) : E[m])
      BY <1>2, <1>6
    <3>3. types'[n] = IF \E m \in Elements(g.operands[n]) : types[m] = "Cipher"
                      THEN "Cipher" ELSE "Raw"
      BY <2>1, <2>3
    <3>4. types'[n] = "Cipher" <=> \E m \in Elements(g.operands[n]) : types[m] = "Cipher"
      BY <3>3
    <3> QED
      BY <3>1, <3>2, <3>4, Zenon
  <2> QED
    BY <2>2, <2>3
<1>8. \A m \in seen : types'[m] = types[m]
  BY <1>1, <1>2 DEF Shape
<1>9. \A m \in seen' : types'[m] = "Cipher" <=> E[m]
  BY <1>2, <1>6, <1>7, <1>8
<1>10. TypesFit(seen)'
  BY <1>4, <1>9, Zenon DEF TypesFit
<1>11. Attached(g)' = Attached(g)
  BY <1>1 DEF Attached
<1>12. (Passes[at] = "Type" /\ entry = Attached(g) /\ t.ready \subseteq Attached(g))'
  BY <1>1, <1>2, <1>5, <1>11
<1> QED
  BY <1>10, <1>12 DEF ReadingOK

\* The depth of a node fits if those of its operands do, and all types.
LEMMA DepthVisitReads ==
  ASSUME IInv, Shape, ReadingOK, NEW n \in Node, DepthVisit(n)
  PROVE  ReadingOK'
<1> DEFINE b == g.operands[n]
<1>1. /\ Visit("Depth", n, TRUE) /\ g' = g /\ op' = op /\ types' = types
      /\ depth' = [depth EXCEPT ![n] =
                 LargestScale({depth[m] : m \in Elements(b)})
                   + (IF op[n] = "Mul" /\ \E m \in Elements(b) : types[m] = "Cipher"
                      THEN 1 ELSE 0)]
  BY DEF DepthVisit
<1>2. /\ Passes[at] = "Depth" /\ at' = at /\ entry' = entry /\ start' = start
      /\ seen' = seen \cup {n} /\ n \notin seen /\ seen \subseteq Node
      /\ n \in Attached(g) /\ t'.ready \subseteq Attached(g)
      /\ Elements(b) \subseteq seen /\ Elements(b) \subseteq Attached(g)
      /\ Elements(b) \subseteq Node
  <2> DEFINE pass == "Depth"
  <2>1. pass \in {"Type", "Depth"} /\ Visit(pass, n, TRUE)
    BY <1>1
  <2> HIDE DEF pass
  <2>2. /\ Passes[at] = pass /\ at' = at /\ entry' = entry /\ start' = start
        /\ seen' = seen \cup {n} /\ n \notin seen /\ seen \subseteq Node
        /\ n \in Attached(g) /\ t'.ready \subseteq Attached(g)
        /\ Elements(b) \subseteq seen /\ Elements(b) \subseteq Attached(g)
        /\ Elements(b) \subseteq Node
    BY <1>1, <2>1, ReaderFacts
  <2> QED
    BY <2>2 DEF pass
<1> DEFINE D == DepthOf(g, op)
           E == Encrypted(g, op)
<1>3. Deep(g, op, D, n)
  BY SoundGrounded, DepthSolves DEF IInv, GraphOK
<1>3b. D[n] = IF IsNone(b) THEN 0
              ELSE LargestScale({D[m] : m \in Elements(b)})
                     + (IF op[n] = "Mul" /\ \E m \in Elements(b) : E[m] THEN 1 ELSE 0)
  BY <1>3, Zenon DEF Deep
<1>4. E' = E
  BY <1>1, <1>2 DEF Encrypted
<1>4d. D' = D
  BY <1>1, <1>2 DEF DepthOf, Encrypted
<1>5. /\ entry = Attached(g)
      /\ \A m \in Attached(g) : types[m] = "Cipher" <=> E[m]
      /\ \A m \in seen : depth[m] = D[m]
  BY <1>2, Zenon DEF ReadingOK, TypesFit, DepthsFit
<1> HIDE DEF E, D
<1>7. depth'[n] = D[n]
  <2>0. depth'[n] = LargestScale({depth[m] : m \in Elements(b)})
                   + (IF op[n] = "Mul" /\ \E m \in Elements(b) : types[m] = "Cipher"
                      THEN 1 ELSE 0)
    BY <1>1 DEF Shape
  <2> DEFINE mark == IF op[n] = "Mul" /\ \E m \in Elements(b) : types[m] = "Cipher" THEN 1 ELSE 0
             R == {depth[m] : m \in Elements(b)}
  <2>1. (\E m \in Elements(b) : types[m] = "Cipher") <=> (\E m \in Elements(b) : E[m])
    BY <1>2, <1>5
  <2>2. {D[m] : m \in Elements(b)} = R
    BY <1>2, <1>5
  <2>3. mark = IF op[n] = "Mul" /\ \E m \in Elements(b) : E[m] THEN 1 ELSE 0
    BY <2>1
  <2>4. CASE IsNone(b)
    <3>1. Elements(b) = {}
      BY <2>4 DEF IsNone, Elements
    <3>2. R = {} /\ mark = 0
      BY <3>1
    <3>3. depth'[n] = LargestScale(R) + mark
      BY <2>0
    <3> HIDE DEF R, mark
    <3>4. LargestScale(R) = 0
      BY <3>2, Zenon DEF LargestScale
    <3>5. D[n] = 0
      BY <1>3b, <2>4
    <3> QED
      BY <3>2, <3>3, <3>4, <3>5
  <2>5. CASE ~IsNone(b)
    <3>1. D[n] = LargestScale({D[m] : m \in Elements(b)})
                     + (IF op[n] = "Mul" /\ \E m \in Elements(b) : E[m] THEN 1 ELSE 0)
      BY <1>3b, <2>5, Zenon
    <3>2. depth'[n] = LargestScale(R) + mark
      BY <2>0
    <3> HIDE DEF R, mark
    <3> QED
      BY <2>2, <2>3, <3>1, <3>2, Zenon
  <2> QED
    BY <2>4, <2>5
<1>8. \A m \in seen : depth'[m] = depth[m]
  BY <1>1, <1>2 DEF Shape
<1>9. \A m \in seen' : depth'[m] = D[m]
  BY <1>2, <1>5, <1>7, <1>8
<1>11. Attached(g)' = Attached(g)
  BY <1>1 DEF Attached
<1>10. DepthsFit(seen)'
  BY <1>4d, <1>9, Zenon DEF DepthsFit, D
<1>13. TypesFit(Attached(g))'
  <2>1. \A m \in Attached(g)' : types'[m] = "Cipher" <=> E[m]
    BY <1>1, <1>5, <1>11
  <2> QED
    BY <1>4, <2>1, Zenon DEF TypesFit, E
<1>12. (Passes[at] = "Depth" /\ entry = Attached(g) /\ t.ready \subseteq Attached(g))'
  BY <1>1, <1>2, <1>5, <1>11
<1> QED
  BY <1>10, <1>12, <1>13 DEF ReadingOK

\* A depth pass begins with the types that the pass before it found.
LEMMA StartPassReads ==
  ASSUME IInv, Shape, VisitsEachOnce, ReadingOK, StartPass
  PROVE  ReadingOK'
<1>1. /\ t.todo = {} /\ at' = at + 1 /\ at < Len(Passes) /\ t' = Begin(g, Forward(Passes[at']))
      /\ seen' = {} /\ entry' = Attached(g)
      /\ UNCHANGED <<g, op, types, start>>
  BY DEF StartPass
<1>2. Attached(g)' = Attached(g) /\ Encrypted(g, op)' = Encrypted(g, op)
  BY <1>1 DEF Attached, Encrypted
<1>3. TypesFit(seen)' /\ DepthsFit(seen)'
  BY <1>1 DEF TypesFit, DepthsFit
<1>4. ASSUME Passes[at'] \in {"Type", "Depth"} PROVE t'.ready \subseteq Attached(g)
  <2>1. t'.ready = g.sources
    BY <1>1, <1>4 DEF Begin, Roots, Forward
  <2> QED
    BY <2>1, SoundFacts DEF Attached, IInv, GraphOK
<1>5. ASSUME Passes[at'] = "Depth" PROVE TypesFit(Attached(g))'
  <2>1. Passes[at] = "Type"
    <3>1. at \in 1 .. Len(Passes) /\ Len(Passes) \in Nat
      BY PassesAssumption DEF Shape
    <3>2. at + 1 \in 1 .. Len(Passes) /\ (at + 1) - 1 = at
      BY <1>1, <3>1
    <3> QED
      BY <1>1, <1>5, <3>2, PassesAssumption
  <2>2. \A n \in Attached(g) : types[n] = "Cipher" <=> Encrypted(g, op)[n]
    BY <1>1, <2>1, ReadingExact DEF TypesExact, Finished
  <2>3. types' = types
    BY <1>1
  <2> QED
    BY <1>2, <2>2, <2>3, Zenon DEF TypesFit
<1> QED
  BY <1>1, <1>2, <1>3, <1>4, <1>5 DEF ReadingOK

(* TypeHandler finds the fixpoint, and the depths are those of the graph.  *)
THEOREM ReadingHolds == Spec => []ReadingOK
<1>1. IInv /\ Shape /\ VisitsEachOnce /\ ReadingOK /\ [Next]_vars => ReadingOK'
  <2> SUFFICES ASSUME IInv, Shape, VisitsEachOnce, ReadingOK, [Next]_vars PROVE ReadingOK'
    OBVIOUS
  <2>1. CASE UNCHANGED vars
    <3>1. UNCHANGED <<g, op, types, depth, at, t, seen, entry, start>>
      BY <2>1 DEF vars, data
    <3>2. /\ Attached(g)' = Attached(g) /\ Encrypted(g, op)' = Encrypted(g, op)
          /\ DepthOf(g, op)' = DepthOf(g, op)
      BY <3>1 DEF Attached, Encrypted, DepthOf
    <3>3. /\ TypesFit(seen)' = TypesFit(seen) /\ DepthsFit(seen)' = DepthsFit(seen)
          /\ TypesFit(Attached(g))' = TypesFit(Attached(g))
      BY <3>1, <3>2, Zenon DEF TypesFit, DepthsFit
    <3> QED
      BY <3>1, <3>2, <3>3 DEF ReadingOK
  <2>2. CASE StartPass
    BY <2>2, StartPassReads
  <2>3. ASSUME NEW n \in Node, TypeVisit(n) PROVE ReadingOK'
    BY <2>3, TypeVisitReads
  <2>4. ASSUME NEW n \in Node, DepthVisit(n) PROVE ReadingOK'
    BY <2>4, DepthVisitReads
  <2>5. ASSUME NEW n \in Node, CleanVisit(n) PROVE ReadingOK'
    BY <2>5, CleanStep DEF ReadingOK
  <2>6. ASSUME NEW n \in Node, ReduceVisit(n) PROVE ReadingOK'
    BY <2>6, ReduceStep DEF ReadingOK
  <2>7. ASSUME NEW n \in Node, ExpandVisit(n) PROVE ReadingOK'
    BY <2>7, ExpandStep DEF ReadingOK
  <2>8. ASSUME NEW n \in Node, FoldVisit(n) PROVE ReadingOK'
    BY <2>8, FoldStep DEF ReadingOK
  <2> QED
    BY <2>1, <2>2, <2>3, <2>4, <2>5, <2>6, <2>7, <2>8 DEF Next
<1>2. Init /\ IInv => ReadingOK
  <2> SUFFICES ASSUME Init, IInv PROVE ReadingOK
    OBVIOUS
  <2>1. at = 1 /\ t = Begin(g, Forward(Passes[1])) /\ seen = {} /\ entry = Attached(g)
    BY DEF Init
  <2>2. ASSUME Passes[at] \in {"Type", "Depth"} PROVE t.ready \subseteq Attached(g)
    <3>1. t.ready = g.sources
      BY <2>1, <2>2 DEF Begin, Roots, Forward
    <3> QED
      BY <3>1, SoundFacts DEF Attached, IInv, GraphOK
  <2>3. Passes[at] # "Depth"
    BY <2>1, PassesAssumption
  <2> QED
    BY <2>1, <2>2, <2>3 DEF ReadingOK, TypesFit
<1> QED
  BY <1>1, <1>2, PassesInOrder, ShapeHolds, VisitsEachOnceHolds, PTL DEF Spec

(* TypeHandler's one sweep computes the fixpoint: a node is a ciphertext   *)
(* exactly if some input below it is encrypted.                            *)
THEOREM TypesExactHolds == Spec => []TypesExact
<1>1. VisitsEachOnce /\ ReadingOK => TypesExact
  BY ReadingExact
<1> QED
  BY <1>1, VisitsEachOnceHolds, ReadingHolds, PTL

(* The depth that picks the library is the multiplicative depth of the     *)
(* graph that will run.                                                    *)
THEOREM DepthExactHolds == Spec => []DepthExact
<1>1. VisitsEachOnce /\ ReadingOK => DepthExact
  BY DepthsExact
<1> QED
  BY <1>1, VisitsEachOnceHolds, ReadingHolds, PTL

-----------------------------------------------------------------------------
(* Sums and products of two                                                *)

\* The sums and products among the nodes of a set are of two; of two or more.
Binary(S) == \A n \in S : op[n] \in Reducible => Total(g.operands[n]) = 2
Wide(S) == \A n \in S : op[n] \in Reducible => Total(g.operands[n]) >= 2

\* The expander has run.
Expanded == \E i \in 1 .. (at - 1) : Passes[i] = "Expand"

\* The expander leaves behind it, and nothing undoes, sums and products of two.
BinaryOK ==
  /\ Wide(Attached(g))
  /\ Passes[at] = "Expand" => Binary(Attached(g) \ (entry \ seen))
  /\ Expanded => Binary(Attached(g))

\* When all are visited, or later, all sums and products are of two.
LEMMA BinaryAfter ==
  ASSUME VisitsEachOnce, BinaryOK
  PROVE  BinaryAgain
<1>1. ASSUME Finished("Expand") PROVE Binary(Attached(g))
  <2>1. Passes[at] = "Expand" /\ entry \subseteq seen
    BY <1>1 DEF Finished, VisitsEachOnce
  <2>2. Attached(g) \ (entry \ seen) = Attached(g)
    BY <2>1
  <2> QED
    BY <2>1, <2>2, Zenon DEF BinaryOK
<1>2. ASSUME Expanded PROVE Binary(Attached(g))
  BY <1>2 DEF BinaryOK
<1> QED
  BY <1>1, <1>2, Zenon DEF BinaryAgain, Binary, Expanded

\* A sum or a product that is emptied is no longer attached.
LEMMA EmptiedDetached ==
  ASSUME Shape, NEW f, f.sources \subseteq g.sources, NEW n \in Node, op[n] \in Reducible,
         IsNone(f.operands[n])
  PROVE  n \notin Attached(f)
<1>1. op[n] \notin Leaves
  BY DEF Reducible, Leaves
<1>2. n \notin g.sources
  BY <1>1 DEF Shape
<1> QED
  BY <1>2 DEF Attached

\* A node over which something is handed to its user gets it instead of one operand.
LEMMA HandedTotal ==
  ASSUME NEW h, h.operands \in [Node -> Bag], NEW f, NEW n \in Node, NEW u \in Node,
         h.operands[u][n] > 0, Handed(h, f, n, u)
  PROVE  Total(f.operands[u]) = (Total(h.operands[u]) - 1) + Total(h.operands[n])
<1> DEFINE b == h.operands[u]
           r == [b EXCEPT ![n] = b[n] - 1]
           a == h.operands[n]
           o == Only(n, 1)
           d == f.operands[u]
<1>1. b \in Bag /\ a \in Bag /\ d \in Bag /\ b[n] > 0
      /\ \A m \in Node : d[m] = (IF m = n THEN b[m] - 1 ELSE b[m]) + a[m]
  BY DEF Handed
<1> HIDE DEF b, a, d
<1>2. /\ \A m \in Node : b[m] \in Nat
      /\ \A m \in Node : r[m] = IF m = n THEN b[m] - 1 ELSE b[m]
      /\ r \in Bag
  BY <1>1 DEF Bag
<1> HIDE DEF r
<1>3. o \in Bag /\ o[n] = 1 /\ \A m \in Node : m # n => o[m] = 0
  BY OnlyFacts
<1>4. Total(o) = 1
  BY TotalOnly
<1> HIDE DEF o
<1>5. Both(r, o, b)
  BY <1>2, <1>3 DEF Both
<1>6. Both(r, a, d)
  BY <1>1, <1>2 DEF Both
<1>7. Total(b) = Total(r) + Total(o) /\ Total(d) = Total(r) + Total(a)
  BY <1>1, <1>2, <1>3, <1>5, <1>6, TotalBoth
<1>8. Total(r) \in Nat /\ Total(a) \in Nat
  BY <1>1, <1>2, TotalNat
<1>9. Total(d) = (Total(b) - 1) + Total(a)
  BY <1>4, <1>7, <1>8
<1> QED
  BY <1>9 DEF b, a, d

\* What a clean pass leaves keeps its operands.
LEMMA CleanBinary ==
  ASSUME IInv, Shape, BinaryOK, NEW n \in Node, CleanVisit(n)
  PROVE  BinaryOK'
<1>1. UNCHANGED <<op, at>> /\ Passes[at] # "Expand"
  BY CleanStep DEF data
<1>2. CASE g' = g
  BY <1>1, <1>2 DEF BinaryOK, Binary, Wide, Expanded, Attached
<1>3. CASE g' # g
  <2> DEFINE f == g'
  <2>1. /\ f.sources \subseteq g.sources /\ f.alive = g.alive /\ IsNone(f.operands[n])
        /\ \A x \in Node \ {n} : f.operands[x] = g.operands[x]
    BY <1>3, CleanStep
  <2> HIDE DEF f
  <2>2. ASSUME NEW x \in Attached(f), op[x] \in Reducible
        PROVE  x \in Attached(g) /\ f.operands[x] = g.operands[x]
    <3>1. x \in Node
      BY <2>1, SoundFacts DEF IInv, GraphOK, Attached
    <3>2. x # n
      BY <2>1, <2>2, EmptiedDetached
    <3> QED
      BY <2>1, <3>1, <3>2 DEF Attached
  <2>3. Attached(g)' = Attached(f)
    BY DEF f, Attached
  <2>4. Wide(Attached(g))' /\ (Binary(Attached(g)) => Binary(Attached(g))') /\ Expanded' = Expanded
    BY <1>1, <2>2, <2>3 DEF Wide, Binary, BinaryOK, Expanded, f
  <2> QED
    BY <1>1, <2>4 DEF BinaryOK
<1> QED
  BY <1>2, <1>3

\* Reduction makes operands more, and comes before the expander.
LEMMA ReduceBinary ==
  ASSUME IInv, Shape, BinaryOK, NEW n \in Node, ReduceVisit(n)
  PROVE  BinaryOK'
<1>1. UNCHANGED <<op, at>> /\ Passes[at] = "Reduce"
  BY ReduceStep DEF data
<1>2. ~Expanded'
  <2>1. at \in 1 .. Len(Passes) /\ Len(Passes) \in Nat
    BY PassesAssumption DEF Shape
  <2>2. ASSUME NEW i \in 1 .. (at - 1), Passes[i] = "Expand" PROVE FALSE
    <3>1. i \in 1 .. Len(Passes) /\ ~(at < i)
      BY <2>1
    <3> QED
      BY <1>1, <2>1, <2>2, <3>1, PassesAssumption
  <2> QED
    BY <1>1, <2>2 DEF Expanded
<1>3. CASE g' = g
  BY <1>1, <1>2, <1>3 DEF BinaryOK, Wide, Attached
<1>4. CASE g' # g
  <2> DEFINE f == g'
  <2>1. PICK u \in Node \ {n} :
                  /\ op[n] \in Reducible /\ op[u] = op[n]
                  /\ ~IsNone(g.operands[n]) /\ g.operands[u][n] > 0
                  /\ f.alive = g.alive /\ f.sources \subseteq g.sources
                  /\ Handed(g, f, n, u)
    BY <1>4, ReduceStep
  <2> HIDE DEF f
  <2>2. g.operands \in [Node -> Bag] /\ g.alive \subseteq Node /\ n \in Attached(g) /\ u \in Attached(g)
    <3>1. ~IsNone(g.operands[u])
      BY <2>1 DEF IsNone
    <3> QED
      BY <2>1, <3>1, SoundFacts DEF IInv, GraphOK, Attached
  <2>3. Total(f.operands[u]) = (Total(g.operands[u]) - 1) + Total(g.operands[n])
    BY <2>1, <2>2, HandedTotal
  <2>4. Total(g.operands[u]) >= 2 /\ Total(g.operands[n]) >= 2
    BY <2>1, <2>2 DEF BinaryOK, Wide
  <2>5. Total(g.operands[u]) \in Nat /\ Total(g.operands[n]) \in Nat
    <3>1. g.operands[u] \in Bag /\ g.operands[n] \in Bag
      BY <2>2
    <3> QED
      BY <3>1, TotalNat
  <2>6. Total(f.operands[u]) >= 2
    BY <2>3, <2>4, <2>5
  <2>7. ASSUME NEW x \in Attached(f), op[x] \in Reducible
        PROVE  Total(f.operands[x]) >= 2
    <3>1. x \in Node
      BY <2>1, <2>2 DEF Attached
    <3>2. CASE x = u
      BY <2>6, <3>2
    <3>3. CASE x = n
      <4>1. ~IsNone(f.operands[n])
        BY <2>1, <2>7, <3>3, EmptiedDetached
      <4>2. f.operands[n] = g.operands[n]
        BY <2>1, <4>1 DEF Handed
      <4> QED
        BY <2>4, <3>3, <4>2
    <3>4. CASE x \notin {n, u}
      <4>1. f.operands[x] = g.operands[x]
        BY <2>1, <3>1, <3>4 DEF Handed
      <4>2. x \in Attached(g)
        BY <2>1, <4>1 DEF Attached
      <4> QED
        BY <2>7, <4>1, <4>2 DEF BinaryOK, Wide
    <3> QED
      BY <3>2, <3>3, <3>4
  <2>8. Wide(Attached(g))'
    BY <1>1, <2>7 DEF f, Wide, Attached
  <2> QED
    BY <1>1, <1>2, <2>8 DEF BinaryOK
<1> QED
  BY <1>3, <1>4

\* The expander leaves the node it visits with two operands.
LEMMA ExpandBinary ==
  ASSUME IInv, Shape, BinaryOK, NEW n \in Node, ExpandVisit(n)
  PROVE  BinaryOK'
<1>1. /\ UNCHANGED <<at, entry>> /\ Passes[at] = "Expand" /\ seen' = seen \cup {n}
      /\ Expanded' = Expanded
  <2>1. seen' = seen \cup {n}
    BY DEF ExpandVisit, Visit
  <2> QED
    BY <2>1, ExpandStep DEF Expanded
<1>2. /\ Wide(Attached(g)) /\ Binary(Attached(g) \ (entry \ seen))
      /\ Expanded => Binary(Attached(g))
  BY <1>1 DEF BinaryOK
<1>3. n \in g.alive /\ g.alive \subseteq Node /\ g.operands[n] \in Bag
  <2>1. Visit("Expand", n, TRUE)
    BY DEF ExpandVisit
  <2> QED
    BY <2>1, VisitFacts
<1>4. CASE UNCHANGED <<g, op>> /\ ~(op[n] \in Reducible /\ Total(g.operands[n]) > 2)
  <2>1. n \in Attached(g) /\ op[n] \in Reducible => Total(g.operands[n]) = 2
    <3>1. Total(g.operands[n]) \in Nat
      BY <1>3, TotalNat
    <3> QED
      BY <1>2, <1>4, <3>1 DEF Wide
  <2>2. Attached(g)' = Attached(g)
    BY <1>4 DEF Attached
  <2>3. Binary(Attached(g) \ (entry \ seen))'
    BY <1>1, <1>2, <1>4, <2>1, <2>2 DEF Binary
  <2>4. Wide(Attached(g))' /\ (Expanded' => Binary(Attached(g))')
    BY <1>1, <1>2, <1>4, <2>2 DEF Wide, Binary
  <2> QED
    BY <2>3, <2>4 DEF BinaryOK
<1>5. CASE ~(UNCHANGED <<g, op>> /\ ~(op[n] \in Reducible /\ Total(g.operands[n]) > 2))
  <2> DEFINE f == g'
  <2>1. PICK F : /\ op[n] \in Reducible /\ Total(g.operands[n]) > 2
                 /\ Widened(g, f, n, F)
                 /\ op' = [m \in Node |-> IF m \in F THEN op[n] ELSE op[m]]
    BY <1>5, ExpandStep
  <2> HIDE DEF f
  <2>2. \A z \in F \cup {n} : Total(f.operands[z]) = 2
    BY <2>1, WidenedFacts
  <2>3. /\ \A z \in Node \ (F \cup {n}) : f.operands[z] = g.operands[z]
        /\ f.alive = g.alive \cup F /\ f.sources \subseteq g.sources \cup {n}
        /\ F \subseteq Node
    BY <2>1 DEF Widened
  <2>4. n \in Attached(g)
    <3>1. ~IsNone(g.operands[n])
      <4>1. ~(0 > 2)
        OBVIOUS
      <4> QED
        BY <2>1, <4>1, TotalNone
    <3> QED
      BY <1>3, <3>1 DEF Attached
  <2>5. ~Expanded
    <3>1. Total(g.operands[n]) # 2
      BY <2>1
    <3> QED
      BY <1>2, <2>1, <2>4, <3>1 DEF Binary
  <2>6. ASSUME NEW x \in Attached(f), x \notin F \cup {n}
        PROVE  x \in Attached(g) /\ f.operands[x] = g.operands[x] /\ op'[x] = op[x]
    <3>1. x \in Node
      BY <1>3, <2>3 DEF Attached
    <3> QED
      BY <2>1, <2>3, <2>6, <3>1 DEF Attached
  <2>7. \A x \in Attached(f) : op'[x] \in Reducible => Total(f.operands[x]) >= 2
    BY <1>2, <2>2, <2>6 DEF Wide
  <2>8. \A x \in Attached(f) \ (entry \ (seen \cup {n})) :
           op'[x] \in Reducible => Total(f.operands[x]) = 2
    BY <1>2, <2>2, <2>6 DEF Binary
  <2>9. Wide(Attached(g))' /\ Binary(Attached(g) \ (entry \ seen))'
    BY <1>1, <2>7, <2>8 DEF Wide, Binary, Attached, f
  <2> QED
    BY <1>1, <2>5, <2>9 DEF BinaryOK
<1> QED
  BY <1>4, <1>5

\* Constant folding renames operands.
LEMMA FoldBinary ==
  ASSUME IInv, Shape, BinaryOK, NEW n \in Node, FoldVisit(n)
  PROVE  BinaryOK'
<1>1. UNCHANGED at /\ Passes[at] = "Fold" /\ Expanded' = Expanded
  BY FoldStep DEF Expanded
<1>2. CASE UNCHANGED <<g, op>>
  BY <1>1, <1>2 DEF BinaryOK, Binary, Wide, Attached
<1>3. CASE ~UNCHANGED <<g, op>>
  <2> DEFINE f == g'
  <2>1. PICK c \in Node \ {n} :
                     /\ c \notin g.alive
                     /\ f.alive = g.alive \cup {c}
                     /\ f.sources = g.sources \cup {c}
                     /\ Substituted(g, f, n, c)
                     /\ op' = [op EXCEPT ![c] = "Constant"]
    BY <1>3, FoldStep
  <2> HIDE DEF f
  <2>2. g.operands \in [Node -> Bag] /\ g.alive \subseteq Node
    BY SoundFacts DEF IInv, GraphOK
  <2>3. \A x \in Node : IsNone(f.operands[x]) <=> IsNone(g.operands[x])
    BY <2>1, <2>2, SubstitutedFacts
  <2>4. ASSUME NEW x \in Node PROVE Total(f.operands[x]) = Total(g.operands[x])
    <3>1. g.operands[x] \in Bag /\ Renamed(g.operands[x], n, c, f.operands[x])
      BY <2>1, <2>2 DEF Substituted
    <3> QED
      BY <3>1, <2>1, TotalRenamed
  <2>5. op'[c] \notin Reducible /\ \A x \in Node : x # c => op'[x] = op[x]
    BY <2>1 DEF Shape, Reducible
  <2>6. ASSUME NEW x \in Attached(f), op'[x] \in Reducible
        PROVE  x \in Attached(g) /\ op[x] \in Reducible /\ Total(f.operands[x]) = Total(g.operands[x])
    <3>1. x # c /\ x \in Node
      BY <2>1, <2>2, <2>5, <2>6 DEF Attached
    <3>2. x \in Attached(g)
      BY <2>1, <2>3, <3>1 DEF Attached
    <3> QED
      BY <2>4, <2>5, <2>6, <3>1, <3>2
  <2>7. /\ \A x \in Attached(f) : op'[x] \in Reducible => Total(f.operands[x]) >= 2
        /\ Binary(Attached(g)) =>
             \A x \in Attached(f) : op'[x] \in Reducible => Total(f.operands[x]) = 2
    BY <2>6 DEF BinaryOK, Wide, Binary
  <2>8. Wide(Attached(g))' /\ (Binary(Attached(g)) => Binary(Attached(g))')
    BY <2>7 DEF Wide, Binary, Attached, f
  <2> QED
    BY <1>1, <2>8 DEF BinaryOK
<1> QED
  BY <1>2, <1>3

\* The pass after the expander begins with sums and products of two.
LEMMA StartPassBinary ==
  ASSUME Shape, VisitsEachOnce, BinaryOK, StartPass
  PROVE  BinaryOK'
<1>1. /\ t.todo = {} /\ at' = at + 1 /\ seen' = {} /\ entry' = Attached(g)
      /\ UNCHANGED <<g, op>>
  BY DEF StartPass
<1>2. Attached(g)' = Attached(g)
  BY <1>1 DEF Attached
<1>3. Binary(Attached(g) \ (entry \ seen))'
  BY <1>1, <1>2 DEF Binary
<1>4. ASSUME Expanded' PROVE Binary(Attached(g))'
  <2>1. at \in Nat
    BY PassesAssumption DEF Shape
  <2>2. PICK i \in 1 .. (at' - 1) : Passes[i] = "Expand"
    BY <1>4 DEF Expanded
  <2>3. i \in 1 .. (at - 1) \/ i = at
    BY <1>1, <2>1
  <2>4. Expanded \/ Finished("Expand")
    BY <1>1, <2>2, <2>3 DEF Expanded, Finished
  <2>5. BinaryAgain
    BY BinaryAfter
  <2>6. Binary(Attached(g))
    BY <2>4, <2>5, Zenon DEF BinaryAgain, Binary, Expanded
  <2> QED
    BY <1>1, <1>2, <2>6 DEF Binary
<1>5. Wide(Attached(g))'
  BY <1>1, <1>2 DEF BinaryOK, Wide
<1> QED
  BY <1>3, <1>4, <1>5 DEF BinaryOK

\* The factory makes sums and products of two.
LEMMA InitBinary ==
  ASSUME Init
  PROVE  BinaryOK
<1>1. at = 1 /\ entry = Attached(g) /\ seen = {}
  BY DEF Init
<1>2. ~Expanded
  BY <1>1 DEF Expanded
<1>3. Wide(Attached(g))
  <2>1. Attached(g) \subseteq Node
    BY ProgramFacts DEF Attached
  <2>2. 2 >= 2
    OBVIOUS
  <2> QED
    BY <2>1, <2>2, ProgramFacts DEF Wide
<1>4. Binary(Attached(g) \ (entry \ seen))
  BY <1>1 DEF Binary
<1> QED
  BY <1>2, <1>3, <1>4 DEF BinaryOK

(* Sums and products of any number of operands become binary again, once   *)
(* and for all.                                                            *)
THEOREM BinaryHolds == Spec => []BinaryOK
<1>1. IInv /\ Shape /\ VisitsEachOnce /\ BinaryOK /\ [Next]_vars => BinaryOK'
  <2> SUFFICES ASSUME IInv, Shape, VisitsEachOnce, BinaryOK, [Next]_vars PROVE BinaryOK'
    OBVIOUS
  <2>1. CASE UNCHANGED vars
    BY <2>1 DEF BinaryOK, Binary, Wide, Expanded, Attached, vars, data
  <2>2. CASE StartPass
    BY <2>2, StartPassBinary
  <2>3. ASSUME NEW n \in Node, TypeVisit(n) PROVE BinaryOK'
    <3>1. UNCHANGED <<g, op, at>> /\ Passes[at] = "Type"
      BY <2>3 DEF TypeVisit, Visit
    <3> QED
      BY <3>1 DEF BinaryOK, Binary, Wide, Expanded, Attached
  <2>4. ASSUME NEW n \in Node, DepthVisit(n) PROVE BinaryOK'
    <3>1. UNCHANGED <<g, op, at>> /\ Passes[at] = "Depth"
      BY <2>4 DEF DepthVisit, Visit
    <3> QED
      BY <3>1 DEF BinaryOK, Binary, Wide, Expanded, Attached
  <2>5. ASSUME NEW n \in Node, CleanVisit(n) PROVE BinaryOK'
    BY <2>5, CleanBinary
  <2>6. ASSUME NEW n \in Node, ReduceVisit(n) PROVE BinaryOK'
    BY <2>6, ReduceBinary
  <2>7. ASSUME NEW n \in Node, ExpandVisit(n) PROVE BinaryOK'
    BY <2>7, ExpandBinary
  <2>8. ASSUME NEW n \in Node, FoldVisit(n) PROVE BinaryOK'
    BY <2>8, FoldBinary
  <2> QED
    BY <2>1, <2>2, <2>3, <2>4, <2>5, <2>6, <2>7, <2>8 DEF Next
<1>2. Init => BinaryOK
  BY InitBinary
<1> QED
  BY <1>1, <1>2, PassesInOrder, ShapeHolds, VisitsEachOnceHolds, PTL DEF Spec

(* Whatever Reduction merged is binary again after ReductionLogExpander.   *)
THEOREM BinaryAgainHolds == Spec => []BinaryAgain
<1>1. VisitsEachOnce /\ BinaryOK => BinaryAgain
  BY BinaryAfter
<1> QED
  BY <1>1, VisitsEachOnceHolds, BinaryHolds, PTL

-----------------------------------------------------------------------------
(* What the outputs denote                                                 *)

\* A valuation that obeys a graph below some nodes has the values of these nodes.
LEMMA ValuesCarry ==
  ASSUME NEW f, Sound(f), NEW name, NEW pay \in [Node -> Values],
         NEW K, Whole(f, K), NEW w, Obeyed(w, f, name, pay, K)
  PROVE  \A o \in K : Value(f, name, pay)[o] = w[o]
<1> DEFINE v == Value(f, name, pay)
<1>1. Grounded(f) /\ f.operands \in [Node -> Bag]
  BY SoundGrounded, SoundFacts
<1>2. Obeyed(v, f, name, pay, Node)
  BY <1>1, ValueSolves
<1> HIDE DEF v
<1>3. Obeyed(v, f, name, pay, K)
  BY <1>2 DEF Obeyed, Whole
<1>4. \A o \in K : v[o] = w[o]
  BY <1>1, <1>3, ValuesAgree
<1> QED
  BY <1>4 DEF v

\* A sum or a product gathers its operands with an operation that may be regrouped.
LEMMA CombineGathers ==
  ASSUME NEW name \in Reducible
  PROVE  \E p, e : Regroups(Values, p, e) /\ \A b, v : Combine(name, b, v) = Gather(p, e, b, v)
<1>1. CASE name = "Add"
  <2>1. \A b, v : Combine(name, b, v) = Gather(Plus, Zero, b, v)
    BY <1>1 DEF Combine
  <2> QED
    BY <2>1, ValuesAssumption, Zenon
<1>2. CASE name = "Mul"
  <2>1. \A b, v : Combine(name, b, v) = Gather(Times, Unit, b, v)
    BY <1>2 DEF Combine
  <2> QED
    BY <2>1, ValuesAssumption, Zenon
<1> QED
  BY <1>1, <1>2 DEF Reducible

\* A node has the value that its operands gather.
Gathers(p, e, h, v, n) == v[n] = Gather(p, e, h.operands[n], v)

\* A user gathers what it gathered before when an operand handed its own over.
LEMMA HandedGather ==
  ASSUME NEW h, h.operands \in [Node -> Bag], NEW f, NEW n \in Node, NEW u \in Node,
         h.operands[u][n] > 0, Handed(h, f, n, u),
         NEW p, NEW e, Regroups(Values, p, e), NEW v \in [Node -> Values],
         Gathers(p, e, h, v, n), Gathers(p, e, h, v, u)
  PROVE  Gathers(p, e, f, v, u)
<1> DEFINE b == h.operands[u]
           r == [b EXCEPT ![n] = b[n] - 1]
           a == h.operands[n]
           o == Only(n, 1)
           d == f.operands[u]
<1>1. b \in Bag /\ a \in Bag /\ d \in Bag /\ b[n] > 0
      /\ \A m \in Node : d[m] = (IF m = n THEN b[m] - 1 ELSE b[m]) + a[m]
  BY DEF Handed
<1>0. v[n] = Gather(p, e, a, v)
  BY Zenon DEF Gathers
<1> HIDE DEF b, a, d
<1>2. /\ \A m \in Node : b[m] \in Nat
      /\ \A m \in Node : r[m] = IF m = n THEN b[m] - 1 ELSE b[m]
      /\ r \in Bag
  BY <1>1 DEF Bag
<1> HIDE DEF r
<1>3. o \in Bag /\ o[n] = 1 /\ \A m \in Node : m # n => o[m] = 0
  BY OnlyFacts
<1>v. \A m \in Node : v[m] \in Values
  OBVIOUS
<1>4. Gather(p, e, o, v) = v[n]
  <2>1. Gather(p, e, o, v) = Repeat(p, e, v[n], 1)
    BY <1>v, GatherOnly
  <2>2. Repeat(p, e, v[n], 1) = v[n]
    BY <1>v, RepeatOnce
  <2> QED
    BY <2>1, <2>2, Zenon
<1> HIDE DEF o
<1>5. Both(r, o, b)
  BY <1>2, <1>3 DEF Both
<1>6. Both(r, a, d)
  BY <1>1, <1>2 DEF Both
<1>7. Gather(p, e, b, v) = p[Gather(p, e, r, v)][Gather(p, e, o, v)]
  BY <1>1, <1>2, <1>3, <1>5, <1>v, GatherBoth
<1>8. Gather(p, e, d, v) = p[Gather(p, e, r, v)][Gather(p, e, a, v)]
  BY <1>1, <1>2, <1>6, <1>v, GatherBoth
<1>9. Gather(p, e, d, v) = Gather(p, e, b, v)
  BY <1>0, <1>4, <1>7, <1>8, Zenon
<1>10. v[u] = Gather(p, e, b, v)
  BY Zenon DEF Gathers, b
<1> QED
  BY <1>9, <1>10, Zenon DEF Gathers, d

\* What a folded node is replaced by has its value.
LEMMA CombineRenamed ==
  ASSUME NEW name, NEW b \in Bag, NEW old \in Node, NEW new \in Node, old # new,
         NEW d, Renamed(b, old, new, d), NEW v \in [Node -> Values], v[old] = v[new]
  PROVE  Combine(name, d, v) = Combine(name, b, v)
<1>1. Gather(Plus, Zero, d, v) = Gather(Plus, Zero, b, v)
  BY ValuesAssumption, GatherRenamed
<1>2. Gather(Times, Unit, d, v) = Gather(Times, Unit, b, v)
  BY ValuesAssumption, GatherRenamed
<1> QED
  BY <1>1, <1>2, Zenon DEF Combine

\* What the nodes denote before a step.
LEMMA ValueFacts ==
  ASSUME IInv, Shape
  PROVE  /\ Sound(g) /\ g.operands \in [Node -> Bag] /\ g.alive \subseteq Node
         /\ Value(g, op, payload) \in [Node -> Values]
         /\ Obeyed(Value(g, op, payload), g, op, payload, Node)
         /\ Whole(g, Node)
<1>1. Sound(g) /\ g.operands \in [Node -> Bag] /\ g.alive \subseteq Node
  BY SoundFacts DEF IInv, GraphOK
<1>2. Grounded(g)
  BY <1>1, SoundGrounded
<1>3. Whole(g, Node)
  BY DEF Whole, Below, Preds
<1>4. payload \in [Node -> Values]
  BY DEF Shape
<1> QED
  BY <1>1, <1>2, <1>3, <1>4, ValueSolves

(* The graph f, with its names and payloads, has no other outputs, and     *)
(* they denote what they did.                                              *)
Keeps(f, name, pay) ==
  \A o \in Attached(f) : name[o] = "Output" =>
     o \in OutputNodes /\ Value(f, name, pay)[o] = Value(g, op, payload)[o]

\* The outputs are kept if a valuation with their old values obeys the new graph.
LEMMA OutputsKept ==
  ASSUME NEW f, Sound(f), NEW name, NEW pay \in [Node -> Values], NEW K, Whole(f, K),
         NEW w, Obeyed(w, f, name, pay, K),
         \A o \in Attached(f) : name[o] = "Output" =>
            o \in K /\ o \in OutputNodes /\ w[o] = Value(g, op, payload)[o]
  PROVE  Keeps(f, name, pay)
<1> DEFINE u == Value(f, name, pay)
           v == Value(g, op, payload)
<1>1. \A o \in K : u[o] = w[o]
  BY ValuesCarry
<1> HIDE DEF u, v
<1>2. ASSUME NEW o \in Attached(f), name[o] = "Output" PROVE o \in OutputNodes /\ u[o] = v[o]
  <2>1. o \in K /\ o \in OutputNodes /\ w[o] = v[o]
    BY <1>2 DEF v
  <2> QED
    BY <1>1, <2>1
<1> QED
  BY <1>2, Zenon DEF Keeps, u, v

\* A valuation that obeyed a node obeys it still if nothing it reads there changed.
LEMMA ObeysStill ==
  ASSUME NEW h, NEW f, NEW name, NEW pay, NEW lab, NEW val, NEW v, NEW w, NEW x \in Node,
         h.operands \in [Node -> Bag], f.operands[x] = h.operands[x], lab[x] = name[x],
         IsNone(h.operands[x]) => val[x] = pay[x],
         w[x] = v[x], \A m \in Below(h, x) : w[m] = v[m], Denotes(v, h, name, pay, x)
  PROVE  Denotes(w, f, lab, val, x)
<1>1. CASE IsNone(h.operands[x])
  <2>1. v[x] = pay[x]
    BY <1>1 DEF Denotes
  <2> QED
    BY <1>1, <2>1 DEF Denotes
<1>2. CASE ~IsNone(h.operands[x])
  <2> DEFINE b == h.operands[x]
  <2>1. v[x] = Combine(name[x], b, v)
    BY <1>2 DEF Denotes
  <2>2. b \in Bag /\ \A m \in Node : b[m] > 0 => v[m] = w[m]
    BY DEF Below, Preds
  <2> HIDE DEF b
  <2>3. Combine(name[x], b, v) = Combine(name[x], b, w)
    BY <2>2, CombineFacts
  <2>4. w[x] = Combine(lab[x], f.operands[x], w)
    BY <2>1, <2>3, Zenon DEF b
  <2>5. ~IsNone(f.operands[x])
    BY <1>2
  <2> QED
    BY <2>4, <2>5, Zenon DEF Denotes
<1> QED
  BY <1>1, <1>2

\* A clean pass drops no output and nothing below one.
LEMMA CleanKeeps ==
  ASSUME IInv, Shape, NEW n \in Node, CleanVisit(n)
  PROVE  Keeps(g', op', payload')
<1>1. op' = op /\ payload' = payload
  BY CleanStep DEF data
<1> DEFINE v == Value(g, op, payload)
<1>2. /\ Sound(g) /\ g.operands \in [Node -> Bag] /\ g.alive \subseteq Node
      /\ Obeyed(v, g, op, payload, Node) /\ Whole(g, Node) /\ payload \in [Node -> Values]
  BY ValueFacts DEF Shape
<1>3. CASE g' = g
  <2>1. Keeps(g, op, payload)
    BY DEF Keeps, OutputNodes
  <2> QED
    BY <1>1, <1>3, <2>1
<1>4. CASE g' # g
  <2> DEFINE f == g'
             K == Node \ {n}
  <2>1. /\ f.sources \subseteq g.sources /\ f.alive = g.alive /\ IsNone(f.operands[n]) /\ Sound(f)
        /\ \A x \in Node \ {n} : f.operands[x] = g.operands[x]
        /\ \A x \in Node : n \notin Below(f, x)
    BY <1>4, CleanStep
  <2> HIDE DEF f
  <2>2. Whole(f, K)
    BY <2>1 DEF Whole, Below, Preds
  <2> HIDE DEF v
  <2>3. ASSUME NEW x \in K PROVE Denotes(v, f, op, payload, x)
    <3>1. Denotes(v, g, op, payload, x) /\ f.operands[x] = g.operands[x]
      BY <1>2, <2>1 DEF Obeyed
    <3> QED
      BY <3>1, Zenon DEF Denotes
  <2>4. Obeyed(v, f, op, payload, K)
    BY <2>3 DEF Obeyed
  <2>5. ASSUME NEW o \in Attached(f), op[o] = "Output"
        PROVE  o \in K /\ o \in OutputNodes
    <3>1. o \in Node /\ (o \in g.sources \/ ~IsNone(f.operands[o]))
      BY <1>2, <2>1 DEF Attached
    <3>2. o \notin g.sources
      BY <2>5 DEF Shape, Leaves
    <3>3. o # n
      BY <2>1, <3>1, <3>2
    <3> QED
      BY <2>1, <2>5, <3>1, <3>2, <3>3 DEF OutputNodes, Attached
  <2>6. Keeps(f, op, payload)
    BY <1>2, <2>1, <2>2, <2>4, <2>5, OutputsKept DEF v
  <2> QED
    BY <1>1, <2>6 DEF f
<1> QED
  BY <1>3, <1>4

\* Merging a node into its user keeps what the user denotes.
LEMMA ReduceKeeps ==
  ASSUME IInv, Shape, NEW n \in Node, ReduceVisit(n)
  PROVE  Keeps(g', op', payload')
<1>1. op' = op /\ payload' = payload
  BY ReduceStep DEF data
<1> DEFINE v == Value(g, op, payload)
<1>2. /\ Sound(g) /\ g.operands \in [Node -> Bag] /\ g.alive \subseteq Node
      /\ v \in [Node -> Values]
      /\ Obeyed(v, g, op, payload, Node) /\ Whole(g, Node) /\ payload \in [Node -> Values]
  BY ValueFacts DEF Shape
<1>3. CASE g' = g
  <2>1. Keeps(g, op, payload)
    BY DEF Keeps, OutputNodes
  <2> QED
    BY <1>1, <1>3, <2>1
<1>4. CASE g' # g
  <2> DEFINE f == g'
  <2>1. PICK u \in Node \ {n} :
                  /\ op[n] \in Reducible /\ op[u] = op[n]
                  /\ ~IsNone(g.operands[n]) /\ g.operands[u][n] > 0
                  /\ Sound(f) /\ f.alive = g.alive /\ f.sources \subseteq g.sources
                  /\ Handed(g, f, n, u)
    BY <1>4, ReduceStep
  <2> HIDE DEF f, v
  <2>2. /\ f.operands \in [Node -> Bag]
        /\ \A x \in Node \ {n, u} : f.operands[x] = g.operands[x]
        /\ \A m \in Node : f.operands[u][m] =
              (IF m = n THEN g.operands[u][m] - 1 ELSE g.operands[u][m]) + g.operands[n][m]
        /\ \/ f.operands[n] = g.operands[n]
           \/ IsNone(f.operands[n]) /\ \A x \in Node : n \notin Below(f, x)
    BY <2>1 DEF Handed
  <2>3. ~IsNone(g.operands[u]) /\ ~IsNone(f.operands[u])
    <3>1. PICK m \in Node : g.operands[n][m] # 0
      BY <2>1 DEF IsNone
    <3>2. g.operands[n][m] \in Nat /\ g.operands[u][m] \in Nat /\ g.operands[u][n] \in Nat
      BY <1>2 DEF Bag
    <3>3. f.operands[u][m] # 0
      BY <2>1, <2>2, <3>1, <3>2
    <3> QED
      BY <2>1, <3>3 DEF IsNone
  <2>4. Denotes(v, f, op, payload, u)
    <3>1. PICK p, e : /\ Regroups(Values, p, e)
                      /\ \A b, a : Combine(op[n], b, a) = Gather(p, e, b, a)
      BY <2>1, CombineGathers
    <3>2. v[n] = Combine(op[n], g.operands[n], v) /\ v[u] = Combine(op[n], g.operands[u], v)
      <4>1. Denotes(v, g, op, payload, n) /\ Denotes(v, g, op, payload, u)
        BY <1>2 DEF Obeyed
      <4> QED
        BY <4>1, <2>1, <2>3, Zenon DEF Denotes
    <3>3. v[n] = Gather(p, e, g.operands[n], v) /\ v[u] = Gather(p, e, g.operands[u], v)
      BY <3>1, <3>2, Zenon
    <3>4. Gathers(p, e, f, v, u)
      <4>1. Gathers(p, e, g, v, n) /\ Gathers(p, e, g, v, u)
        BY <3>3, Zenon DEF Gathers
      <4>2. Regroups(Values, p, e)
        BY <3>1
      <4>3. /\ g.operands \in [Node -> Bag] /\ v \in [Node -> Values]
            /\ u \in Node /\ g.operands[u][n] > 0 /\ Handed(g, f, n, u)
        BY <1>2, <2>1
      <4> QED
        BY <4>1, <4>2, <4>3, HandedGather
    <3>5. v[u] = Combine(op[u], f.operands[u], v)
      BY <2>1, <3>1, <3>4, Zenon DEF Gathers
    <3> QED
      BY <2>3, <3>5, Zenon DEF Denotes
  <2> DEFINE K == IF f.operands[n] = g.operands[n] THEN Node ELSE Node \ {n}
  <2>5. Whole(f, K)
    BY <2>2 DEF Whole, Below, Preds
  <2>6. K \subseteq Node /\ \A x \in K : x # u => f.operands[x] = g.operands[x]
    BY <2>2
  <2>6b. \A o \in Node : o \notin K => o = n
    OBVIOUS
  <2> HIDE DEF K
  <2>7. ASSUME NEW x \in K PROVE Denotes(v, f, op, payload, x)
    <3>1. CASE x = u
      BY <2>4, <3>1
    <3>2. CASE x # u
      <4>1. Denotes(v, g, op, payload, x) /\ f.operands[x] = g.operands[x]
        BY <1>2, <2>6, <3>2 DEF Obeyed
      <4> QED
        BY <4>1, Zenon DEF Denotes
    <3> QED
      BY <3>1, <3>2
  <2>8. Obeyed(v, f, op, payload, K)
    BY <2>7 DEF Obeyed
  <2>9. ASSUME NEW o \in Attached(f), op[o] = "Output"
        PROVE  o \in K /\ o \in OutputNodes
    <3>1. op[n] # "Output" /\ op[u] # "Output"
      BY <2>1 DEF Reducible
    <3>2. o \in Node /\ o # n /\ o # u
      BY <1>2, <2>1, <2>9, <3>1 DEF Attached
    <3>3. o \in Attached(g)
      BY <2>1, <2>2, <3>2 DEF Attached
    <3> QED
      BY <2>6b, <2>9, <3>2, <3>3 DEF OutputNodes
  <2>10. Keeps(f, op, payload)
    BY <1>2, <2>1, <2>5, <2>8, <2>9, OutputsKept DEF v
  <2> QED
    BY <1>1, <2>10 DEF f
<1> QED
  BY <1>3, <1>4

\* Balancing keeps what the node denotes, with values for the new nodes.
LEMMA ExpandKeeps ==
  ASSUME IInv, Shape, NEW n \in Node, ExpandVisit(n)
  PROVE  Keeps(g', op', payload')
<1>1. payload' = payload
  BY ExpandStep
<1> DEFINE v == Value(g, op, payload)
<1>2. /\ Sound(g) /\ g.operands \in [Node -> Bag] /\ g.alive \subseteq Node
      /\ v \in [Node -> Values]
      /\ Obeyed(v, g, op, payload, Node) /\ Whole(g, Node) /\ payload \in [Node -> Values]
  BY ValueFacts DEF Shape
<1>3. CASE g' = g /\ op' = op
  <2>1. Keeps(g, op, payload)
    BY DEF Keeps, OutputNodes
  <2> QED
    BY <1>1, <1>3, <2>1
<1>4. CASE ~(g' = g /\ op' = op)
  <2> DEFINE f == g'
             lab == op'
  <2>1. PICK F : /\ op[n] \in Reducible /\ Total(g.operands[n]) > 2
                 /\ Widened(g, f, n, F)
                 /\ lab = [m \in Node |-> IF m \in F THEN op[n] ELSE op[m]]
    BY <1>4, ExpandStep
  <2> HIDE DEF f, v, lab
  <2>2. /\ F \subseteq Node /\ n \notin F /\ F \cap g.alive = {}
        /\ Sound(f) /\ f.alive = g.alive \cup F /\ f.sources \subseteq g.sources \cup {n}
        /\ \A z \in Node \ (F \cup {n}) : f.operands[z] = g.operands[z]
    BY <2>1 DEF Widened
  <2>3. \A z \in F \cup {n} : ~IsNone(f.operands[z])
    BY <2>1, WidenedFacts
  <2>4. PICK p, e : /\ Regroups(Values, p, e)
                    /\ \A b, a : Combine(op[n], b, a) = Gather(p, e, b, a)
    BY <2>1, CombineGathers
  <2>5. PICK w : Rebalanced(Values, p, e, v, w, f, F, n, Gather(p, e, g.operands[n], v))
    BY <1>2, <2>1, <2>4, Zenon DEF Widened
  <2>6. /\ w \in [Node -> Values]
        /\ \A m \in Node : m \notin F => w[m] = v[m]
        /\ \A m \in F : w[m] = Gather(p, e, f.operands[m], w)
        /\ Gather(p, e, f.operands[n], w) = Gather(p, e, g.operands[n], v)
    BY <2>5, Zenon DEF Rebalanced
  <2>7. \A m \in F : lab[m] = op[n]
    BY <2>1, <2>2
  <2>8. \A m \in Node : m \notin F => lab[m] = op[m]
    BY <2>1
  <2>9. ASSUME NEW x \in F PROVE Denotes(w, f, lab, payload, x)
    <3>1. w[x] = Combine(lab[x], f.operands[x], w)
      BY <2>4, <2>6, <2>7, Zenon
    <3> QED
      BY <3>1, <2>3, Zenon DEF Denotes
  <2>10. Denotes(w, f, lab, payload, n)
    <3>1. ~IsNone(g.operands[n])
      <4>1. ~(0 > 2)
        OBVIOUS
      <4> QED
        BY <2>1, <4>1, TotalNone
    <3>2. v[n] = Combine(op[n], g.operands[n], v)
      <4>1. Denotes(v, g, op, payload, n)
        BY <1>2 DEF Obeyed
      <4> QED
        BY <4>1, <3>1, Zenon DEF Denotes
    <3>3. w[n] = v[n] /\ lab[n] = op[n]
      BY <2>2, <2>6, <2>8
    <3>4. w[n] = Combine(lab[n], f.operands[n], w)
      BY <3>2, <3>3, <2>4, <2>6, Zenon
    <3> QED
      BY <3>4, <2>3, Zenon DEF Denotes
  <2>11. ASSUME NEW x \in Node \ (F \cup {n}) PROVE Denotes(w, f, lab, payload, x)
    <3>1. f.operands[x] = g.operands[x] /\ lab[x] = op[x] /\ w[x] = v[x] /\ Denotes(v, g, op, payload, x)
      BY <1>2, <2>2, <2>6, <2>8 DEF Obeyed
    <3>2. Below(g, x) \subseteq Node /\ Below(g, x) \cap F = {}
      <4>1. Below(g, x) \subseteq g.alive
        BY <1>2, SoundFacts
      <4> QED
        BY <4>1, <1>2, <2>2
    <3>3. \A m \in Below(g, x) : w[m] = v[m]
      BY <3>2, <2>6
    <3> QED
      BY <3>1, <3>3, <1>2, ObeysStill
  <2>12. Obeyed(w, f, lab, payload, Node)
    BY <2>9, <2>10, <2>11 DEF Obeyed
  <2>13. Whole(f, Node)
    BY DEF Whole, Below, Preds
  <2>14. ASSUME NEW o \in Attached(f), lab[o] = "Output"
         PROVE  o \in Node /\ o \in OutputNodes /\ w[o] = v[o]
    <3>1. op[n] # "Output"
      BY <2>1 DEF Reducible
    <3>2. o \in Node
      BY <1>2, <2>2 DEF Attached
    <3>3. o \notin F /\ o # n
      BY <2>7, <2>8, <2>2, <2>14, <3>1
    <3>4. op[o] = "Output" /\ w[o] = v[o]
      BY <2>6, <2>8, <2>14, <3>2, <3>3
    <3>5. o \in Attached(g)
      BY <2>2, <3>2, <3>3 DEF Attached
    <3> QED
      BY <3>2, <3>4, <3>5 DEF OutputNodes
  <2> DEFINE K == Node
  <2> HIDE DEF K
  <2>15. Whole(f, K) /\ Obeyed(w, f, lab, payload, K)
         /\ \A o \in Attached(f) : lab[o] = "Output" =>
               o \in K /\ o \in OutputNodes /\ w[o] = Value(g, op, payload)[o]
    BY <2>12, <2>13, <2>14 DEF K, v
  <2>16. Keeps(f, lab, payload)
    BY <1>2, <2>2, <2>15, OutputsKept
  <2> QED
    BY <1>1, <2>16 DEF f, lab
<1> QED
  BY <1>3, <1>4

\* A constant in the place of an operation denotes what the operation did.
LEMMA FoldKeeps ==
  ASSUME IInv, Shape, NEW n \in Node, FoldVisit(n)
  PROVE  Keeps(g', op', payload')
<1> DEFINE v == Value(g, op, payload)
<1>2. /\ Sound(g) /\ g.operands \in [Node -> Bag] /\ g.alive \subseteq Node
      /\ v \in [Node -> Values]
      /\ Obeyed(v, g, op, payload, Node) /\ Whole(g, Node) /\ payload \in [Node -> Values]
  BY ValueFacts DEF Shape
<1>3. CASE UNCHANGED <<g, op, payload>>
  <2>1. Keeps(g, op, payload)
    BY DEF Keeps, OutputNodes
  <2> QED
    BY <1>3, <2>1
<1>4. CASE ~UNCHANGED <<g, op, payload>>
  <2> DEFINE f == g'
             lab == op'
             pay == payload'
             b == g.operands[n]
             new == Combine(op[n], b, payload)
  <2>1. Folds(n)
    BY <1>4, FoldStep
  <2>2. PICK c \in Node \ {n} :
                     /\ c \notin g.alive
                     /\ Sound(f) /\ f.alive = g.alive \cup {c}
                     /\ f.sources = g.sources \cup {c}
                     /\ Substituted(g, f, n, c)
                     /\ lab = [op EXCEPT ![c] = "Constant"]
                     /\ pay = [payload EXCEPT ![c] = new]
    BY <1>4, FoldStep
  <2>3. pay \in [Node -> Values]
    BY FoldShape DEF Shape
  <2>n. ~IsNone(b) /\ \A m \in Elements(b) : op[m] = "Constant"
    BY <2>1 DEF Folds
  <2>b. b \in Bag
    BY <1>2
  <2> HIDE DEF f, lab, pay, v, b
  <2>4. \A m \in Node : b[m] > 0 => payload[m] = v[m]
    <3>1. ASSUME NEW m \in Node, b[m] > 0 PROVE payload[m] = v[m]
      <4>1. op[m] \in Leaves
        BY <3>1, <2>n DEF Leaves, Elements
      <4>2. IsNone(g.operands[m])
        BY <4>1 DEF Shape
      <4>3. Denotes(v, g, op, payload, m)
        BY <1>2 DEF Obeyed
      <4> QED
        BY <4>2, <4>3 DEF Denotes
    <3> QED
      BY <3>1
  <2>5. v[n] = new
    <3>1. Denotes(v, g, op, payload, n)
      BY <1>2 DEF Obeyed
    <3>2. v[n] = Combine(op[n], b, v)
      BY <3>1, <2>n, Zenon DEF Denotes, b
    <3>3. Combine(op[n], b, payload) = Combine(op[n], b, v)
      BY <2>4, <2>b, CombineFacts
    <3> QED
      BY <3>2, <3>3, Zenon
  <2> HIDE DEF new
  <2>6. /\ pay[c] = new /\ \A m \in Node : m # c => pay[m] = payload[m]
        /\ lab[c] = "Constant" /\ \A m \in Node : m # c => lab[m] = op[m]
    BY <1>2, <2>2 DEF Shape
  <2> DEFINE w == [v EXCEPT ![c] = new]
  <2>7. /\ w \in [Node -> Values] /\ w[c] = new /\ w[n] = v[n]
        /\ \A m \in Node : m # c => w[m] = v[m]
    BY <1>2, <2>2, <2>3, <2>6
  <2> HIDE DEF w
  <2>8. /\ IsNone(f.operands[c])
        /\ \A x \in Node : IsNone(f.operands[x]) <=> IsNone(g.operands[x])
    BY <1>2, <2>2, SubstitutedFacts
  <2>9. Denotes(w, f, lab, pay, c)
    BY <2>6, <2>7, <2>8 DEF Denotes
  <2>10. ASSUME NEW x \in Node, x # c PROVE Denotes(w, f, lab, pay, x)
    <3>1. Denotes(v, g, op, payload, x)
      BY <1>2 DEF Obeyed
    <3>2. w[x] = v[x] /\ pay[x] = payload[x] /\ lab[x] = op[x]
      BY <2>6, <2>7, <2>10
    <3>3. CASE IsNone(g.operands[x])
      <4>1. v[x] = payload[x]
        BY <3>1, <3>3 DEF Denotes
      <4>2. IsNone(f.operands[x])
        BY <2>8, <3>3
      <4> QED
        BY <3>2, <4>1, <4>2 DEF Denotes
    <3>4. CASE ~IsNone(g.operands[x])
      <4> DEFINE a == g.operands[x]
                 d == f.operands[x]
      <4>1. v[x] = Combine(op[x], a, v)
        BY <3>1, <3>4, Zenon DEF Denotes
      <4>2. ~IsNone(d)
        BY <2>8, <3>4
      <4>3. a \in Bag /\ a[c] = 0 /\ Renamed(a, n, c, d)
        BY <1>2, <2>2 DEF Substituted
      <4> HIDE DEF a, d
      <4>4. \A m \in Node : a[m] > 0 => v[m] = w[m]
        <5>1. ~(0 > 0)
          OBVIOUS
        <5> QED
          BY <5>1, <4>3, <2>7
      <4>5. Combine(op[x], a, v) = Combine(op[x], a, w)
        BY <4>3, <4>4, CombineFacts
      <4>6. w[n] = w[c]
        BY <2>5, <2>7
      <4>7. Combine(op[x], d, w) = Combine(op[x], a, w)
        BY <2>2, <2>7, <4>3, <4>6, CombineRenamed
      <4>8. w[x] = Combine(lab[x], d, w)
        BY <3>2, <4>1, <4>5, <4>7, Zenon
      <4> QED
        BY <4>2, <4>8, Zenon DEF Denotes, d
    <3> QED
      BY <3>3, <3>4
  <2>11. Obeyed(w, f, lab, pay, Node)
    BY <2>9, <2>10 DEF Obeyed
  <2>13. Whole(f, Node)
    BY DEF Whole, Below, Preds
  <2>14. ASSUME NEW o \in Attached(f), lab[o] = "Output"
         PROVE  o \in Node /\ o \in OutputNodes /\ w[o] = v[o]
    <3>1. o \in Node /\ o # c
      BY <1>2, <2>2, <2>6, <2>14 DEF Attached
    <3>2. o \in Attached(g)
      BY <2>2, <2>8, <3>1 DEF Attached
    <3> QED
      BY <2>6, <2>7, <2>14, <3>1, <3>2 DEF OutputNodes
  <2> DEFINE K == Node
  <2> HIDE DEF K
  <2>15. Whole(f, K) /\ Obeyed(w, f, lab, pay, K)
         /\ \A o \in Attached(f) : lab[o] = "Output" =>
               o \in K /\ o \in OutputNodes /\ w[o] = Value(g, op, payload)[o]
    BY <2>11, <2>13, <2>14 DEF K, v
  <2>16. Keeps(f, lab, pay)
    <3>1. Sound(f) /\ pay \in [Node -> Values]
      BY <2>2, <2>3
    <3> QED
      BY <2>15, <3>1, OutputsKept
  <2> QED
    BY <2>16 DEF f, lab, pay
<1> QED
  BY <1>3, <1>4

\* An output has an operand: it is no leaf.
LEMMA OutputFacts ==
  ASSUME IInv, Shape, NEW o \in Node, o \in OutputNodes
  PROVE  /\ op[o] = "Output" /\ o \in g.alive /\ ~IsNone(g.operands[o])
         /\ ~IsNone(g'.operands[o]) /\ o \in g'.alive /\ op'[o] = op[o] => o \in OutputNodes'
<1>1. op[o] = "Output" /\ o \in Attached(g)
  BY DEF OutputNodes
<1>2. op[o] \notin Leaves
  BY <1>1 DEF Leaves
<1>3. o \in g.alive /\ ~IsNone(g.operands[o])
  BY <1>1, <1>2 DEF Attached, Shape
<1> QED
  BY <1>1, <1>3 DEF OutputNodes, Attached

\* A clean pass drops no output.
LEMMA CleanOutput ==
  ASSUME IInv, Shape, NEW n \in Node, CleanVisit(n), NEW o \in Node, o \in OutputNodes,
         Passes[at] # "Release"
  PROVE  o \in OutputNodes'
<1>1. UNCHANGED op
  BY CleanStep DEF data
<1>2. CASE g' = g
  BY <1>1, <1>2, OutputFacts
<1>3. CASE g' # g
  <2>1. Cleanable(n)
    <3> DEFINE dropped == Passes[at] = "Release" \/ (IsNone(g.uses[n]) /\ Cleanable(n))
    <3>1. g' = IF dropped THEN CleanNode(g, n) ELSE g
      BY DEF CleanVisit
    <3> QED
      BY <1>3, <3>1
  <2>2. o # n
    BY <2>1, OutputFacts DEF Cleanable
  <2>3. g'.alive = g.alive /\ g'.operands[o] = g.operands[o]
    BY <1>3, <2>2, CleanStep
  <2> QED
    BY <1>1, <2>3, OutputFacts
<1> QED
  BY <1>2, <1>3

\* Reduction merges operations into operations.
LEMMA ReduceOutput ==
  ASSUME IInv, Shape, NEW n \in Node, ReduceVisit(n), NEW o \in Node, o \in OutputNodes
  PROVE  o \in OutputNodes'
<1>1. UNCHANGED op
  BY ReduceStep DEF data
<1>2. CASE g' = g
  BY <1>1, <1>2, OutputFacts
<1>3. CASE g' # g
  <2>1. PICK u \in Node \ {n} : /\ op[n] \in Reducible /\ op[u] = op[n]
                                /\ g'.alive = g.alive /\ Handed(g, g', n, u)
    BY <1>3, ReduceStep
  <2>2. o \notin {n, u}
    BY <2>1, OutputFacts DEF Reducible
  <2>3. g'.operands[o] = g.operands[o]
    BY <2>1, <2>2 DEF Handed
  <2> QED
    BY <1>1, <2>1, <2>3, OutputFacts
<1> QED
  BY <1>2, <1>3

\* Balancing touches sums and products, and new nodes.
LEMMA ExpandOutput ==
  ASSUME IInv, Shape, NEW n \in Node, ExpandVisit(n), NEW o \in Node, o \in OutputNodes
  PROVE  o \in OutputNodes'
<1>2. CASE g' = g /\ op' = op
  BY <1>2, OutputFacts
<1>3. CASE ~(g' = g /\ op' = op)
  <2>1. PICK F : /\ op[n] \in Reducible /\ Widened(g, g', n, F)
                 /\ op' = [m \in Node |-> IF m \in F THEN op[n] ELSE op[m]]
    BY <1>3, ExpandStep
  <2>2. o # n /\ o \in g.alive
    BY <2>1, OutputFacts DEF Reducible
  <2>3. o \notin F /\ g'.operands[o] = g.operands[o] /\ o \in g'.alive
    BY <2>1, <2>2 DEF Widened
  <2>4. op'[o] = op[o]
    BY <2>1, <2>3
  <2> QED
    BY <2>3, <2>4, OutputFacts
<1> QED
  BY <1>2, <1>3

\* Folding replaces an operand by another.
LEMMA FoldOutput ==
  ASSUME IInv, Shape, NEW n \in Node, FoldVisit(n), NEW o \in Node, o \in OutputNodes
  PROVE  o \in OutputNodes'
<1>2. CASE UNCHANGED <<g, next, op, payload>>
  BY <1>2, OutputFacts
<1>3. CASE ~UNCHANGED <<g, next, op, payload>>
  <2>1. PICK c \in Node \ {n} : /\ c \notin g.alive /\ g'.alive = g.alive \cup {c}
                                /\ Substituted(g, g', n, c)
                                /\ op' = [op EXCEPT ![c] = "Constant"]
    BY <1>3, FoldStep
  <2>2. g.operands \in [Node -> Bag]
    BY SoundFacts DEF IInv, GraphOK
  <2>3. IsNone(g'.operands[o]) <=> IsNone(g.operands[o])
    <3> DEFINE f == g'
    <3>1. Substituted(g, f, n, c)
      BY <2>1
    <3> HIDE DEF f
    <3>2. IsNone(f.operands[o]) <=> IsNone(g.operands[o])
      BY <2>2, <3>1, SubstitutedFacts
    <3> QED
      BY <3>2 DEF f
  <2>4. o # c /\ o \in g.alive
    BY <2>1, OutputFacts
  <2>5. op'[o] = op[o]
    BY <2>1, <2>4 DEF Shape
  <2> QED
    BY <2>1, <2>3, <2>4, <2>5, OutputFacts
<1> QED
  BY <1>2, <1>3

\* Until the Dag is released, the program's outputs are there.
OutputsStay ==
  ~Released => \A o \in Node : start.op[o] = "Output" => o \in OutputNodes

\* No pass but the release takes an output away.
LEMMA StepOutputs ==
  ASSUME IInv, Shape, OutputsStay, [Next]_vars
  PROVE  OutputsStay'
<1>1. start' = start
  BY DEF Next, StartPass, CleanVisit, TypeVisit, ReduceVisit, ExpandVisit, DepthVisit,
         FoldVisit, Visit, vars
<1>2. Released => Released'
  <2>1. at \in 1 .. Len(Passes) /\ Len(Passes) \in Nat
    BY PassesAssumption DEF Shape
  <2>2. at' = at \/ at' = at + 1
    BY DEF Next, StartPass, CleanVisit, TypeVisit, ReduceVisit, ExpandVisit, DepthVisit,
           FoldVisit, Visit, vars
  <2> QED
    BY <2>1, <2>2 DEF Released
<1>3. ~Released => Passes[at] # "Release"
  BY PassesAssumption DEF Shape, Released
<1>4. SUFFICES ASSUME ~Released, NEW o \in Node, o \in OutputNodes PROVE o \in OutputNodes'
  BY <1>1, <1>2 DEF OutputsStay
<1>5. ASSUME UNCHANGED <<g, op>> PROVE o \in OutputNodes'
  BY <1>4, <1>5, OutputFacts
<1>6. CASE UNCHANGED vars
  BY <1>5, <1>6 DEF vars, data
<1>7. CASE StartPass
  BY <1>5, <1>7 DEF StartPass
<1>8. ASSUME NEW n \in Node, TypeVisit(n) PROVE o \in OutputNodes'
  BY <1>5, <1>8 DEF TypeVisit
<1>9. ASSUME NEW n \in Node, DepthVisit(n) PROVE o \in OutputNodes'
  BY <1>5, <1>9 DEF DepthVisit
<1> QED
  BY <1>3, <1>4, <1>6, <1>7, <1>8, <1>9, CleanOutput, ReduceOutput, ExpandOutput, FoldOutput DEF Next

\* A program's outputs are attached when it is loaded.
LEMMA InitOutputs ==
  ASSUME Init
  PROVE  OutputsStay
<1> SUFFICES ASSUME NEW o \in Node, op[o] = "Output" PROVE o \in OutputNodes
  BY ProgramFacts DEF OutputsStay
<1>1. o \in g.alive /\ ~IsNone(g.operands[o])
  BY ProgramFacts DEF Leaves
<1> QED
  BY <1>1 DEF OutputNodes, Attached

(* Merging, balancing and folding keep what every output denotes, and lose *)
(* no output.                                                              *)
THEOREM ValuePreservedHolds == Spec => []ValuePreserved
<1>1. IInv /\ Shape /\ ValuePreserved /\ [Next]_vars => ValuePreserved'
  <2> SUFFICES ASSUME IInv, Shape, ValuePreserved, [Next]_vars PROVE ValuePreserved'
    OBVIOUS
  <2>0. OutputsStay'
    <3>1. OutputsStay
      BY DEF ValuePreserved, OutputsStay
    <3> QED
      BY <3>1, StepOutputs
  <2>1. start' = start
    BY DEF Next, StartPass, CleanVisit, TypeVisit, ReduceVisit, ExpandVisit, DepthVisit,
           FoldVisit, Visit, vars
  <2>2. Keeps(g', op', payload')
    <3>1. ASSUME UNCHANGED <<g, op, payload>> PROVE Keeps(g', op', payload')
      <4>1. Keeps(g, op, payload)
        BY DEF Keeps, OutputNodes
      <4> QED
        BY <3>1, <4>1
    <3>2. CASE UNCHANGED vars
      BY <3>1, <3>2 DEF vars, data
    <3>3. CASE StartPass
      BY <3>1, <3>3 DEF StartPass
    <3>4. ASSUME NEW n \in Node, TypeVisit(n) PROVE Keeps(g', op', payload')
      BY <3>1, <3>4 DEF TypeVisit
    <3>5. ASSUME NEW n \in Node, DepthVisit(n) PROVE Keeps(g', op', payload')
      BY <3>1, <3>5 DEF DepthVisit
    <3> QED
      BY <3>2, <3>3, <3>4, <3>5, CleanKeeps, ReduceKeeps, ExpandKeeps, FoldKeeps DEF Next
  <2> DEFINE first == Value(Loaded(start), start.op, start.payload)
             u == Value(g, op, payload)
             f == g'
             lab == op'
             pay == payload'
             w == Value(f, lab, pay)
  <2>3. first' = first /\ u' = w
    BY <2>1
  <2>4. \A o \in OutputNodes : u[o] = first[o]
    BY DEF ValuePreserved
  <2>5. \A o \in OutputNodes' : o \in OutputNodes /\ w[o] = u[o]
    BY <2>2, Zenon DEF Keeps, OutputNodes, Attached
  <2>6. \A o \in OutputNodes' : w[o] = first[o]
    BY <2>4, <2>5, Zenon
  <2> QED
    BY <2>0, <2>3, <2>6, Zenon DEF ValuePreserved, OutputsStay
<1>2. Init => ValuePreserved
  <2>1. Init => OutputsStay
    BY InitOutputs
  <2>2. Init => \A o \in OutputNodes :
           Value(g, op, payload)[o] = Value(Loaded(start), start.op, start.payload)[o]
    BY DEF Init
  <2> QED
    BY <2>1, <2>2, Zenon DEF ValuePreserved, OutputsStay
<1> QED
  BY <1>1, <1>2, PassesInOrder, ShapeHolds, PTL DEF Spec
=============================================================================
