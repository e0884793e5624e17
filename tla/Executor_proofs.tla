--------------------------- MODULE Executor_proofs ---------------------------
(***************************************************************************)
(* The executors of SEAL, OpenFHE and Concrete compute what the program    *)
(* means, for every compiled program of any size, every set of inputs and  *)
(* faults and every order of visits.  The induction needs that the count   *)
(* of uses is exact: then an object that is worked on in place, or moved   *)
(* away, is one that nobody will read, and every object that somebody will *)
(* read has its kind and the value of its node.                            *)
(***************************************************************************)
EXTENDS CompiledPrograms, Graph_proofs, FiniteSetTheorems

Raw == CHOOSE raw \in SUBSET Node : WellTypedWith(library, program, raw)

\* The kind of object that a node gets.
KindOf(n) == IF n \in Raw THEN "Raw"
             ELSE IF Op(n) = "Encode" THEN "Plain" ELSE "Cipher"

Uses(n) == Flow!ArgsOf(program, n)
Value(n) == Flow!Meaning(program)[n]

\* The object of m is still to be read: by an operation or by getOutputs.
Needed(m) ==
  \/ Op(m) = "Output"
  \/ \E n \in g.alive \ t.processed : m \in Uses(n)

Fixed ==
  /\ library \in DOMAIN Programs
  /\ program \in Programs[library]
  /\ g = GraphOf(program)
  /\ faults \subseteq Fallible(program)
  /\ hasErr \in BOOLEAN

Counted ==
  outdeg = [m \in Node |-> OutDegree(program, g.alive \ t.processed, m)]

\* Before its visit a node has no object, unless it is an input that was given.
Fresh ==
  \A n \in Node \ t.processed :
    \/ objs[n] = Unset
    \/ Op(n) = "Input" /\ objs[n] = Object("Cipher", <<"Leaf", n>>)

\* A visited node has an object of its kind, with its value while that is needed.
Stored ==
  \A n \in t.processed :
    \/ Op(n) = "Input" /\ objs[n].kind = "Unset"
    \/ /\ objs[n] = Object(KindOf(n), objs[n].val)
       /\ Needed(n) => objs[n].val = Value(n)

\* A visit without an error had all its operands, and no fault.
Faultless ==
  \A n \in t.processed :
    /\ \A m \in Uses(n) : objs[m].kind # "Unset"
    /\ \A f \in faults : f[1] # n

IInv ==
  /\ Fixed
  /\ Ordered(t, g, TRUE)
  /\ Counted
  /\ ~hasErr => Fresh /\ Stored /\ Faultless
  /\ hasErr => faults # {} /\ library # "Concrete"
  /\ DeliversUnlessFaulty

-----------------------------------------------------------------------------
(* The graph of a program                                                  *)

\* The number of operands by the kind of operation.
LEMMA ArityOf ==
  ASSUME NEW name
  PROVE  /\ name \in Leaves => Arity(name) = 0
         /\ name \in Binary \cup {"Div"} => Arity(name) = 2
         /\ name \notin Leaves \cup Binary \cup {"Div"} => Arity(name) = 1
  BY DEF Arity, Leaves, Binary

\* What WellShaped says of one node.
LEMMA Shape ==
  ASSUME Fixed
  PROVE  /\ Compiled(library, program)
         /\ \A n \in Node : /\ Op(n) \in OpsOf(library)
                            /\ Args(n) \in Seq(Node)
                            /\ DOMAIN Args(n) = 1 .. Arity(Op(n))
                            /\ DOMAIN Args(n) \subseteq 1 .. 2
                            /\ Uses(n) \subseteq Node
                            /\ \A i \in DOMAIN Args(n) : Args(n)[i] \in Uses(n)
<1>1. Compiled(library, program)
  BY CompiledAssumption DEF Fixed
<1>2. ASSUME NEW n \in Node
      PROVE  /\ Op(n) \in OpsOf(library)
             /\ Args(n) \in Seq(Node)
             /\ Len(Args(n)) = Arity(Op(n))
  BY <1>1 DEF Compiled, WellShaped, Op, Args
<1>3. ASSUME NEW n \in Node
      PROVE  /\ DOMAIN Args(n) = 1 .. Arity(Op(n))
             /\ DOMAIN Args(n) \subseteq 1 .. 2
             /\ Uses(n) \subseteq Node
             /\ \A i \in DOMAIN Args(n) : Args(n)[i] \in Uses(n)
  <2>1. Arity(Op(n)) = 0 \/ Arity(Op(n)) = 1 \/ Arity(Op(n)) = 2
    BY DEF Arity
  <2>2. DOMAIN Args(n) = 1 .. Arity(Op(n))
    BY <1>2
  <2> QED
    BY <1>2, <2>1, <2>2 DEF Uses, Args, Flow!ArgsOf
<1> QED
  BY <1>1, <1>2, <1>3

\* An operand occurs among the operands a natural number of times.
LEMMA OccurrencesBound ==
  ASSUME NEW s \in Seq(Node), NEW m
  PROVE  /\ IsFiniteSet({i \in DOMAIN s : s[i] = m})
         /\ Occurrences(s, m) \in Nat
         /\ Occurrences(s, m) > 0 <=> \E i \in DOMAIN s : s[i] = m
<1> DEFINE I == {i \in DOMAIN s : s[i] = m}
<1>1. IsFiniteSet(DOMAIN s)
  BY FS_Interval
<1>2. IsFiniteSet(I)
  BY <1>1, FS_Subset
<1>3. Cardinality(I) \in Nat /\ (Cardinality(I) = 0 <=> I = {})
  BY <1>2, FS_CardinalityType, FS_EmptySet
<1> QED
  BY <1>2, <1>3 DEF Occurrences

\* What the traversal sees of the graph is the program.
LEMMA GraphRegular ==
  ASSUME Fixed
  PROVE  /\ g.alive = Flow!NodesOf(program)
         /\ \A n \in Node : Preds(g, TRUE, n) = Uses(n)
         /\ \A n \in Node : Uses(n) \subseteq g.alive \ Flow!OutputsOf(program)
         /\ \A n \in Node : n \notin g.alive => Uses(n) = {}
         /\ Regular(g, TRUE)
         /\ Acyclic(g, TRUE)
<1> USE Shape
<1>1. /\ g.alive = Flow!NodesOf(program)
      /\ g.sources = {n \in g.alive : Args(n) = <<>>}
      /\ \A n, m \in Node : /\ g.operands[n][m] = Occurrences(Args(n), m)
                            /\ g.uses[n][m] = Occurrences(Args(m), n)
  BY DEF Fixed, GraphOf, Args
<1>2. \A n \in Node : Preds(g, TRUE, n) = Uses(n)
  <2> SUFFICES ASSUME NEW n \in Node, NEW m \in Node
               PROVE  g.operands[n][m] > 0 <=> m \in Uses(n)
    BY DEF Preds
  <2>1. Args(n) \in Seq(Node)
    OBVIOUS
  <2>2. g.operands[n][m] > 0 <=> \E i \in DOMAIN Args(n) : Args(n)[i] = m
    BY <1>1, <2>1, OccurrencesBound
  <2> QED
    BY <2>2 DEF Uses, Args, Flow!ArgsOf
<1>3. \A n \in Node : Succs(g, TRUE, n) = {s \in Node : n \in Uses(s)}
  <2> SUFFICES ASSUME NEW n \in Node, NEW m \in Node
               PROVE  g.uses[n][m] > 0 <=> n \in Uses(m)
    BY DEF Succs, Preds
  <2>1. Args(m) \in Seq(Node)
    OBVIOUS
  <2>2. g.uses[n][m] > 0 <=> \E i \in DOMAIN Args(m) : Args(m)[i] = n
    BY <1>1, <2>1, OccurrencesBound
  <2> QED
    BY <2>2 DEF Uses, Args, Flow!ArgsOf
<1>4. \A n \in Node : Uses(n) \subseteq g.alive \ Flow!OutputsOf(program)
  BY <1>1 DEF Compiled, Flow!WellFormed, Uses
<1>5. \A n \in Node : n \notin g.alive => Uses(n) = {}
  <2> SUFFICES ASSUME NEW n \in Node, n \notin g.alive PROVE Uses(n) = {}
    OBVIOUS
  <2>1. Op(n) = "None"
    BY <1>1 DEF Flow!NodesOf, Op
  <2>2. Arity(Op(n)) = 0
    BY <2>1 DEF Arity, Leaves, Binary
  <2>3. DOMAIN Args(n) = {}
    BY <2>2
  <2> QED
    BY <2>3 DEF Uses, Args, Flow!ArgsOf
<1>6. \A n \in Node : Uses(n) = {} <=> Args(n) = <<>>
  <2> TAKE n \in Node
  <2>1. Args(n) \in Seq(Node)
    OBVIOUS
  <2>2. Uses(n) = {} <=> DOMAIN Args(n) = {}
    BY DEF Uses, Args, Flow!ArgsOf
  <2>3. DOMAIN Args(n) = {} <=> Args(n) = <<>>
    BY <2>1
  <2> QED
    BY <2>2, <2>3
<1>7. g.alive \subseteq Node
  BY <1>1 DEF Flow!NodesOf
<1>8. Regular(g, TRUE)
  <2>1. g.sources = {n \in g.alive : Preds(g, TRUE, n) = {}}
    BY <1>1, <1>2, <1>6, <1>7
  <2>2. \A n \in Node : Succs(g, TRUE, n) = {s \in Node : n \in Preds(g, TRUE, s)}
    BY <1>2, <1>3
  <2>3. \A n \in Node : Succs(g, TRUE, n) \subseteq g.alive
    BY <1>3, <1>5
  <2> QED
    BY <1>7, <2>1, <2>2, <2>3 DEF Regular, Roots
<1>9. Acyclic(g, TRUE)
  BY <1>2 DEF Acyclic, Compiled, AcyclicProgram, Uses
<1> QED
  BY <1>1, <1>2, <1>4, <1>5, <1>8, <1>9

-----------------------------------------------------------------------------
(* The uses that are still to come                                         *)

UsesBy(S, m) ==
  {use \in S \X (1 .. 2) : use[2] \in DOMAIN Args(use[1]) /\ Args(use[1])[use[2]] = m}

\* OutDegree counts a finite set of uses.
LEMMA UsesByFinite ==
  ASSUME NEW S \in SUBSET Node, NEW m
  PROVE  /\ IsFiniteSet(UsesBy(S, m))
         /\ OutDegree(program, S, m) = Cardinality(UsesBy(S, m))
<1>1. IsFiniteSet(Node) /\ IsFiniteSet(1 .. 2)
  <2>1. MaxNode - 1 \in Int /\ 0 \in Int /\ 1 \in Int /\ 2 \in Int
    BY MaxNodeAssumption
  <2>2. IsFiniteSet(0 .. (MaxNode - 1)) /\ IsFiniteSet(1 .. 2)
    BY <2>1, FS_Interval
  <2> QED
    BY <2>2 DEF Node
<1>2. IsFiniteSet(S \X (1 .. 2))
  BY <1>1, FS_Subset, FS_Product
<1>3. IsFiniteSet(UsesBy(S, m))
  BY <1>2, FS_Subset DEF UsesBy
<1> QED
  BY <1>3 DEF OutDegree, UsesBy, Args

\* The uses of m by one node are the occurrences of m among its operands.
LEMMA UsesByOne ==
  ASSUME Fixed, NEW n \in Node, NEW m
  PROVE  Cardinality(UsesBy({n}, m)) = Occurrences(Args(n), m)
<1> DEFINE I == {i \in DOMAIN Args(n) : Args(n)[i] = m}
           f == [i \in I |-> <<n, i>>]
<1>1. Args(n) \in Seq(Node) /\ DOMAIN Args(n) \subseteq 1 .. 2
  BY Shape
<1>2. UsesBy({n}, m) = {<<n, i>> : i \in I}
  BY <1>1 DEF UsesBy
<1>3. f \in Bijection(I, UsesBy({n}, m))
  BY <1>2 DEF Bijection, Injection, Surjection, IsInjective
<1>4. IsFiniteSet(I)
  BY <1>1, OccurrencesBound
<1> QED
  BY <1>3, <1>4, FS_Bijection DEF ExistsBijection, Occurrences

\* What NodeDegreeCnt counts, less the uses of n when n is visited.
LEMMA OutDegreeStep ==
  ASSUME Fixed, NEW S \in SUBSET Node, NEW n \in S, NEW m
  PROVE  /\ OutDegree(program, S, m) \in Nat
         /\ OutDegree(program, S \ {n}, m) \in Nat
         /\ Occurrences(Args(n), m) \in Nat
         /\ OutDegree(program, S, m)
              = OutDegree(program, S \ {n}, m) + Occurrences(Args(n), m)
<1>1. /\ UsesBy(S, m) = UsesBy(S \ {n}, m) \cup UsesBy({n}, m)
      /\ UsesBy(S \ {n}, m) \cap UsesBy({n}, m) = {}
  BY DEF UsesBy
<1>2. /\ IsFiniteSet(UsesBy(S, m)) /\ IsFiniteSet(UsesBy(S \ {n}, m))
      /\ IsFiniteSet(UsesBy({n}, m))
  BY UsesByFinite
<1>3. Cardinality(UsesBy(S, m))
        = Cardinality(UsesBy(S \ {n}, m)) + Cardinality(UsesBy({n}, m))
  <2>1. Cardinality({}) = 0
    BY FS_EmptySet
  <2>2. Cardinality(UsesBy(S \ {n}, m)) \in Nat /\ Cardinality(UsesBy({n}, m)) \in Nat
    BY <1>2, FS_CardinalityType
  <2> QED
    <3> DEFINE A == UsesBy(S \ {n}, m)
               B == UsesBy({n}, m)
    <3>1. Cardinality(A \cup B) = Cardinality(A) + Cardinality(B) - Cardinality(A \cap B)
      BY <1>2, FS_Union
    <3>2. UsesBy(S, m) = A \cup B /\ Cardinality(A \cap B) = 0
      BY <1>1, <2>1, Zenon
    <3> HIDE DEF A, B
    <3>3. Cardinality(A) \in Nat /\ Cardinality(B) \in Nat
      BY <2>2 DEF A, B
    <3>4. Cardinality(A \cup B) = Cardinality(A) + Cardinality(B)
      BY <3>1, <3>2, <3>3
    <3> QED
      BY <3>2, <3>4 DEF A, B
<1>4. /\ Cardinality(UsesBy(S, m)) \in Nat
      /\ Cardinality(UsesBy(S \ {n}, m)) \in Nat
      /\ Cardinality(UsesBy({n}, m)) \in Nat
  BY <1>2, FS_CardinalityType
<1>5. /\ OutDegree(program, S, m) = Cardinality(UsesBy(S, m))
      /\ OutDegree(program, S \ {n}, m) = Cardinality(UsesBy(S \ {n}, m))
      /\ Occurrences(Args(n), m) = Cardinality(UsesBy({n}, m))
  BY UsesByFinite, UsesByOne
<1> QED
  BY <1>3, <1>4, <1>5

\* When the count has run out at an operand of n, nothing else will read it.
LEMMA InPlaceLast ==
  ASSUME Fixed, Counted, NEW n \in g.alive \ t.processed,
         NEW i \in DOMAIN Args(n), InPlace(n, i)
  PROVE  \A u \in g.alive \ t.processed : u # n => Args(n)[i] \notin Uses(u)
<1> DEFINE rest == g.alive \ t.processed
           m    == Args(n)[i]
           s    == Args(n)
           pre  == SubSeq(s, 1, i)
<1>1. rest \in SUBSET Node /\ n \in Node
  BY GraphRegular DEF Regular
<1>2. s \in Seq(Node) /\ m \in Node
  BY <1>1, Shape
<1>3. outdeg[m] = OutDegree(program, rest \ {n}, m) + Occurrences(s, m)
  BY <1>1, <1>2, OutDegreeStep DEF Counted
<1>4. Occurrences(pre, m) <= Occurrences(s, m) /\ Occurrences(pre, m) \in Nat
  <2>1. /\ pre \in Seq(Node) /\ DOMAIN pre = 1 .. i
        /\ \A j \in 1 .. i : j \in DOMAIN s /\ pre[j] = s[j]
    BY <1>2
  <2>2. {j \in DOMAIN pre : pre[j] = m} \subseteq {j \in DOMAIN s : s[j] = m}
    BY <2>1
  <2>3. IsFiniteSet({j \in DOMAIN s : s[j] = m})
    BY <1>2, OccurrencesBound
  <2> QED
    BY <2>1, <2>2, <2>3, FS_Subset, OccurrencesBound DEF Occurrences
<1>5. outdeg[m] = Occurrences(pre, m)
  BY DEF InPlace
<1>6. OutDegree(program, rest \ {n}, m) = 0
  <2>1. OutDegree(program, rest \ {n}, m) \in Nat /\ Occurrences(s, m) \in Nat
    BY <1>1, OutDegreeStep
  <2> HIDE DEF m, s, pre, rest
  <2> QED
    BY <1>3, <1>4, <1>5, <2>1
<1>7. UsesBy(rest \ {n}, m) = {}
  <2>1. /\ IsFiniteSet(UsesBy(rest \ {n}, m))
        /\ OutDegree(program, rest \ {n}, m) = Cardinality(UsesBy(rest \ {n}, m))
    BY <1>1, UsesByFinite
  <2> QED
    BY <1>6, <2>1, FS_EmptySet
<1>8. ASSUME NEW u \in rest, u # n, m \in Uses(u)
      PROVE  FALSE
  <2>1. PICK j \in DOMAIN Args(u) : Args(u)[j] = m
    BY <1>8 DEF Uses, Args, Flow!ArgsOf
  <2>2. j \in 1 .. 2
    BY <1>1, Shape
  <2>3. <<u, j>> \in UsesBy(rest \ {n}, m)
    BY <1>8, <2>1, <2>2 DEF UsesBy
  <2> QED
    BY <1>7, <2>3
<1> QED
  BY <1>8

-----------------------------------------------------------------------------
(* The values of a program                                                 *)

\* What Meaning gives n when the nodes have the values f.
ValueFrom(f, n) ==
  IF Args(n) = <<>> THEN <<"Leaf", n>>
  ELSE Flow!Apply(Op(n), [i \in DOMAIN Args(n) |-> f[Args(n)[i]]])

\* f gives every node of S, and with it every node it depends on, its value.
Solves(f, S) ==
  /\ S \in SUBSET Node
  /\ \A n \in S : Uses(n) \subseteq S /\ f[n] = ValueFrom(f, n)

\* A value depends on the values of the operands only.
LEMMA ValueFromUses ==
  ASSUME NEW n, NEW f, NEW h, \A m \in Uses(n) : f[m] = h[m]
  PROVE  ValueFrom(f, n) = ValueFrom(h, n)
<1>1. \A i \in DOMAIN Args(n) : f[Args(n)[i]] = h[Args(n)[i]]
  BY DEF Uses, Args, Flow!ArgsOf
<1>2. [i \in DOMAIN Args(n) |-> f[Args(n)[i]]] = [i \in DOMAIN Args(n) |-> h[Args(n)[i]]]
  BY <1>1
<1> QED
  BY <1>2 DEF ValueFrom

\* A program leaves no choice: its operands determine the value of a node.
LEMMA SolutionsAgree ==
  ASSUME Fixed, NEW f, NEW h, NEW S, NEW T, Solves(f, S), Solves(h, T)
  PROVE  \A n \in S \cap T : f[n] = h[n]
<1> DEFINE D == {n \in S \cap T : f[n] # h[n]}
<1>1. ASSUME D # {} PROVE FALSE
  <2>1. D \in SUBSET Node
    BY DEF Solves
  <2>2. PICK n \in D : Uses(n) \cap D = {}
    BY <1>1, <2>1, Shape DEF Compiled, AcyclicProgram, Uses
  <2>3. \A m \in Uses(n) : f[m] = h[m]
    BY <2>2 DEF Solves
  <2>4. f[n] = h[n]
    BY <2>2, <2>3, ValueFromUses DEF Solves
  <2> QED
    BY <2>2, <2>4
<1> QED
  BY <1>1

\* Every program has its values: what the recursive Meaning denotes.
THEOREM MeaningSolves ==
  ASSUME Fixed
  PROVE  Solves(Flow!Meaning(program), Node)
<1> DEFINE Known(n, v) == \E S \in SUBSET Node : \E f : n \in S /\ Solves(f, S) /\ v = f[n]
           Sol == {n \in Node : \E v : Known(n, v)}
           F   == [n \in Node |-> CHOOSE v : Known(n, v)]
<1>1. ASSUME NEW f, NEW S, Solves(f, S), NEW n \in S
      PROVE  n \in Sol /\ F[n] = f[n]
  <2>1. n \in Node /\ S \in SUBSET Node
    BY <1>1 DEF Solves
  <2>2. Known(n, f[n])
    BY <1>1, <2>1
  <2>3. ASSUME NEW v, Known(n, v) PROVE v = f[n]
    BY <1>1, <2>3, SolutionsAgree
  <2> HIDE DEF Known
  <2>4. (CHOOSE v : Known(n, v)) = f[n]
    BY <2>2, <2>3
  <2> QED
    BY <2>1, <2>2, <2>4
<1>2. Solves(F, Sol)
  <2> SUFFICES ASSUME NEW n \in Sol
               PROVE  Uses(n) \subseteq Sol /\ F[n] = ValueFrom(F, n)
    BY DEF Solves
  <2>1. PICK S \in SUBSET Node : \E f : n \in S /\ Solves(f, S)
    OBVIOUS
  <2>2. PICK f : n \in S /\ Solves(f, S)
    BY <2>1
  <2> HIDE DEF Sol, F, Known
  <2>3. \A m \in S : m \in Sol /\ F[m] = f[m]
    BY <1>1, <2>2
  <2>4. Uses(n) \subseteq S /\ f[n] = ValueFrom(f, n)
    BY <2>2 DEF Solves
  <2>5. ValueFrom(f, n) = ValueFrom(F, n)
    BY <2>3, <2>4, ValueFromUses
  <2> QED
    BY <2>2, <2>3, <2>4, <2>5
<1>3. ASSUME NEW n \in Node \ Sol, Uses(n) \cap (Node \ Sol) = {}
      PROVE  FALSE
  <2> DEFINE h == [F EXCEPT ![n] = ValueFrom(F, n)]
             S == Sol \cup {n}
  <2>1. Sol \in SUBSET Node /\ DOMAIN F = Node
    OBVIOUS
  <2> HIDE DEF Sol, F, Known
  <2>2. h[n] = ValueFrom(F, n) /\ \A m \in Node : m # n => h[m] = F[m]
    BY <2>1
  <2>3. Uses(n) \subseteq Sol
    BY <1>3, Shape
  <2> HIDE DEF h
  <2>4. ASSUME NEW x \in S
        PROVE  Uses(x) \subseteq S /\ h[x] = ValueFrom(h, x)
    <3>1. Uses(x) \subseteq Sol
      BY <1>2, <2>3 DEF Solves
    <3>2. \A m \in Uses(x) : h[m] = F[m]
      BY <1>3, <2>1, <2>2, <3>1
    <3>3. ValueFrom(h, x) = ValueFrom(F, x)
      BY <3>2, ValueFromUses
    <3>4. h[x] = ValueFrom(F, x)
      BY <1>2, <1>3, <2>1, <2>2 DEF Solves
    <3> QED
      BY <3>1, <3>3, <3>4
  <2>5. Solves(h, S)
    BY <2>1, <2>4 DEF Solves
  <2>6. n \in Sol
    BY <1>1, <2>5
  <2> QED
    BY <1>3, <2>6
<1>4. Sol = Node
  <2>1. Sol \in SUBSET Node
    OBVIOUS
  <2> HIDE DEF Sol, F, Known
  <2>2. ASSUME Node \ Sol # {} PROVE FALSE
    <3>1. PICK n \in Node \ Sol : Uses(n) \cap (Node \ Sol) = {}
      BY <2>2, Shape DEF Compiled, AcyclicProgram, Uses
    <3> QED
      BY <1>3, <3>1
  <2> QED
    BY <2>1, <2>2
<1> DEFINE Body(f) ==
      [n \in Node |->
         IF program.args[n] = <<>> THEN <<"Leaf", n>>
         ELSE Flow!Apply(program.op[n],
                         [i \in DOMAIN program.args[n] |-> f[program.args[n][i]]])]
<1>5. F = Body(F)
  <2>1. F = [n \in Node |-> F[n]]
    OBVIOUS
  <2> HIDE DEF F, Sol, Known
  <2>2. \A n \in Node : F[n] = ValueFrom(F, n)
    BY <1>2, <1>4 DEF Solves
  <2> QED
    BY <2>1, <2>2 DEF ValueFrom, Args, Op
<1>6. Flow!Meaning(program) = CHOOSE f : f = Body(f)
  BY DEF Flow!Meaning
<1> HIDE DEF F, Body
<1>7. Flow!Meaning(program) = Body(Flow!Meaning(program))
  BY <1>5, <1>6
<1> QED
  <2>1. \A n \in Node : Flow!Meaning(program)[n] = ValueFrom(Flow!Meaning(program), n)
    BY <1>7 DEF Body, ValueFrom, Args, Op
  <2> QED
    BY <2>1, Shape DEF Solves

\* The value of a node by its operation.
LEMMA ValueOf ==
  ASSUME Fixed, NEW n \in Node
  PROVE  /\ Op(n) \in Leaves => Value(n) = <<"Leaf", n>>
         /\ Op(n) \notin Leaves =>
              Value(n) = Flow!Apply(Op(n), [i \in DOMAIN Args(n) |-> Value(Args(n)[i])])
<1>1. Value(n) = ValueFrom(Flow!Meaning(program), n)
  BY MeaningSolves DEF Solves, Value
<1>2. Args(n) \in Seq(Node) /\ DOMAIN Args(n) = 1 .. Arity(Op(n))
  BY Shape
<1>3. CASE Op(n) \in Leaves
  <2>1. DOMAIN Args(n) = {}
    BY <1>2, <1>3, ArityOf
  <2>2. Args(n) = <<>>
    BY <1>2, <2>1
  <2> QED
    BY <1>1, <1>3, <2>2 DEF ValueFrom
<1>4. CASE Op(n) \notin Leaves
  <2>1. 1 \in DOMAIN Args(n)
    BY <1>2, <1>4, ArityOf
  <2>2. Args(n) # <<>>
    BY <2>1
  <2> QED
    BY <1>1, <1>4, <2>2 DEF ValueFrom, Value
<1> QED
  BY <1>3, <1>4

\* A value is never what a moved-from object holds.
LEMMA ValueNotBlank ==
  ASSUME Fixed
  PROVE  \A n \in Node : Value(n) # Blank
<1> DEFINE D == {n \in Node : Value(n)[1] = "Blank"}
<1>1. ASSUME D # {} PROVE FALSE
  <2>1. PICK n \in D : Uses(n) \cap D = {}
    BY <1>1, Shape DEF Compiled, AcyclicProgram, Uses
  <2> DEFINE v == [i \in DOMAIN Args(n) |-> Value(Args(n)[i])]
  <2>2. CASE Op(n) \in Leaves
    <3>1. Value(n) = <<"Leaf", n>>
      BY <2>2, ValueOf
    <3>2. Value(n)[1] = "Leaf"
      BY <3>1
    <3> QED
      BY <2>1, <3>2
  <2>3. CASE Op(n) \notin Leaves
    <3>1. 1 \in DOMAIN Args(n)
      BY <2>3, Shape, ArityOf
    <3>2. Args(n)[1] \in Uses(n) /\ Args(n)[1] \in Node
      BY <3>1, Shape
    <3>3. v[1][1] # "Blank"
      BY <2>1, <3>1, <3>2
    <3>4. Value(n) = Flow!Apply(Op(n), v)
      BY <2>3, ValueOf
    <3> HIDE DEF v
    <3>5. Flow!Apply(Op(n), v)[1] # "Blank"
      BY <3>3 DEF Flow!Apply
    <3> QED
      BY <2>1, <3>4, <3>5
  <2> QED
    BY <2>2, <2>3
<1> QED
  BY <1>1 DEF Blank

-----------------------------------------------------------------------------
(* The visit of a node whose operands are sound                            *)

Ciphers == Node \ (Raw \cup Encodings(program))

\* Every operand of n has an object, of its kind and with its value.
Sound(n) ==
  \A m \in Uses(n) : objs[m] = Object(KindOf(m), Value(m))

\* The raw nodes of a compiled program are those that Raw chooses.
LEMMA RawTyping ==
  ASSUME Fixed
  PROVE  Raw \in SUBSET Node /\ WellTypedWith(library, program, Raw)
<1>1. \E raw \in SUBSET Node : WellTypedWith(library, program, raw)
  BY Shape DEF Compiled
<1> QED
  BY <1>1 DEF Raw

\* What the type checks see: sets of operands.
LEMMA KindsSeen ==
  ASSUME Fixed, NEW n \in Node, Sound(n)
  PROVE  /\ AllRaw(n) <=> Uses(n) \subseteq Raw
         /\ NoRaw(n) <=> Uses(n) \cap Raw = {}
         /\ SomeCipher(n) <=> Uses(n) \cap Ciphers # {}
         /\ \A i \in DOMAIN Args(n) :
              /\ Kind(n, i) = KindOf(Args(n)[i]) /\ Kind(n, i) # "Unset"
              /\ Vals(n)[i] = Value(Args(n)[i]) /\ Vals(n)[i] # Blank
              /\ Kind(n, i) = "Raw" <=> Args(n)[i] \in Raw
              /\ Kind(n, i) = "Cipher" <=> Args(n)[i] \in Ciphers
<1>1. ASSUME NEW i \in DOMAIN Args(n)
      PROVE  /\ Args(n)[i] \in Uses(n) /\ Args(n)[i] \in Node
             /\ Kind(n, i) = KindOf(Args(n)[i])
             /\ Vals(n)[i] = Value(Args(n)[i])
             /\ Kind(n, i) # "Unset"
  <2>1. Args(n)[i] \in Uses(n) /\ Args(n)[i] \in Node
    BY Shape
  <2> QED
    <3> DEFINE m == Args(n)[i]
    <3>1. objs[m] = Object(KindOf(m), Value(m))
      BY <2>1 DEF Sound
    <3>2. objs[m].kind = KindOf(m) /\ objs[m].val = Value(m)
      BY <3>1 DEF Object
    <3>3. KindOf(m) # "Unset"
      BY DEF KindOf
    <3> QED
      BY <2>1, <3>2, <3>3 DEF Kind, Vals
<1>2. \A m \in Uses(n) : \E i \in DOMAIN Args(n) : m = Args(n)[i]
  BY DEF Uses, Args, Flow!ArgsOf
<1>3. \A i \in DOMAIN Args(n) : Vals(n)[i] # Blank
  BY <1>1, ValueNotBlank
<1>4. ASSUME NEW i \in DOMAIN Args(n)
      PROVE  /\ Kind(n, i) = "Raw" <=> Args(n)[i] \in Raw
             /\ Kind(n, i) = "Cipher" <=> Args(n)[i] \in Ciphers
  <2> DEFINE m == Args(n)[i]
  <2>1. m \in Node /\ Kind(n, i) = KindOf(m)
    BY <1>1
  <2>2. m \in Encodings(program) <=> Op(m) = "Encode"
    BY <2>1 DEF Encodings, Op
  <2> HIDE DEF m
  <2>3. KindOf(m) = "Raw" <=> m \in Raw
    BY DEF KindOf
  <2>4. KindOf(m) = "Cipher" <=> m \in Ciphers
    BY <2>1, <2>2 DEF KindOf, Ciphers
  <2> QED
    BY <2>1, <2>3, <2>4 DEF m
<1>5. AllRaw(n) <=> Uses(n) \subseteq Raw
  BY <1>1, <1>2, <1>4 DEF AllRaw
<1>6. NoRaw(n) <=> Uses(n) \cap Raw = {}
  BY <1>1, <1>2, <1>4 DEF NoRaw
<1>7. SomeCipher(n) <=> Uses(n) \cap Ciphers # {}
  BY <1>1, <1>2, <1>4 DEF SomeCipher
<1> QED
  BY <1>1, <1>3, <1>4, <1>5, <1>6, <1>7

\* The rules of WellTypedWith for the operation of n.
LEMMA Typing ==
  ASSUME Fixed, NEW n \in Node
  PROVE  /\ n \in Raw <=> \/ Op(n) \in {"Constant", "U32Constant"}
                          \/ Op(n) # "Encode" /\ Uses(n) # {} /\ Uses(n) \subseteq Raw
         /\ Op(n) \in Binary =>
              \/ library # "Concrete" /\ Uses(n) \subseteq Raw
              \/ /\ Uses(n) \cap Ciphers # {}
                 /\ Uses(n) \cap Raw # {} => library = "Concrete" /\ Op(n) # "Sub"
         /\ Op(n) = "Div" => Uses(n) \cap Ciphers # {}
         /\ Op(n) \in Unary => /\ Uses(n) \cap Encodings(program) = {}
                               /\ library = "Concrete" => Uses(n) \cap Raw = {}
         /\ Op(n) \in Managing => Uses(n) \subseteq Ciphers
         /\ Op(n) = "Encode" => Uses(n) \subseteq Raw
         /\ Op(n) = "Output" => Uses(n) \cap Encodings(program) = {}
  BY RawTyping DEF WellTypedWith, Ciphers, Uses, Op, Managing

\* The ways in which an operation can meet its operands.
LEMMA OpCases ==
  ASSUME Fixed, NEW n \in Node
  PROVE  /\ library \in {"SEAL", "OpenFHE", "Concrete"}
         /\ Op(n) \in Leaves \cup Binary \cup Unary \cup Managing \cup {"Div", "Encode", "Output"}
         /\ library = "Concrete" => Op(n) \in ConcreteOps \cup {"None", "Input"}
         /\ library # "Concrete" => Op(n) \notin {"Div", "U32Constant"}
         /\ Op(n) \notin Leaves => 1 \in DOMAIN Args(n) /\ Args(n)[1] \in Uses(n)
         /\ Op(n) \in Binary \cup {"Div"} => DOMAIN Args(n) = {1, 2}
         /\ Op(n) \in Unary \cup Managing \cup {"Encode", "Output"} => DOMAIN Args(n) = {1}
<1>1. library \in {"SEAL", "OpenFHE", "Concrete"}
  BY LibraryAssumption DEF Fixed
<1>2. Op(n) \in OpsOf(library)
  BY Shape
<1>3. library # "Concrete" =>
        Op(n) \in {"None", "Input", "Constant", "Encode", "Output"}
                    \cup Binary \cup Unary \cup Managing
  BY <1>2 DEF OpsOf, Managing
<1>4. library # "Concrete" => Op(n) \notin {"Div", "U32Constant"}
  BY <1>1, <1>3 DEF Binary, Unary, Managing, ManagingOps
<1>5. library = "Concrete" => Op(n) \in ConcreteOps \cup {"None", "Input"}
  BY <1>2 DEF OpsOf
<1>6. Op(n) \in Leaves \cup Binary \cup Unary \cup Managing \cup {"Div", "Encode", "Output"}
  BY <1>3, <1>5 DEF Leaves, ConcreteOps
<1>7. Op(n) \notin Leaves => 1 \in DOMAIN Args(n) /\ Args(n)[1] \in Uses(n)
  <2>1. Op(n) \notin Leaves => 1 \in DOMAIN Args(n)
    BY Shape, ArityOf
  <2> QED
    BY <2>1, Shape
<1>8. 1 .. 1 = {1} /\ 1 .. 2 = {1, 2}
  OBVIOUS
<1>9. Op(n) \in Binary \cup {"Div"} => DOMAIN Args(n) = {1, 2}
  <2>1. Op(n) \in Binary \cup {"Div"} => Arity(Op(n)) = 2
    BY ArityOf
  <2> QED
    BY <1>8, <2>1, Shape, Zenon
<1>10. Op(n) \in Unary \cup Managing \cup {"Encode", "Output"} => DOMAIN Args(n) = {1}
  <2>1. Op(n) \in Unary \cup Managing \cup {"Encode", "Output"} =>
          Op(n) \notin Leaves \cup Binary \cup {"Div"}
    BY <1>1 DEF Unary, Managing, ManagingOps, Binary, Leaves
  <2>2. Op(n) \in Unary \cup Managing \cup {"Encode", "Output"} => Arity(Op(n)) = 1
    BY <2>1, ArityOf
  <2> QED
    BY <1>8, <2>2, Shape, Zenon
<1> QED
  BY <1>1, <1>4, <1>5, <1>6, <1>7, <1>9, <1>10

(* No compiled program is refused for the kinds of its objects, in no      *)
(* order: the type checks accept, and no operand is empty.                 *)
LEMMA Accepted ==
  ASSUME Fixed, NEW n \in Node, Sound(n), ~PassedOver(n), Op(n) # "None"
  PROVE  /\ Accepts(n)
         /\ ~ConcreteSkips(n)
         /\ ~SizesDiffer(n)
         /\ ~Hangs(n)
         /\ \A i \in DOMAIN Args(n) : Kind(n, i) # "Unset" /\ Vals(n)[i] # Blank
<1>1. \A i \in DOMAIN Args(n) : Kind(n, i) # "Unset" /\ Vals(n)[i] # Blank
  BY KindsSeen
<1>2. ~SizesDiffer(n)
  BY <1>1 DEF SizesDiffer
<1>3. ~Hangs(n)
  <2>1. Op(n) \in Unary => 1 \in DOMAIN Args(n)
    BY OpCases DEF Unary, Leaves
  <2> QED
    BY <1>1, <2>1 DEF Hangs, Unary
<1>4. Op(n) \in Binary \cup {"Div"} => DOMAIN Args(n) = {1, 2}
  BY OpCases
<1>5. Op(n) \in Unary \cup Managing => DOMAIN Args(n) = {1}
  BY OpCases
<1>6. Op(n) = "Encode" => DOMAIN Args(n) = {1}
  BY OpCases
<1>8. CASE library = "Concrete"
  <2>1. Op(n) \in {"Add", "Mul", "Div"} => SomeCipher(n)
    BY <1>8, KindsSeen, Typing DEF Binary
  <2>2. Op(n) = "Sub" => Uses(n) \subseteq Ciphers
    <3>1. Encodings(program) = {}
      BY <1>8, OpCases DEF Encodings, Op, ConcreteOps, Binary, Unary
    <3>2. Op(n) = "Sub" => Uses(n) \cap Raw = {} /\ Uses(n) \subseteq Node
      BY <1>8, Typing, Shape DEF Binary
    <3> QED
      BY <3>1, <3>2 DEF Ciphers
  <2>3. Op(n) = "Sub" => Kind(n, 1) = "Cipher" /\ Kind(n, 2) = "Cipher"
    <3>1. Op(n) = "Sub" => 1 \in DOMAIN Args(n) /\ 2 \in DOMAIN Args(n)
      BY <1>4 DEF Binary
    <3>2. \A i \in DOMAIN Args(n) : Args(n)[i] \in Uses(n)
      BY Shape
    <3> QED
      BY <2>2, <3>1, <3>2, KindsSeen
  <2>4. Op(n) \in Unary => Kind(n, 1) = "Cipher"
    <3>1. Encodings(program) = {}
      BY <1>8, OpCases DEF Encodings, Op, ConcreteOps, Binary, Unary
    <3>2. Op(n) \in Unary => Uses(n) \subseteq Ciphers
      BY <1>8, <3>1, Typing, Shape DEF Ciphers
    <3>3. Op(n) \in Unary => 1 \in DOMAIN Args(n) /\ Args(n)[1] \in Uses(n)
      BY <1>5, Shape
    <3> QED
      BY <3>2, <3>3, KindsSeen
  <2>5. ConcreteAccepts(n)
    BY <2>1, <2>3, <2>4 DEF ConcreteAccepts, Unary
  <2>6. ~ConcreteSkips(n)
    BY <2>1, <2>3 DEF ConcreteSkips
  <2> QED
    BY <1>1, <1>2, <1>3, <1>8, <2>5, <2>6 DEF Accepts
<1>9. CASE library # "Concrete"
  <2>1. Op(n) \in Binary => AllRaw(n) \/ (NoRaw(n) /\ SomeCipher(n))
    BY <1>9, KindsSeen, Typing
  <2>2. Op(n) \in Unary => Kind(n, 1) # "Plain"
    <3>1. Op(n) \in Unary => 1 \in DOMAIN Args(n) /\ Args(n)[1] \in Uses(n)
                               /\ Args(n)[1] \in Node
      BY <1>5, Shape
    <3>2. Op(n) \in Unary => Args(n)[1] \notin Encodings(program)
      BY <3>1, Typing
    <3>3. Op(n) \in Unary => Kind(n, 1) = KindOf(Args(n)[1])
      BY <3>1, KindsSeen
    <3> QED
      BY <3>1, <3>2, <3>3 DEF KindOf, Encodings, Op
  <2>3. Op(n) \in Managing => Kind(n, 1) = "Cipher"
    <3>1. Op(n) \in Managing => 1 \in DOMAIN Args(n) /\ Args(n)[1] \in Uses(n)
      BY <1>5, Shape
    <3> QED
      BY <3>1, KindsSeen, Typing
  <2>4. Op(n) = "Encode" => Kind(n, 1) = "Raw"
    <3>1. Op(n) = "Encode" => 1 \in DOMAIN Args(n) /\ Args(n)[1] \in Uses(n)
      BY <1>6, Shape
    <3> QED
      BY <3>1, KindsSeen, Typing
  <2>5. Op(n) \in {"Constant", "Output", "Encode"} \cup Binary \cup Unary \cup Managing
    BY <1>9, OpCases DEF PassedOver, Leaves
  <2>6. WellTyped(n)
    BY <2>1, <2>2, <2>3, <2>4, <2>5 DEF WellTyped, Binary
  <2> QED
    BY <1>1, <1>2, <1>3, <1>9, <2>6 DEF Accepts, ConcreteSkips
<1> QED
  BY <1>8, <1>9

\* The visit gives the node an object of its kind with its value.
LEMMA Computes ==
  ASSUME Fixed, NEW n \in Node, Sound(n), ~PassedOver(n), Op(n) # "None"
  PROVE  Computed(n) = Object(KindOf(n), Value(n))
<1> DEFINE v == [i \in DOMAIN Args(n) |-> Value(Args(n)[i])]
<1>1. Vals(n) = v
  BY KindsSeen DEF Vals
<1>2. Op(n) \notin Leaves => Value(n) = Flow!Apply(Op(n), v)
  BY ValueOf
<1>0. ~ConcreteSkips(n)
  BY Accepted
<1>3. CASE Op(n) \in {"Constant", "U32Constant"}
  <2>1. Value(n) = <<"Leaf", n>>
    BY <1>3, ValueOf DEF Leaves
  <2>2. KindOf(n) = "Raw"
    BY <1>3, Typing DEF KindOf
  <2> QED
    BY <1>3, <1>0, <2>1, <2>2 DEF Computed
<1>4. CASE Op(n) = "Encode"
  <2>1. Value(n) = Vals(n)[1]
    BY <1>1, <1>2, <1>4 DEF Leaves, Flow!Apply
  <2>2. KindOf(n) = "Plain"
    BY <1>4, Typing DEF KindOf
  <2> QED
    BY <1>4, <1>0, <2>1, <2>2 DEF Computed
<1>5. CASE Op(n) = "Output"
  <2> DEFINE m == Args(n)[1]
  <2>1. /\ m \in Uses(n) /\ m \in Node /\ 1 \in DOMAIN Args(n)
        /\ Uses(n) = {m}
    <3>1. DOMAIN Args(n) = {1} /\ Op(n) \notin Leaves
      BY <1>5, OpCases DEF Leaves
    <3> QED
      BY <3>1, OpCases, Shape DEF Uses, Args, Flow!ArgsOf
  <2>2. Value(n) = Value(m)
    BY <1>2, <1>5, <2>1 DEF Leaves, Flow!Apply
  <2>3. KindOf(n) = KindOf(m)
    <3>1. n \in Raw <=> m \in Raw
      BY <1>5, <2>1, Typing
    <3>2. Op(m) # "Encode"
      BY <1>5, <2>1, Typing DEF Encodings, Op
    <3> QED
      BY <1>5, <3>1, <3>2 DEF KindOf
  <2>4. objs[m] = Object(KindOf(m), Value(m))
    BY <2>1 DEF Sound
  <2> QED
    BY <1>5, <1>0, <2>2, <2>3, <2>4 DEF Computed
<1>6. CASE Op(n) \in Binary \cup Unary \cup Managing \cup {"Div"}
  <2>1. Op(n) \notin {"Constant", "U32Constant", "Encode", "Output"} /\ Op(n) \notin Leaves
    BY <1>6, OpCases DEF Binary, Unary, Managing, ManagingOps, Leaves
  <2>3. 1 \in DOMAIN Args(n) /\ Args(n)[1] \in Uses(n) /\ Vals(n)[1] # Blank
    BY <2>1, OpCases, KindsSeen
  <2>4. n \in Raw <=> AllRaw(n)
    <3>1. Uses(n) # {}
      BY <2>3
    <3> QED
      BY <2>1, <3>1, KindsSeen, Typing
  <2>5. KindOf(n) = IF AllRaw(n) THEN "Raw" ELSE "Cipher"
    BY <2>1, <2>4 DEF KindOf
  <2>6. AllRaw(n) \/ SomeCipher(n)
    <3>1. Uses(n) \subseteq Node
      BY Shape
    <3>2. Op(n) \in Binary \cup {"Div"} => AllRaw(n) \/ SomeCipher(n)
      BY KindsSeen, Typing
    <3>3. Op(n) \in Unary => AllRaw(n) \/ SomeCipher(n)
      BY <3>1, KindsSeen, Typing DEF Ciphers
    <3>4. Op(n) \in Managing => SomeCipher(n)
      BY <2>3, KindsSeen, Typing
    <3> QED
      BY <1>6, <3>2, <3>3, <3>4
  <2>7. Computed(n) = Object(IF AllRaw(n) THEN "Raw" ELSE "Cipher",
                             IF (AllRaw(n) /\ Vals(n)[1] = Blank) \/ (~AllRaw(n) /\ ~SomeCipher(n))
                             THEN Blank ELSE Flow!Apply(Op(n), Vals(n)))
    BY <1>0, <2>1 DEF Computed
  <2>8. Computed(n) = Object(IF AllRaw(n) THEN "Raw" ELSE "Cipher", Flow!Apply(Op(n), Vals(n)))
    BY <2>3, <2>6, <2>7
  <2> QED
    BY <1>1, <1>2, <2>1, <2>5, <2>8
<1> QED
  BY <1>3, <1>4, <1>5, <1>6, OpCases DEF PassedOver, Leaves

\* A visit that goes well had no fault, and a fault makes its visit fail.
LEMMA FaultsShow ==
  ASSUME Fixed, NEW n \in Node, Sound(n), ~PassedOver(n), Op(n) # "None"
  PROVE  /\ Throws(n) \/ Fails(n) => faults # {}
         /\ ~Throws(n) /\ ~Fails(n) => \A f \in faults : f[1] # n
<1>1. /\ Accepts(n) /\ ~SizesDiffer(n)
      /\ \A i \in DOMAIN Args(n) : Kind(n, i) # "Unset" /\ Vals(n)[i] # Blank
  BY Accepted
<1>2. Throws(n) => <<n, "Throw">> \in faults
  BY <1>1 DEF Throws, Accepts
<1>3. Fails(n) => <<n, "Err">> \in faults
  BY <1>1 DEF Fails, Accepts
<1>4. ASSUME ~Throws(n), ~Fails(n), NEW f \in faults, f[1] = n
      PROVE  FALSE
  <2>1. f \in Fallible(program)
    BY DEF Fixed
  <2>2. CASE f = <<n, "Throw">>
    BY <1>1, <1>4, <2>2 DEF Throws
  <2>3. CASE f = <<n, "Err">> /\ Op(n) = "Encode"
    <3>1. library # "Concrete"
      BY <2>3, OpCases DEF ConcreteOps, Binary, Unary
    <3> QED
      BY <1>4, <2>3, <3>1 DEF Fails
  <2>4. f = <<n, "Throw">> \/ (f = <<n, "Err">> /\ Op(n) = "Encode")
    BY <1>4, <2>1 DEF Fallible, Op
  <2> QED
    BY <2>2, <2>3, <2>4
<1> QED
  BY <1>2, <1>3, <1>4

-----------------------------------------------------------------------------
(* The invariant                                                           *)

\* A node on the stack comes after its operands and waits for its own visit.
LEMMA OnStack ==
  ASSUME IInv, NEW n \in t.todo
  PROVE  /\ n \in Node /\ n \in g.alive \ t.processed
         /\ Op(n) # "None"
         /\ Uses(n) \subseteq t.processed
         /\ \A m \in Uses(n) : Needed(m)
<1>1. n \in g.alive /\ n \notin t.processed /\ Preds(g, TRUE, n) \subseteq t.processed
  BY DEF IInv, Ordered
<1>2. n \in Node /\ Op(n) # "None" /\ Preds(g, TRUE, n) = Uses(n)
  BY <1>1, GraphRegular DEF IInv, Regular, Flow!NodesOf, Op
<1> QED
  BY <1>1, <1>2 DEF Needed

\* If all its operands have objects, these are the right ones.
LEMMA OperandsSound ==
  ASSUME IInv, ~hasErr, NEW n \in t.todo, \A m \in Uses(n) : objs[m].kind # "Unset"
  PROVE  Sound(n)
<1> SUFFICES ASSUME NEW m \in Uses(n) PROVE objs[m] = Object(KindOf(m), Value(m))
  BY DEF Sound
<1>1. m \in t.processed /\ Needed(m)
  BY OnStack
<1> QED
  BY <1>1 DEF IInv, Stored

\* An operand without an object is an input that was not given.
LEMMA MissingInput ==
  ASSUME IInv, ~hasErr, NEW m \in t.processed, objs[m].kind = "Unset"
  PROVE  Op(m) = "Input"
<1>1. ASSUME objs[m] = Object(KindOf(m), objs[m].val) PROVE FALSE
  <2>1. objs[m].kind = KindOf(m)
    BY <1>1 DEF Object
  <2> QED
    BY <2>1 DEF KindOf
<1> QED
  BY <1>1 DEF IInv, Stored

\* What the SEAL executor moves away nobody will read.
LEMMA DonorLast ==
  ASSUME IInv, NEW n \in t.todo, NEW i \in DOMAIN Args(n), i \in Donor(n)
  PROVE  /\ Op(Args(n)[i]) # "Output"
         /\ \A u \in g.alive \ t.processed : u # n => Args(n)[i] \notin Uses(u)
<1> DEFINE m == Args(n)[i]
<1>1. n \in Node /\ n \in g.alive \ t.processed /\ m \in Uses(n) /\ Fixed /\ Counted
  BY OnStack, Shape DEF IInv
<1>2. m \in Node /\ Op(m) # "Output"
  BY <1>1, GraphRegular, Shape DEF Flow!OutputsOf, Op
<1>3. library = "SEAL"
  BY DEF Donor
<1>4. CASE Op(n) = "Output"
  <2>1. n \in Flow!OutputsOf(program) /\ OutputsAlone(program)
    BY <1>1, <1>3, <1>4, Shape DEF Flow!OutputsOf, Op, Compiled
  <2>2. g.alive \subseteq Node
    BY <1>1, GraphRegular DEF Regular
  <2> QED
    BY <1>1, <1>2, <2>1, <2>2 DEF OutputsAlone, Uses
<1>5. CASE Op(n) # "Output"
  <2>1. i \in Reusable(n)
    BY <1>3, <1>5 DEF Donor
  <2>2. InPlace(n, i)
    BY <2>1 DEF Reusable
  <2> QED
    BY <1>1, <1>2, <2>2, InPlaceLast
<1> QED
  BY <1>4, <1>5

\* An execution begins with no object but the inputs that were given.
LEMMA InitInv == Init => IInv
<1> SUFFICES ASSUME Init PROVE IInv
  OBVIOUS
<1>1. Fixed
  BY DEF Init, Fixed
<1>2. t = Begin(g, TRUE) /\ t.processed = {}
  BY DEF Init, Begin
<1>3. Ordered(t, g, TRUE)
  BY <1>1, <1>2, GraphRegular, BeginOrdered
<1>4. Counted
  <2>1. g.alive \ t.processed = g.alive
    BY <1>2
  <2> QED
    BY <2>1 DEF Init, Counted
<1>5. Fresh
  <2>1. PICK bound \in SUBSET Flow!InputsOf(program) :
          objs = [n \in Node |-> IF n \in bound THEN Object("Cipher", <<"Leaf", n>>) ELSE Unset]
    BY DEF Init
  <2> QED
    BY <2>1 DEF Fresh, Flow!InputsOf, Op
<1>6. Stored /\ Faultless
  BY <1>2 DEF Stored, Faultless
<1>7. ~hasErr /\ DeliversUnlessFaulty
  BY DEF Init, DeliversUnlessFaulty
<1> QED
  BY <1>1, <1>3, <1>4, <1>5, <1>6, <1>7 DEF IInv

\* The program is what it was, and with it everything that is said of it.
LEMMA SameProgram ==
  ASSUME UNCHANGED <<library, program, g, faults>>
  PROVE  /\ \A n : /\ Op(n)' = Op(n) /\ Args(n)' = Args(n) /\ Uses(n)' = Uses(n)
                   /\ KindOf(n)' = KindOf(n) /\ Value(n)' = Value(n)
         /\ hasErr' \in BOOLEAN /\ Fixed => Fixed'
<1>1. Raw' = Raw
  BY DEF Raw
<1>2. \A n : Op(n)' = Op(n) /\ Args(n)' = Args(n)
  BY DEF Op, Args
<1>3. \A n : Uses(n)' = Uses(n) /\ Value(n)' = Value(n)
  BY DEF Uses, Value
<1>4. \A n : KindOf(n)' = KindOf(n)
  BY <1>1, <1>2 DEF KindOf
<1>5. ASSUME hasErr' \in BOOLEAN, Fixed PROVE Fixed'
  <2>1. Fallible(program)' = Fallible(program)
    BY DEF Fallible, Managing
  <2>2. g' = GraphOf(program')
    BY <1>5 DEF Fixed
  <2> QED
    BY <1>5, <2>1, <2>2 DEF Fixed
<1> QED
  BY <1>2, <1>3, <1>4, <1>5

\* The traversal's part of a visit.
LEMMA VisitOrdered ==
  ASSUME IInv, NEW n \in Node, Take(n), Proceed(n), UNCHANGED <<library, program, g, faults>>
  PROVE  /\ Ordered(t, g, TRUE)'
         /\ t'.processed = t.processed \cup {n}
         /\ n \in t.todo /\ n \in g.alive \ t.processed
         /\ \A m : Needed(m)' => Needed(m)
<1>1. n \in t.todo /\ n \in g.alive \ t.processed
  BY OnStack DEF Take
<1>2. Ordered(t, g, TRUE)'
  BY <1>1, GraphRegular, AdvanceOrdered DEF IInv, Proceed
<1>3. t'.processed = t.processed \cup {n}
  BY DEF Proceed, Advance
<1>4. \A m : Op(m)' = Op(m) /\ Uses(m)' = Uses(m)
  BY SameProgram
<1>5. \A m : Needed(m)' => Needed(m)
  BY <1>3, <1>4 DEF Needed
<1> QED
  BY <1>1, <1>2, <1>3, <1>5

\* A visit takes its uses off the count of every operand.
LEMMA VisitCounted ==
  ASSUME IInv, NEW n \in Node, Take(n), Proceed(n), outdeg' = CountedDown(n),
         UNCHANGED <<library, program, g, faults>>
  PROVE  Counted'
<1> DEFINE rest == g.alive \ t.processed
<1>1. n \in rest /\ g.alive \subseteq Node /\ Fixed
  BY VisitOrdered, GraphRegular DEF IInv, Regular
<1>2. g'.alive \ t'.processed = rest \ {n}
  BY VisitOrdered
<1>3. ASSUME NEW m \in Node
      PROVE  outdeg[m] - g.operands[n][m] = OutDegree(program, rest \ {n}, m)
  <2>1. outdeg[m] = OutDegree(program, rest, m)
    BY DEF IInv, Counted
  <2>2. g.operands[n][m] = Occurrences(Args(n), m)
    BY <1>1 DEF Fixed, GraphOf, Args
  <2>3. /\ OutDegree(program, rest, m) \in Nat
        /\ OutDegree(program, rest \ {n}, m) \in Nat
        /\ Occurrences(Args(n), m) \in Nat
        /\ OutDegree(program, rest, m)
             = OutDegree(program, rest \ {n}, m) + Occurrences(Args(n), m)
    BY <1>1, OutDegreeStep
  <2> HIDE DEF rest
  <2> QED
    BY <2>1, <2>2, <2>3
<1>4. outdeg' = [m \in Node |-> OutDegree(program, g'.alive \ t'.processed, m)]
  BY <1>2, <1>3 DEF CountedDown
<1> QED
  BY <1>4 DEF Counted

\* An input keeps the object it was given, if any.
LEMMA PassedOverStep ==
  ASSUME IInv, NEW n \in Node, VisitPassedOver(n)
  PROVE  IInv'
<1> USE DEF VisitPassedOver
<1>1. /\ Ordered(t, g, TRUE)' /\ t'.processed = t.processed \cup {n}
      /\ n \in t.todo /\ n \in g.alive \ t.processed
      /\ \A m : Needed(m)' => Needed(m)
  BY VisitOrdered
<1>2. /\ Fixed' /\ Fixed
      /\ \A m : Op(m)' = Op(m) /\ Args(m)' = Args(m) /\ Uses(m)' = Uses(m)
      /\ \A m : KindOf(m)' = KindOf(m) /\ Value(m)' = Value(m)
  BY SameProgram DEF IInv, Fixed
<1>3. Op(n) = "Input"
  BY <1>1, <1>2, OnStack, OpCases DEF PassedOver
<1>4. DOMAIN Args(n) = {} /\ Uses(n) = {}
  <2>1. DOMAIN Args(n) = {}
    BY <1>2, <1>3, Shape, ArityOf DEF Leaves
  <2> QED
    BY <2>1 DEF Uses, Args, Flow!ArgsOf
<1>5. Counted'
  <2> DEFINE rest == g.alive \ t.processed
  <2>1. rest \in SUBSET Node /\ n \in rest
    BY <1>1, <1>2, GraphRegular DEF Regular
  <2>2. \A m : UsesBy(rest, m) = UsesBy(rest \ {n}, m)
    BY <1>4 DEF UsesBy
  <2>3. \A m : OutDegree(program, rest, m) = OutDegree(program, rest \ {n}, m)
    BY <2>1, <2>2, UsesByFinite
  <2>4. g'.alive \ t'.processed = rest \ {n}
    BY <1>1
  <2> HIDE DEF rest
  <2>5. outdeg = [m \in Node |-> OutDegree(program, rest, m)]
    BY DEF IInv, Counted, rest
  <2> QED
    BY <2>3, <2>4, <2>5 DEF Counted
<1>6. Fresh /\ Stored /\ Faultless /\ ~hasErr /\ ~hasErr'
  BY DEF IInv
<1>7. Fresh'
  BY <1>1, <1>2, <1>6 DEF Fresh
<1>8. Stored'
  <2>1. \/ objs[n].kind = "Unset"
        \/ objs[n] = Object(KindOf(n), Value(n))
    <3>1. objs[n] = Unset => objs[n].kind = "Unset"
      BY DEF Unset, Object
    <3>2. KindOf(n) = "Cipher" /\ Value(n) = <<"Leaf", n>>
      BY <1>2, <1>3, <1>4, Typing, ValueOf DEF KindOf, Leaves
    <3> QED
      BY <1>1, <1>6, <3>1, <3>2 DEF Fresh
  <2>2. objs[n] = Object(KindOf(n), Value(n)) =>
          objs[n] = Object(KindOf(n), objs[n].val) /\ objs[n].val = Value(n)
    BY DEF Object
  <2> QED
    BY <1>1, <1>2, <1>3, <1>6, <2>1, <2>2 DEF Stored
<1>9. Faultless'
  <2>1. \A f \in faults : f[1] # n
    <3> SUFFICES ASSUME NEW f \in faults, f[1] = n PROVE FALSE
      OBVIOUS
    <3>1. f \in Fallible(program) /\ library \in {"SEAL", "OpenFHE", "Concrete"}
      BY <1>2, OpCases DEF Fixed
    <3>2. Op(n) \in Managing \cup {"Encode", "Div"}
      BY <3>1 DEF Fallible, Op
    <3> QED
      BY <1>3, <3>1, <3>2 DEF Managing, ManagingOps
  <2> QED
    BY <1>1, <1>2, <1>4, <1>6, <2>1 DEF Faultless
<1>10. DeliversUnlessFaulty'
  BY DEF Take, DeliversUnlessFaulty
<1> QED
  BY <1>1, <1>2, <1>5, <1>6, <1>7, <1>8, <1>9, <1>10 DEF IInv

\* A visit moves away only what nobody will read, and adds the value of its node.
LEMMA VisitStep ==
  ASSUME IInv, NEW n \in Node, Visit(n)
  PROVE  IInv'
<1> USE DEF Visit
<1>1. /\ Ordered(t, g, TRUE)' /\ t'.processed = t.processed \cup {n}
      /\ n \in t.todo /\ n \in g.alive \ t.processed
      /\ \A m : Needed(m)' => Needed(m)
  BY VisitOrdered
<1>2. /\ Fixed' /\ Fixed
      /\ \A m : Op(m)' = Op(m) /\ Args(m)' = Args(m) /\ Uses(m)' = Uses(m)
      /\ \A m : KindOf(m)' = KindOf(m) /\ Value(m)' = Value(m)
  BY SameProgram DEF IInv, Fixed
<1>3. Counted'
  BY VisitCounted
<1>4. Fresh /\ Stored /\ Faultless /\ ~hasErr /\ ~hasErr'
  BY DEF IInv
<1>5. Op(n) # "None" /\ Uses(n) \subseteq t.processed
  BY <1>1, OnStack
<1>6. \A m \in Uses(n) : objs[m].kind # "Unset"
  BY DEF Throws, Kind, Uses, Args, Flow!ArgsOf
<1>7. Sound(n)
  BY <1>1, <1>4, <1>6, OperandsSound
<1> DEFINE moved == {Args(n)[i] : i \in Donor(n)}
<1>8. /\ objs'[n] = Object(KindOf(n), Value(n))
      /\ \A m \in Node : m # n /\ m \notin moved => objs'[m] = objs[m]
      /\ \A m \in Node : m # n /\ m \in moved => objs'[m] = Object(objs[m].kind, Blank)
  BY <1>2, <1>5, <1>7, Computes
<1>9. ASSUME NEW m \in moved
      PROVE  m \in Uses(n) /\ ~Needed(m)'
  <2>1. PICK i \in Donor(n) : m = Args(n)[i]
    OBVIOUS
  <2>2. i \in DOMAIN Args(n)
    <3>1. Donor(n) \subseteq {1} \cup DOMAIN Args(n)
      BY DEF Donor, Reusable
    <3>2. Op(n) \notin Leaves => 1 \in DOMAIN Args(n)
      BY <1>2, OpCases
    <3>3. Op(n) \in Leaves => Donor(n) = {}
      BY <1>2, OpCases DEF Donor, Leaves, Unary, Managing, ManagingOps
    <3> QED
      BY <2>1, <3>1, <3>2, <3>3
  <2>3. Op(m) # "Output" /\ \A u \in g.alive \ t.processed : u # n => m \notin Uses(u)
    BY <1>1, <2>1, <2>2, DonorLast
  <2>4. m \in Uses(n)
    BY <1>2, <2>1, <2>2, Shape
  <2> QED
    BY <1>1, <1>2, <2>3, <2>4 DEF Needed
<1> HIDE DEF moved
<1>10. t.processed \subseteq Node
  BY <1>2, GraphRegular DEF IInv, Ordered, Regular
<1>11. \A m \in Node : m # n => objs'[m].kind = objs[m].kind
  BY <1>8 DEF Object
<1>12. Fresh'
  <2> SUFFICES ASSUME NEW m \in Node, m \notin t.processed, m # n
               PROVE  objs'[m] = objs[m]
    BY <1>1, <1>2, <1>4 DEF Fresh
  <2> QED
    BY <1>5, <1>8, <1>9
<1>13. Stored'
  <2>1. /\ objs'[n] = Object(KindOf(n), objs'[n].val)
        /\ objs'[n].val = Value(n)
    BY <1>8 DEF Object
  <2>2. ASSUME NEW m \in t.processed
        PROVE  \/ Op(m) = "Input" /\ objs'[m].kind = "Unset"
               \/ /\ objs'[m] = Object(KindOf(m), objs'[m].val)
                  /\ Needed(m)' => objs'[m].val = Value(m)
    <3>1. m \in Node /\ m # n
      BY <1>1, <1>10
    <3>2. CASE m \notin moved
      BY <1>1, <1>4, <1>8, <3>1, <3>2 DEF Stored
    <3>3. CASE m \in moved
      <4>1. objs'[m] = Object(objs[m].kind, Blank) /\ ~Needed(m)'
        BY <1>8, <1>9, <3>1, <3>3
      <4>2. objs[m].kind = KindOf(m)
        <5>1. objs[m] = Object(KindOf(m), Value(m))
          BY <1>7, <1>9, <3>3 DEF Sound
        <5> QED
          BY <5>1 DEF Object
      <4> QED
        BY <4>1, <4>2 DEF Object
    <3> QED
      BY <3>2, <3>3
  <2> QED
    BY <1>1, <1>2, <2>1, <2>2 DEF Stored
<1>14. Faultless'
  <2>1. \A f \in faults : f[1] # n
    BY <1>2, <1>5, <1>7, FaultsShow
  <2>2. ASSUME NEW k \in t.processed \cup {n}, NEW m \in Uses(k)
        PROVE  objs'[m].kind # "Unset"
    <3>1. Uses(k) \subseteq t.processed
      <4>1. CASE k = n
        BY <1>5, <4>1
      <4>2. CASE k \in t.processed
        <5>1. Preds(g, TRUE, k) \subseteq t.processed
          BY <4>2 DEF IInv, Ordered
        <5> QED
          BY <1>2, <1>10, <4>2, <5>1, GraphRegular
      <4> QED
        BY <4>1, <4>2
    <3>2. m \in Node /\ m # n
      BY <1>1, <1>10, <3>1
    <3>3. objs[m].kind # "Unset"
      BY <1>4, <1>6 DEF Faultless
    <3> QED
      BY <1>11, <3>2, <3>3
  <2> QED
    BY <1>1, <1>2, <1>4, <2>1, <2>2 DEF Faultless
<1>15. DeliversUnlessFaulty'
  BY DEF Take, DeliversUnlessFaulty
<1> QED
  BY <1>1, <1>2, <1>3, <1>4, <1>12, <1>13, <1>14, <1>15 DEF IInv

\* Only a fault makes a visit fail.
LEMMA FailsStep ==
  ASSUME IInv, NEW n \in Node, VisitFails(n)
  PROVE  IInv'
<1> USE DEF VisitFails
<1>1. Ordered(t, g, TRUE)' /\ n \in t.todo
  BY VisitOrdered
<1>2. Fixed' /\ Fixed /\ ~hasErr /\ hasErr'
  BY SameProgram DEF IInv, Fixed
<1>3. Counted'
  BY VisitCounted
<1>4. Sound(n) /\ Op(n) # "None"
  <2>1. \A m \in Uses(n) : objs[m].kind # "Unset"
    BY DEF Throws, Kind, Uses, Args, Flow!ArgsOf
  <2> QED
    BY <1>1, <1>2, <2>1, OnStack, OperandsSound
<1>5. faults' # {} /\ library' # "Concrete"
  BY <1>2, <1>4, FaultsShow DEF Fails
<1>6. DeliversUnlessFaulty'
  BY DEF Take, DeliversUnlessFaulty
<1> QED
  BY <1>1, <1>2, <1>3, <1>5, <1>6 DEF IInv

\* Everything but the result stays as it is.
LEMMA ResultStep ==
  ASSUME IInv, UNCHANGED <<library, program, g, faults, t, outdeg, objs, hasErr>>,
         DeliversUnlessFaulty'
  PROVE  IInv'
<1>1. /\ Fixed'
      /\ \A m : Op(m)' = Op(m) /\ Args(m)' = Args(m) /\ Uses(m)' = Uses(m)
      /\ \A m : KindOf(m)' = KindOf(m) /\ Value(m)' = Value(m)
  BY SameProgram DEF IInv, Fixed
<1>2. \A m : Needed(m)' <=> Needed(m)
  BY <1>1 DEF Needed
<1>3. Ordered(t, g, TRUE)' /\ Counted'
  BY DEF IInv, Counted
<1>4. Fresh => Fresh'
  BY <1>1 DEF Fresh
<1>5. Stored => Stored'
  BY <1>1, <1>2 DEF Stored
<1>6. Faultless => Faultless'
  BY <1>1 DEF Faultless
<1> QED
  BY <1>1, <1>3, <1>4, <1>5, <1>6 DEF IInv

\* An exception has a fault or a missing input behind it.
LEMMA ThrowsStep ==
  ASSUME IInv, NEW n \in Node, VisitThrows(n)
  PROVE  IInv'
<1> USE DEF VisitThrows
<1>1. n \in t.todo /\ n \in Node /\ Op(n) # "None" /\ Uses(n) \subseteq t.processed
  BY OnStack DEF Take
<1>2. Fixed /\ hasErr \in BOOLEAN
  BY DEF IInv, Fixed
<1>3. ~(faults = {} /\ AllBound)
  <2>1. CASE hasErr
    BY <2>1 DEF IInv
  <2>2. CASE ~hasErr /\ \E m \in Uses(n) : objs[m].kind = "Unset"
    <3>1. PICK m \in Uses(n) : objs[m].kind = "Unset"
      BY <2>2
    <3>2. Op(m) = "Input"
      BY <1>1, <2>2, <3>1, MissingInput
    <3>3. m \in Flow!ArgsOf(program, n)
      BY DEF Uses
    <3> QED
      BY <1>1, <3>1, <3>2, <3>3 DEF AllBound
  <2>3. CASE ~hasErr /\ \A m \in Uses(n) : objs[m].kind # "Unset"
    <3>1. Sound(n) /\ ~PassedOver(n) /\ Throws(n)
      BY <1>1, <2>3, OperandsSound
    <3> QED
      BY <1>1, <1>2, <3>1, FaultsShow
  <2> QED
    BY <1>2, <2>1, <2>2, <2>3
<1>4. result'.kind # "Delivered"
  BY DEF Flow!Thrown
<1>5. AllBound' = AllBound
  BY DEF AllBound, Op
<1>6. DeliversUnlessFaulty'
  BY <1>3, <1>4, <1>5 DEF DeliversUnlessFaulty
<1> QED
  BY <1>6, ResultStep

\* When the stack is empty, every node has been visited.
LEMMA AllVisited ==
  ASSUME IInv, t.todo = {}
  PROVE  t.processed = g.alive
<1>1. Fixed /\ Ordered(t, g, TRUE)
  BY DEF IInv
<1>2. /\ Regular(g, TRUE) /\ Acyclic(g, TRUE)
      /\ \A n \in Node : Preds(g, TRUE, n) \subseteq g.alive
  BY <1>1, GraphRegular
<1> QED
  BY <1>1, <1>2, EndComplete

\* An execution without an error has all its values at the end.
LEMMA OutputsReady ==
  ASSUME IInv, ~hasErr, t.todo = {}
  PROVE  /\ \A o \in Flow!OutputsOf(program) : objs[o].val = Value(o) /\ Value(o) # Blank
         /\ faults = {} /\ AllBound
<1>1. Fixed /\ Stored /\ Faultless /\ t.processed = g.alive
  BY AllVisited DEF IInv
<1>2. ASSUME NEW o \in Flow!OutputsOf(program)
      PROVE  objs[o].val = Value(o) /\ Value(o) # Blank
  <2>1. o \in Node /\ Op(o) = "Output"
    BY DEF Flow!OutputsOf, Op
  <2>2. o \in g.alive
    BY <1>1, <2>1, GraphRegular DEF Flow!NodesOf, Op
  <2>3. Needed(o)
    BY <2>1 DEF Needed
  <2> QED
    BY <1>1, <2>1, <2>2, <2>3, ValueNotBlank DEF Stored
<1>3. faults = {}
  <2> SUFFICES ASSUME NEW f \in faults PROVE FALSE
    OBVIOUS
  <2>1. f \in Fallible(program)
    BY <1>1 DEF Fixed
  <2>2. PICK n \in Node : n = f[1] /\ Op(n) \in Managing \cup {"Encode", "Div"}
    BY <2>1 DEF Fallible, Op
  <2>3. library \in {"SEAL", "OpenFHE", "Concrete"}
    BY <1>1, <2>2, OpCases
  <2>4. Op(n) # "None"
    BY <2>2, <2>3 DEF Managing, ManagingOps
  <2>5. n \in g.alive
    BY <1>1, <2>4, GraphRegular DEF Flow!NodesOf, Op
  <2> QED
    BY <1>1, <2>2, <2>5 DEF Faultless
<1>4. AllBound
  <2> SUFFICES ASSUME NEW n \in Node, NEW m \in Flow!ArgsOf(program, n)
               PROVE  objs[m].kind # "Unset"
    BY DEF AllBound
  <2>1. m \in Uses(n)
    BY DEF Uses
  <2>2. n \in t.processed
    BY <1>1, <2>1, GraphRegular
  <2> QED
    BY <1>1, <2>1, <2>2 DEF Faultless
<1> QED
  BY <1>2, <1>3, <1>4

\* The three ways in which execute returns.
LEMMA Returned ==
  ASSUME IInv, Finish
  PROVE  \/ /\ hasErr /\ faults # {}
            /\ result' = Flow!Empty
         \/ /\ ~hasErr /\ faults = {} /\ AllBound
            /\ result' = [kind   |-> "Delivered",
                          values |-> [o \in Flow!OutputsOf(program) |-> Value(o)]]
<1> USE DEF Finish
<1>1. hasErr \in BOOLEAN /\ hasErr => faults # {} /\ library # "Concrete"
  BY DEF IInv, Fixed
<1>2. CASE hasErr
  BY <1>1, <1>2
<1>3. CASE ~hasErr
  <2>1. /\ \A o \in Flow!OutputsOf(program) : objs[o].val = Value(o) /\ Value(o) # Blank
        /\ faults = {} /\ AllBound
    BY <1>3, OutputsReady
  <2>2. ~(\E o \in Flow!OutputsOf(program) : objs[o] = Object("Cipher", Blank))
    BY <2>1 DEF Object
  <2>3. result' = [kind   |-> "Delivered",
                   values |-> [o \in Flow!OutputsOf(program) |-> objs[o].val]]
    BY <1>3, <2>2
  <2>4. [o \in Flow!OutputsOf(program) |-> objs[o].val]
          = [o \in Flow!OutputsOf(program) |-> Value(o)]
    BY <2>1
  <2> QED
    BY <1>3, <2>1, <2>3, <2>4
<1> QED
  BY <1>1, <1>2, <1>3

\* A return changes nothing but the result.
LEMMA FinishStep ==
  ASSUME IInv, Finish
  PROVE  IInv'
<1> USE DEF Finish
<1>1. AllBound' = AllBound
  BY DEF AllBound, Op
<1>2. result'.kind = "Delivered" <=> faults = {} /\ AllBound
  BY Returned DEF Flow!Empty
<1>3. DeliversUnlessFaulty'
  BY <1>1, <1>2 DEF DeliversUnlessFaulty
<1> QED
  BY <1>3, ResultStep

\* Every step keeps the invariant.
LEMMA NextInv == IInv /\ [Next]_vars => IInv'
<1> SUFFICES ASSUME IInv, [Next]_vars PROVE IInv'
  OBVIOUS
<1>1. ASSUME NEW n \in Node, VisitPassedOver(n) PROVE IInv'
  BY <1>1, PassedOverStep
<1>2. ASSUME NEW n \in Node, Visit(n) PROVE IInv'
  BY <1>2, VisitStep
<1>3. ASSUME NEW n \in Node, VisitFails(n) PROVE IInv'
  BY <1>3, FailsStep
<1>4. ASSUME NEW n \in Node, VisitThrows(n) PROVE IInv'
  BY <1>4, ThrowsStep
<1>5. CASE Finish
  BY <1>5, FinishStep
<1>6. CASE UNCHANGED vars
  <2>1. DeliversUnlessFaulty'
    BY <1>6 DEF vars, IInv, DeliversUnlessFaulty, AllBound, Op
  <2> QED
    BY <1>6, <2>1, ResultStep DEF vars
<1> QED
  BY <1>1, <1>2, <1>3, <1>4, <1>5, <1>6 DEF Next

\* The inductive invariant holds in every execution of every compiled program.
THEOREM InvHolds == Spec => []IInv
<1> QED
  BY InitInv, NextInv, PTL DEF Spec

(* No operation finds an operand that was worked on in place or moved away *)
(* although it was still to be read.                                       *)
THEOREM OperandsHold == Spec => []OperandsIntact
<1>1. ASSUME IInv PROVE OperandsIntact
  <2> SUFFICES ASSUME ~hasErr, NEW n \in g.alive \ t.processed, NEW i \in DOMAIN Args(n),
                      Args(n)[i] \in t.processed, objs[Args(n)[i]].kind # "Unset"
               PROVE  objs[Args(n)[i]].val = Value(Args(n)[i])
    BY DEF OperandsIntact, Value
  <2>1. Args(n)[i] \in Uses(n)
    BY <1>1, GraphRegular, Shape DEF IInv, Regular
  <2>2. Needed(Args(n)[i])
    BY <2>1 DEF Needed
  <2> QED
    BY <1>1, <2>2 DEF IInv, Stored
<1> QED
  BY <1>1, InvHolds, PTL

(* An execution delivers exactly if no call fails and no input that is     *)
(* used is missing: no failure is lost, and no compiled program is refused.*)
THEOREM DeliversHolds == Spec => []DeliversUnlessFaulty
<1>1. IInv => DeliversUnlessFaulty
  BY DEF IInv
<1> QED
  BY <1>1, InvHolds, PTL

-----------------------------------------------------------------------------
(* The executors implement Dataflow                                        *)

\* An execution begins where Dataflow begins.
LEMMA InitRefined == Init => Flow!Init
<1> SUFFICES ASSUME Init PROVE Flow!Init
  OBVIOUS
<1>1. Fixed
  BY DEF Init, Fixed
<1> QED
  BY <1>1, Shape DEF Init, Begin, Compiled, Flow!Init

\* A visit computes its node.
LEMMA VisitComputes ==
  ASSUME IInv, NEW n \in Node, Take(n), Proceed(n),
         UNCHANGED <<library, program, g, faults, result>>
  PROVE  Flow!Compute(n)
<1>1. n \in t.todo /\ n \in g.alive \ t.processed /\ t'.processed = t.processed \cup {n}
  BY VisitOrdered
<1>2. n \in Flow!NodesOf(program) \ t.processed
  BY <1>1, GraphRegular DEF IInv
<1>3. Flow!ArgsOf(program, n) \subseteq t.processed
  BY <1>1, OnStack DEF Uses
<1> QED
  BY <1>1, <1>2, <1>3 DEF Flow!Compute, Take

\* A step of an executor computes a node, delivers, fails, or is none of Dataflow's.
LEMMA NextRefined == IInv /\ [Next]_vars => [Flow!Next]_(Flow!vars)
<1> SUFFICES ASSUME IInv, [Next]_vars PROVE [Flow!Next]_(Flow!vars)
  OBVIOUS
<1>1. ASSUME NEW n \in Node, VisitPassedOver(n) \/ Visit(n) \/ VisitFails(n)
      PROVE  Flow!Compute(n)
  BY <1>1, VisitComputes DEF VisitPassedOver, Visit, VisitFails
<1>2. ASSUME NEW n \in Node, VisitThrows(n) PROVE Flow!GiveUp
  BY <1>2 DEF VisitThrows, Take, Flow!GiveUp
<1>3. ASSUME Finish PROVE Flow!Deliver \/ Flow!GiveUp
  <2>1. CASE result' = Flow!Empty
    BY <1>3, <2>1 DEF Finish, Flow!GiveUp
  <2>2. CASE result' = [kind   |-> "Delivered",
                        values |-> [o \in Flow!OutputsOf(program) |-> Value(o)]]
    <3>1. t.processed = Flow!NodesOf(program)
      BY <1>3, AllVisited, GraphRegular DEF Finish, IInv
    <3> QED
      BY <1>3, <2>2, <3>1 DEF Finish, Flow!Deliver, Value
  <2> QED
    BY <1>3, <2>1, <2>2, Returned
<1>4. ASSUME UNCHANGED vars PROVE UNCHANGED Flow!vars
  BY <1>4 DEF vars, Flow!vars
<1> QED
  BY <1>1, <1>2, <1>3, <1>4 DEF Next, Flow!Next

(* Every step of an executor is a step of Dataflow or none: each node is   *)
(* computed once and after its operands, and what is delivered is what the *)
(* program means.                                                          *)
THEOREM DataflowImplemented == Spec => Flow!Init /\ [][Flow!Next]_(Flow!vars)
<1> QED
  BY InitRefined, NextRefined, InvHolds, PTL DEF Spec
=============================================================================
