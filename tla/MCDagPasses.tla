---------------------------- MODULE MCDagPasses ----------------------------
(* Model checking of DagPasses.  Every program over an encrypted input and *)
(* a constant with three operations, the last one a sum that feeds an      *)
(* output, and the second one, in half of them, feeding another output;    *)
(* and chains of sums.                                                     *)
EXTENDS DagPasses

\* Plaintexts: the numbers modulo a small prime.
Modulus == 13
MCValues == 0 .. (Modulus - 1)
MCPlus == [x \in MCValues |-> [y \in MCValues |-> (x + y) % Modulus]]
MCTimes == [x \in MCValues |-> [y \in MCValues |-> (x * y) % Modulus]]
MCNegative == [x \in MCValues |-> (Modulus - x) % Modulus]

Empty == [m \in Node |-> 0]
Pair(x, y) == AsBag(<<x, y>>)

\* The operations over earlier nodes 0 .. n - 1.
Operations(n) ==
  {[op |-> name, args |-> Pair(x, y)] :
     name \in Reducible, x \in 0 .. (n - 1), y \in 0 .. (n - 1)}
  \cup {[op |-> "Negate", args |-> One(x)] : x \in 0 .. (n - 1)}

Sums(n) == {o \in Operations(n) : o.op = "Add"}

Make(ops) ==
  [op       |-> [n \in Node |-> IF n \in DOMAIN ops THEN ops[n].op ELSE "None"],
   operands |-> [n \in Node |-> IF n \in DOMAIN ops THEN ops[n].args ELSE Empty],
   type     |-> [n \in Node |-> "Cipher"],
   payload  |-> [n \in Node |-> IF n = 0 THEN 2 ELSE IF n = 1 THEN 5 ELSE 0]]

Leaf(name) == [op |-> name, args |-> Empty]
Out(n) == [op |-> "Output", args |-> One(n)]

Graph(x, y, z, second) ==
  Make([n \in 0 .. (IF second THEN 6 ELSE 5) |->
          CASE n = 0 -> Leaf("Input") [] n = 1 -> Leaf("Constant")
            [] n = 2 -> x [] n = 3 -> y [] n = 4 -> z
            [] n = 5 -> Out(4) [] OTHER -> Out(3)])

\* Chains of four sums: five operands take two levels of pairs.
Chain(x, y, z) ==
  Make([n \in 0 .. 6 |->
          CASE n = 0 -> Leaf("Input") [] n = 1 -> Leaf("Constant")
            [] n = 2 -> x [] n = 3 -> y [] n = 4 -> z
            [] n = 5 -> [op |-> "Add", args |-> Pair(4, 1)] [] OTHER -> Out(5)])

MCChains == {Chain(x, [op |-> "Add", args |-> Pair(2, y)],
                      [op |-> "Add", args |-> Pair(3, z)]) :
               x \in Operations(2), y \in {0, 1}, z \in {0, 3}}

MCPrograms ==
  {Graph(x, y, z, second) :
     x \in Operations(2), y \in Operations(3),
     z \in {s \in Sums(4) : s.args[3] > 0} \cup {[op |-> "Add", args |-> Pair(0, 2)]},
     second \in BOOLEAN}
  \cup MCChains

\* The passes of a decision, constant folding, and the release of the Dag.
MCPasses == <<"Clean", "Type", "Reduce", "Expand", "Type", "Depth", "Clean", "Fold", "Release">>
=============================================================================
