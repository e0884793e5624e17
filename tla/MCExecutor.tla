----------------------------- MODULE MCExecutor -----------------------------
(* Model checking of Executor: every compiled program of the shape         *)
(*                                                                         *)
(*   0 input   1 constant   2 operation on the raw constant                *)
(*   3 encoding of 1 or 2   4, 5 operations on ciphertexts and encodings   *)
(*   6 output of 5          7 a second output, of `second'                 *)
(*                                                                         *)
(* in which every operation is used, as the clean pass leaves it.          *)
EXTENDS Executor

RawOps ==
  {[op |-> name, args |-> <<1, 1>>] : name \in {"Add", "Sub"}}
    \cup {[op |-> "RotateLeftConst", args |-> <<1>>]}

\* Operations on ciphertexts C and the encoding 3, at least one ciphertext.
CipherOps(C) ==
  {[op |-> name, args |-> <<x, y>>] : name \in Binary, x \in C \cup {3}, y \in C}
    \cup {[op |-> name, args |-> <<x, 3>>] : name \in Binary, x \in C}
    \cup {[op |-> name, args |-> <<x>>] : name \in {"Negate", "Relinearize"}, x \in C}

Leaf(name) == [op |-> name, args |-> <<>>]
On(name, m) == [op |-> name, args |-> <<m>>]

Program(nodes) ==
  [op   |-> [n \in Node |-> IF n \in DOMAIN nodes THEN nodes[n].op ELSE "None"],
   args |-> [n \in Node |-> IF n \in DOMAIN nodes THEN nodes[n].args ELSE <<>>]]

Candidates(raw, seconds) ==
  {Program([n \in 0 .. (IF second = 0 THEN 6 ELSE 7) |->
     CASE n = 0 -> Leaf("Input") [] n = 1 -> Leaf("Constant") [] n = 2 -> r
       [] n = 3 -> On("Encode", e) [] n = 4 -> x [] n = 5 -> y
       [] n = 6 -> On("Output", 5) [] OTHER -> On("Output", second)]) :
   r \in raw, e \in {1, 2}, x \in CipherOps({0}), y \in CipherOps({0, 4}),
   second \in seconds}

Users(p, m) == {n \in Node : \E i \in DOMAIN p.args[n] : p.args[n][i] = m}
OutputUsers(p, m) == {n \in Users(p, m) : p.op[n] = "Output"}

Cleaned(p) == \A m \in 0 .. 5 : p.op[m] # "Input" => Users(p, m) # {}

\* Programs in which an output is the only use of its operand.
SoleOutputs(p) == \A m \in Node : OutputUsers(p, m) # {} => Cardinality(Users(p, m)) = 1

(* The programs of Concrete: 0 an input, 1 a constant, 2 and 3 operations, *)
(* 4 the output of 3, 5 a second output.                                   *)
ConcreteCalls(C, names) ==
  {[op |-> name, args |-> <<x, y>>] : name \in names, x \in C \cup {1}, y \in C}
    \cup {[op |-> name, args |-> <<x, 1>>] : name \in names, x \in C}
    \cup {[op |-> name, args |-> <<x>>] : name \in Unary, x \in C}

ConcreteCandidates(names) ==
  {Program([n \in 0 .. (IF second = 0 THEN 4 ELSE 5) |->
     CASE n = 0 -> Leaf("Input") [] n = 1 -> Leaf("U32Constant") [] n = 2 -> x
       [] n = 3 -> y [] n = 4 -> On("Output", 3) [] OTHER -> On("Output", second)]) :
   x \in ConcreteCalls({0}, names), y \in ConcreteCalls({0, 2}, names), second \in {0, 2, 3}}

\* Programs without a difference of a ciphertext and a plain value.
SubsOfCiphers(p) == \A n \in Node : p.op[n] = "Sub" => 1 \notin {p.args[n][1], p.args[n][2]}

SealPrograms == {p \in Candidates(RawOps, {0, 2, 4}) : Cleaned(p) /\ SoleOutputs(p)}

\* Programs in which a ciphertext may be an output and an operand, or two outputs.
SharedPrograms ==
  {p \in Candidates({[op |-> "Add", args |-> <<1, 1>>]}, {0, 4, 5}) : Cleaned(p)}

MCPrograms ==
  [lib \in {"SEAL", "OpenFHE", "Concrete"} |->
     CASE lib = "SEAL"    -> SealPrograms
       [] lib = "OpenFHE" -> SharedPrograms
       [] OTHER -> {p \in ConcreteCandidates({"Add", "Sub", "Mul", "Div"}) : SubsOfCiphers(p)}]

MCSharedPrograms == [lib \in {"SEAL"} |-> SharedPrograms]

MCConcretePrograms == [lib \in {"Concrete"} |-> ConcreteCandidates({"Add", "Sub"})]
=============================================================================
