------------------------------ MODULE Dataflow ------------------------------
(***************************************************************************)
(* What the execution of a compiled Dag promises, whichever library runs   *)
(* it: every node is computed once, after its operands, and either every   *)
(* output is delivered with the value that the program denotes, or nothing *)
(* is.  How results are stored, and whose storage is reused, is left to    *)
(* the executors.                                                          *)
(***************************************************************************)
EXTENDS Naturals, Sequences

CONSTANT Node

VARIABLES
  program,    \* the compiled Dag, of any shape: op and args of every node
  done,       \* the nodes computed so far
  result      \* what the caller gets: [kind, values]

vars == <<program, done, result>>

NodesOf(p) == {n \in Node : p.op[n] # "None"}
ArgsOf(p, n) == {p.args[n][i] : i \in DOMAIN p.args[n]}
OutputsOf(p) == {n \in Node : p.op[n] = "Output"}
InputsOf(p) == {n \in Node : p.op[n] = "Input"}

(* An operand is a node of the program, and an output is nobody's operand. *)
WellFormed(p) ==
  \A n \in Node : ArgsOf(p, n) \subseteq NodesOf(p) \ OutputsOf(p)

(* The value of an operation, as a term: sums and products commute, a      *)
(* difference is a sum with a negation, and the operations that manage a   *)
(* ciphertext (Encode, Relinearize, Rescale, ModSwitch) keep its value.    *)
Apply(name, v) ==
  CASE name \in {"Add", "Mul"} -> <<name, {v[1], v[2]}>>
    [] name = "Sub" -> <<"Add", {v[1], <<"Negate", v[2]>>}>>
    [] name = "Div" -> <<name, v[1], v[2]>>
    [] name \in {"Negate", "RotateLeftConst", "RotateRightConst"} -> <<name, v[1]>>
    [] OTHER -> v[1]

Meaning(p) ==
  LET val[n \in Node] ==
        IF p.args[n] = <<>> THEN <<"Leaf", n>>
        ELSE Apply(p.op[n], [i \in DOMAIN p.args[n] |-> val[p.args[n][i]]])
  IN  val

Pending == [kind |-> "Pending", values |-> <<>>]
Empty   == [kind |-> "Empty", values |-> <<>>]     \* returned without outputs
Thrown  == [kind |-> "Thrown", values |-> <<>>]    \* left by an exception

Init ==
  /\ WellFormed(program)
  /\ done = {}
  /\ result = Pending

Compute(n) ==
  /\ result = Pending
  /\ n \in NodesOf(program) \ done
  /\ ArgsOf(program, n) \subseteq done
  /\ done' = done \cup {n}
  /\ UNCHANGED <<program, result>>

Deliver ==
  /\ result = Pending
  /\ done = NodesOf(program)
  /\ result' = [kind   |-> "Delivered",
                values |-> [o \in OutputsOf(program) |-> Meaning(program)[o]]]
  /\ UNCHANGED <<program, done>>

GiveUp ==
  /\ result = Pending
  /\ result' \in {Empty, Thrown}
  /\ UNCHANGED <<program, done>>

Next == (\E n \in Node : Compute(n)) \/ Deliver \/ GiveUp

Spec == Init /\ [][Next]_vars /\ WF_vars(Next)
=============================================================================
