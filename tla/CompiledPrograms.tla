-------------------------- MODULE CompiledPrograms --------------------------
(***************************************************************************)
(* The graphs that the compile passes hand to an executor: what the        *)
(* executor relies on and does not test.  The checks of SchemePasses       *)
(* establish it for the programs compiled there; the two findings about    *)
(* executors are about graphs without it.                                  *)
(***************************************************************************)
EXTENDS Executor

Leaves == {"None", "Input", "Constant", "U32Constant"}
Arity(name) ==
  CASE name \in Leaves            -> 0
    [] name \in Binary \cup {"Div"} -> 2
    [] OTHER                      -> 1

OpsOf(lib) ==
  IF lib = "Concrete" THEN {"None", "Input"} \cup ConcreteOps
  ELSE {"None", "Input", "Constant", "Encode", "Output"}
         \cup Binary \cup Unary \cup ManagingOps(lib)

WellShaped(lib, p) ==
  /\ DOMAIN p.op = Node /\ DOMAIN p.args = Node
  /\ \A n \in Node : /\ p.op[n] \in OpsOf(lib)
                     /\ p.args[n] \in Seq(Node)
                     /\ Len(p.args[n]) = Arity(p.op[n])

\* Every set of nodes has a member that none of its members is an operand of.
AcyclicProgram(p) ==
  \A S \in SUBSET Node : S # {} => \E n \in S : Flow!ArgsOf(p, n) \cap S = {}

(* raw are the nodes whose value is known without a key: constants and     *)
(* what is computed from nothing else.  The encoding pass has put an       *)
(* encoding before every raw operand of a ciphertext, where Concrete takes *)
(* the number itself.  Left out is what ConcreteExecutor leaves without a  *)
(* value: a division of two numbers, a difference with a number.           *)
Encodings(p) == {n \in Node : p.op[n] = "Encode"}

WellTypedWith(lib, p, raw) ==
  LET plain  == Encodings(p)
      cipher == Node \ (raw \cup plain)
  IN  \A n \in Node :
        LET name == p.op[n]
            args == Flow!ArgsOf(p, n)
        IN  /\ n \in raw <=> \/ name \in {"Constant", "U32Constant"}
                             \/ name # "Encode" /\ args # {} /\ args \subseteq raw
            /\ name \in Binary =>
                 \/ lib # "Concrete" /\ args \subseteq raw
                 \/ /\ args \cap cipher # {}
                    /\ args \cap raw # {} => lib = "Concrete" /\ name # "Sub"
            /\ name = "Div" => args \cap cipher # {}
            /\ name \in Unary => /\ args \cap plain = {}
                                 /\ lib = "Concrete" => args \cap raw = {}
            /\ name \in ManagingOps(lib) => args \subseteq cipher
            /\ name = "Encode" => args \subseteq raw
            /\ name = "Output" => args \cap plain = {}

\* SEAL moves the operand of an output away: nothing else uses it.
OutputsAlone(p) ==
  \A o \in Flow!OutputsOf(p) : \A n \in Node :
    n # o => Flow!ArgsOf(p, o) \cap Flow!ArgsOf(p, n) = {}

Compiled(lib, p) ==
  /\ WellShaped(lib, p)
  /\ Flow!WellFormed(p)
  /\ AcyclicProgram(p)
  /\ \E raw \in SUBSET Node : WellTypedWith(lib, p, raw)
  /\ lib = "SEAL" => OutputsAlone(p)

ASSUME CompiledAssumption ==
  \A lib \in DOMAIN Programs : \A p \in Programs[lib] : Compiled(lib, p)
=============================================================================
