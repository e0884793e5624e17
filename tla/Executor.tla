------------------------------ MODULE Executor ------------------------------
(***************************************************************************)
(* The run of a compiled Dag: SEALExecutor (seal/comm/seal_executor.h),    *)
(* OpenfheExecutor (openfhe/comm/openfhe_executor.h) and ConcreteExecutor  *)
(* (concrete/concrete_executor.h) as the rewriter of a forward pass, and   *)
(* the execute() that drives them.                                         *)
(*                                                                         *)
(* Every node owns a runtime object.  SEALExecutor counts the uses of each *)
(* node that are still to come and, when it takes the last one, lets the   *)
(* library work in place and moves the operand's object to the result.     *)
(* ConcreteExecutor has no error flag: what it does not accept throws, or  *)
(* leaves the result without a value.                                      *)
(***************************************************************************)
EXTENDS Traversal, Sequences, FiniteSets

CONSTANT
  Programs    \* for each library, the graphs compiled for it: [op, args]

ASSUME LibraryAssumption == DOMAIN Programs \subseteq {"SEAL", "OpenFHE", "Concrete"}

VARIABLES
  library,    \* the library that the program was compiled for
  program,
  g,          \* the graph record of GraphOps
  faults,     \* external: the library calls that fail, as <<node, how>>
  t,          \* the traversal record
  outdeg,     \* m_index2out
  objs,       \* m_objects: [kind, val]
  hasErr,     \* m_has_err
  result      \* what execute returns, as in Dataflow

vars == <<library, program, g, faults, t, outdeg, objs, hasErr, result>>

\* The abstract specification this module implements.
Flow == INSTANCE Dataflow WITH done <- t.processed

Binary == {"Add", "Sub", "Mul"}
Unary == {"Negate", "RotateLeftConst", "RotateRightConst"}
ManagingOps(lib) == CASE lib = "SEAL"    -> {"Relinearize", "Rescale", "ModSwitch"}
                      [] lib = "OpenFHE" -> {"Relinearize", "Rescale"}
                      [] OTHER           -> {}
Managing == ManagingOps(library)

\* The cases of ConcreteExecutor's switch; every other operation is passed over.
ConcreteOps == Binary \cup Unary \cup {"Div", "U32Constant", "Output"}

\* The operations that hand ciphertexts to the library.
Calls == Binary \cup Unary \cup Managing \cup {"Div"}

\* The content of an object that was moved from, or only default constructed.
Blank == <<"Blank">>
Object(kind, val) == [kind |-> kind, val |-> val]
Unset == Object("Unset", Blank)

Op(n) == program.op[n]
Args(n) == program.args[n]
Kind(n, i) == objs[Args(n)[i]].kind
Vals(n) == [i \in DOMAIN Args(n) |-> objs[Args(n)[i]].val]

-----------------------------------------------------------------------------
Occurrences(s, m) == Cardinality({i \in DOMAIN s : s[i] = m})

GraphOf(p) ==
  [alive    |-> Flow!NodesOf(p),
   operands |-> [n \in Node |-> [m \in Node |-> Occurrences(p.args[n], m)]],
   uses     |-> [m \in Node |-> [n \in Node |-> Occurrences(p.args[n], m)]],
   sources  |-> {n \in Flow!NodesOf(p) : p.args[n] = <<>>},
   sinks    |-> {n \in Flow!NodesOf(p) : \A u \in Node : Occurrences(p.args[u], n) = 0}]

\* Library calls that may fail: an encoding reports an error or throws, a
\* division by a plain zero and the rest throw.
Fallible(p) ==
  {n \in Node : \/ p.op[n] \in Managing \cup {"Encode"}
                \/ p.op[n] = "Div" /\ p.op[p.args[n][2]] = "U32Constant"} \X {"Throw"}
    \cup {n \in Node : p.op[n] = "Encode"} \X {"Err"}

(* The constructor's NodeDegreeCnt pass, and setInputs with the inputs     *)
(* that the caller encrypted.                                              *)
OutDegree(p, S, m) ==
  Cardinality({use \in S \X (1 .. 2) :
                 use[2] \in DOMAIN p.args[use[1]] /\ p.args[use[1]][use[2]] = m})

Init ==
  /\ library \in DOMAIN Programs
  /\ program \in Programs[library]
  /\ g = GraphOf(program)
  /\ \E bound \in SUBSET Flow!InputsOf(program) :
       objs = [n \in Node |-> IF n \in bound THEN Object("Cipher", <<"Leaf", n>>)
                              ELSE Unset]
  /\ faults \in {{}} \cup {{f} : f \in Fallible(program)}
  /\ t = Begin(g, TRUE)
  /\ outdeg = [m \in Node |-> OutDegree(program, g.alive, m)]
  /\ hasErr = FALSE
  /\ result = Flow!Pending

-----------------------------------------------------------------------------
AllRaw(n) == \A i \in DOMAIN Args(n) : Kind(n, i) = "Raw"
NoRaw(n) == \A i \in DOMAIN Args(n) : Kind(n, i) # "Raw"
SomeCipher(n) == \E i \in DOMAIN Args(n) : Kind(n, i) = "Cipher"

\* The type checks of operator(); a Sub of two plaintexts passes them.
WellTyped(n) ==
  CASE Op(n) \in {"Add", "Mul"} -> AllRaw(n) \/ (NoRaw(n) /\ SomeCipher(n))
    [] Op(n) = "Sub"            -> AllRaw(n) \/ NoRaw(n)
    [] Op(n) \in Unary          -> Kind(n, 1) # "Plain"
    [] Op(n) \in Managing       -> Kind(n, 1) = "Cipher"
    [] Op(n) = "Encode"         -> Kind(n, 1) = "Raw"
    [] OTHER                    -> Op(n) \in {"Constant", "Output"}

\* What ConcreteExecutor accepts.  The test of a Sub that chooses between a
\* ciphertext and a plain minuend looks at the subtrahend: the minuend has to be
\* a ciphertext unless the subtrahend is plain.
ConcreteAccepts(n) ==
  CASE Op(n) \in {"Add", "Mul"} -> SomeCipher(n)
    [] Op(n) = "Sub"            -> Kind(n, 2) = "Cipher" => Kind(n, 1) = "Cipher"
    [] Op(n) \in Unary          -> Kind(n, 1) = "Cipher"
    [] OTHER                    -> TRUE

Accepts(n) == IF library = "Concrete" THEN ConcreteAccepts(n) ELSE WellTyped(n)

\* A Sub by a plain value and a Div of two plain values compute nothing.
ConcreteSkips(n) ==
  /\ library = "Concrete"
  /\ \/ Op(n) = "Sub" /\ Kind(n, 2) # "Cipher"
     \/ Op(n) = "Div" /\ ~SomeCipher(n)

\* bin_op_raw compares the sizes; a moved-from vector has none.
SizesDiffer(n) ==
  /\ Op(n) \in Binary /\ AllRaw(n)
  /\ \E i, j \in DOMAIN Args(n) : Vals(n)[i] = Blank /\ Vals(n)[j] # Blank

\* An object without a value (optional::value), a variant that holds the other
\* kind (std::get), or the library refusing a call.
Throws(n) ==
  \/ \E i \in DOMAIN Args(n) : Kind(n, i) = "Unset"
  \/ library = "Concrete" /\ ~ConcreteAccepts(n)
  \/ Accepts(n) /\ <<n, "Throw">> \in faults
  \/ /\ Accepts(n) /\ ~ConcreteSkips(n) /\ Op(n) \in Calls
     /\ \E i \in DOMAIN Args(n) : Kind(n, i) = "Cipher" /\ Vals(n)[i] = Blank

Fails(n) ==
  library # "Concrete" /\ (~WellTyped(n) \/ SizesDiffer(n) \/ <<n, "Err">> \in faults)

\* Rotating an empty vector never ends: the shift is reduced by zero.
Hangs(n) ==
  /\ library # "Concrete"
  /\ Op(n) \in {"RotateLeftConst", "RotateRightConst"} /\ AllRaw(n) /\ Vals(n)[1] = Blank

-----------------------------------------------------------------------------
\* Fault: the object is reused one use too early.
InPlaceEarly(n, i) ==
  outdeg[Args(n)[i]] <= Occurrences(SubSeq(Args(n), 1, i), Args(n)[i]) + 1

\* vec_agr_inplace[i]: the count has run out when operand i has been counted down.
InPlace(n, i) ==
  outdeg[Args(n)[i]] = Occurrences(SubSeq(Args(n), 1, i), Args(n)[i])

(* The operand, if any, whose object is moved to the result.  A sum or a   *)
(* product may take either ciphertext, the first one before the second; a  *)
(* difference only the first; an output always takes its operand.          *)
Reusable(n) == {i \in DOMAIN Args(n) : InPlace(n, i) /\ Kind(n, i) = "Cipher"}
Donor(n) ==
  IF library # "SEAL" THEN {}
  ELSE CASE Op(n) = "Output" -> {1}
         [] Op(n) \in {"Add", "Mul"} ->
              {i \in Reusable(n) : \A j \in Reusable(n) : i <= j}
         [] Op(n) \in {"Sub"} \cup Unary \cup Managing -> Reusable(n) \cap {1}
         [] OTHER -> {}

\* Fault: sub_inplace on the second operand subtracts the wrong way round.
ComputedReversed(n) ==
  CASE Op(n) \in {"Constant", "U32Constant"} -> Object("Raw", <<"Leaf", n>>)
    [] Op(n) = "Encode"   -> Object("Plain", Vals(n)[1])
    [] Op(n) = "Output"   -> objs[Args(n)[1]]
    [] Op(n) = "Sub"      -> Object("Cipher", Flow!Apply("Sub", <<Vals(n)[2], Vals(n)[1]>>))
    [] OTHER -> Object(IF AllRaw(n) THEN "Raw" ELSE "Cipher", Flow!Apply(Op(n), Vals(n)))

Computed(n) ==
  CASE Op(n) \in {"Constant", "U32Constant"} -> Object("Raw", <<"Leaf", n>>)
    [] Op(n) = "Encode" -> Object("Plain", Vals(n)[1])
    [] Op(n) = "Output" -> objs[Args(n)[1]]
    [] ConcreteSkips(n) -> Object("Cipher", Blank)
    [] OTHER -> Object(IF AllRaw(n) THEN "Raw" ELSE "Cipher",
                       IF (AllRaw(n) /\ Vals(n)[1] = Blank) \/ (~AllRaw(n) /\ ~SomeCipher(n))
                       THEN Blank ELSE Flow!Apply(Op(n), Vals(n)))

CountedDown(n) == [m \in Node |-> outdeg[m] - g.operands[n][m]]

\* The traversal's next node.
Take(n) == result = Flow!Pending /\ n \in t.todo
Proceed(n) == t' = Advance(t, TRUE, n, g, g, TRUE)

\* Nothing to do: an input has its object, and Concrete warns and returns.
PassedOver(n) == Op(n) = "Input" \/ (library = "Concrete" /\ Op(n) \notin ConcreteOps)

VisitPassedOver(n) ==
  /\ Take(n) /\ ~hasErr /\ PassedOver(n)
  /\ Proceed(n)
  /\ UNCHANGED <<library, program, g, faults, outdeg, objs, hasErr, result>>

Visit(n) ==
  /\ Take(n) /\ ~hasErr /\ ~PassedOver(n)
  /\ ~Throws(n) /\ ~Fails(n) /\ ~Hangs(n)
  /\ outdeg' = CountedDown(n)
  /\ LET moved == {Args(n)[i] : i \in Donor(n)}
     IN  objs' = [m \in Node |-> IF m = n THEN Computed(n)
                                 ELSE IF m \in moved THEN Object(objs[m].kind, Blank)
                                 ELSE objs[m]]
  /\ Proceed(n)
  /\ UNCHANGED <<library, program, g, faults, hasErr, result>>

\* Fault: the error of an encoding is not recorded.
VisitFailsSilently(n) ==
  /\ Take(n) /\ ~hasErr /\ ~PassedOver(n)
  /\ ~Throws(n) /\ Fails(n)
  /\ outdeg' = CountedDown(n)
  /\ objs' = IF WellTyped(n)
             THEN [objs EXCEPT ![n] = Object(Computed(n).kind, Blank)] ELSE objs
  /\ Proceed(n)
  /\ UNCHANGED <<library, program, g, faults, hasErr, result>>

(* SEAL_EXE_CHECK_ERROR: the visit returns, the traversal goes on.  A      *)
(* failed encoding and a failed raw operation have made their object.      *)
VisitFails(n) ==
  /\ Take(n) /\ ~hasErr /\ ~PassedOver(n)
  /\ ~Throws(n) /\ Fails(n)
  /\ hasErr' = TRUE
  /\ outdeg' = CountedDown(n)
  /\ objs' = IF WellTyped(n)
             THEN [objs EXCEPT ![n] = Object(Computed(n).kind, Blank)] ELSE objs
  /\ Proceed(n)
  /\ UNCHANGED <<library, program, g, faults, result>>

\* An exception leaves execute: at the node after a failure, or from a call.
VisitThrows(n) ==
  /\ Take(n)
  /\ hasErr \/ (~PassedOver(n) /\ Throws(n))
  /\ result' = Flow!Thrown
  /\ UNCHANGED <<library, program, g, faults, t, outdeg, objs, hasErr>>

\* execute after the pass: IsErr, then getOutputs, in which Concrete refuses an
\* output without a value
Finish ==
  /\ result = Flow!Pending /\ t.todo = {}
  /\ result' = CASE hasErr -> Flow!Empty
                 [] /\ library = "Concrete"
                    /\ \E o \in Flow!OutputsOf(program) : objs[o] = Object("Cipher", Blank)
                    -> Flow!Thrown
                 [] OTHER -> [kind   |-> "Delivered",
                       values |-> [o \in Flow!OutputsOf(program) |-> objs[o].val]]
  /\ UNCHANGED <<library, program, g, faults, t, outdeg, objs, hasErr>>

Next ==
  \/ \E n \in Node : \/ VisitPassedOver(n)
                     \/ Visit(n)
                     \/ VisitFails(n)
                     \/ VisitThrows(n)
  \/ Finish

\* One thread runs the pass to its end.
Spec == Init /\ [][Next]_vars /\ WF_vars(Next)

-----------------------------------------------------------------------------
(* The executor computes what the program says: each node once and after   *)
(* its operands, then all outputs with the values they denote or none at   *)
(* all, in spite of the objects it reuses; and it always comes to an end.  *)
Implements == Flow!Spec

(* No object is worked on in place, or moved away, while an operation that *)
(* is still to be visited needs it: until then it holds its node's value.  *)
OperandsIntact ==
  result = Flow!Pending /\ ~hasErr =>
    \A n \in g.alive \ t.processed : \A i \in DOMAIN Args(n) :
      LET m == Args(n)[i] IN
      m \in t.processed /\ objs[m].kind # "Unset" =>
        objs[m].val = Flow!Meaning(program)[m]

(* A failure is never lost, although a visit that fails only sets a flag   *)
(* that the next visit, or execute, looks at; and nothing but a failing    *)
(* call or a missing input that some node uses makes an execution fail:    *)
(* the type checks accept every compiled program, in every order.          *)
AllBound == \A n \in Node : \A m \in Flow!ArgsOf(program, n) :
              Op(m) = "Input" => objs[m].kind # "Unset"
DeliversUnlessFaulty ==
  result # Flow!Pending =>
    (result.kind = "Delivered" <=> faults = {} /\ AllBound)

(* iyfc_include.h on setOutput: "Calling this function multiple times can  *)
(* create multiple output nodes" that each hold "The expression associated *)
(* with the output node".                                                  *)
EveryOutputDelivered ==
  result.kind = "Delivered" =>
    \A o \in Flow!OutputsOf(program) : result.values[o] = Flow!Meaning(program)[o]

(* concrete_executor.h on the operands of a Sub: "assert(isCipher(args[0]) *)
(* || isPlain(args[0]))", and the same of args[1]: either may be plain.    *)
DifferencesDelivered ==
  result # Flow!Pending /\ faults = {} /\ AllBound => result.kind = "Delivered"
=============================================================================
