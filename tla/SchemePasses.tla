---------------------------- MODULE SchemePasses ----------------------------
(***************************************************************************)
(* What a scheme adds to a decided Dag before it can run: the transform()  *)
(* of the handlers in seal/alo and openfhe/alo for CKKS and for BFV, one   *)
(* DagTraversal pass after the other and one visit per step, and the       *)
(* checks, parameters and signatures that they derive from the result.     *)
(*                                                                         *)
(*   Rescale       EagerWaterlineRescaler, forward                         *)
(*   Encode        EncodeInserter and PlaintextInserter, forward           *)
(*   Relinearize   LazyRelinearizer, forward                               *)
(*   ModSwitch     ModSwitcher, backward                                   *)
(*   Lower         SEALLowering, forward                                   *)
(*                                                                         *)
(* TypeHandler runs between the passes; it rewrites nothing and its sweep  *)
(* has one result (TypesExact of DagPasses), which StartPass takes over at *)
(* once.  Constants are folded already: no operation has constants only.   *)
(***************************************************************************)
EXTENDS Traversal, Sequences, FiniteSets, FiniteSetsExt, SequencesExt

CONSTANTS
  Programs,   \* decided Dags: [scheme, op, args, next, scale, fixed]
  Modulus,    \* bound: the values that nodes denote are taken modulo this
  Rotation,   \* bound: the RotationAttr of every rotation
  Configs,    \* CKKSConfig or BFVConfig and vec_size: [security, quantum, vec_size]
  StdParms    \* external: [<<security, quantum>> |-> bits for 1024, 2048, ...]

VARIABLES
  start,      \* history: the program
  d,          \* the Dag and its NodeMaps: [op, args, next, type, scale, atScale, atLevel]
  work,       \* the NodeMap of the pass: LazyRelinearizer::pending, ModSwitcher::level
  at,         \* which pass runs
  t           \* its traversal record

vars == <<start, d, work, at, t>>

\* The transform() of each handler.
CkksPasses == <<"Rescale", "Encode", "Relinearize", "ModSwitch", "Lower">>
BfvPasses == <<"Encode", "Relinearize", "ModSwitch", "Lower">>
OpenFheCkksPasses == <<"Encode">>
OpenFheBfvPasses == <<"Encode">>
PassesOf(scheme) ==
  CASE scheme = "seal_ckks"    -> CkksPasses
    [] scheme = "seal_bfv"     -> BfvPasses
    [] scheme = "openfhe_ckks" -> OpenFheCkksPasses
    [] scheme = "openfhe_bfv"  -> OpenFheBfvPasses
InSeal == start.scheme \in {"seal_ckks", "seal_bfv"}
Pass == PassesOf(start.scheme)[at]
Forward(pass) == pass # "ModSwitch"
Compiled == at > Len(PassesOf(start.scheme))

Sums == {"Add", "Sub"}
Rotations == {"RotateLeftConst", "RotateRightConst"}

-----------------------------------------------------------------------------
\* The edges of a Dag in both directions, for the traversal.
Uses(e, m) == {u \in Node : \E i \in DOMAIN e.args[u] : e.args[u][i] = m}
GraphOf(e) ==
  LET times(n, m) == Cardinality({i \in DOMAIN e.args[n] : e.args[n][i] = m}) IN
  [alive    |-> 0 .. (e.next - 1),
   operands |-> [n \in Node |-> [m \in Node |-> times(n, m)]],
   uses     |-> [m \in Node |-> [n \in Node |-> times(n, m)]],
   sources  |-> {n \in 0 .. (e.next - 1) : e.args[n] = <<>>},
   sinks    |-> (0 .. (e.next - 1)) \ UNION {Range(e.args[n]) : n \in Node}]

\* makeNode: the new node is e.next; a NodeMap has no entry for it yet.
Make(e, name, operands) ==
  [e EXCEPT !.op[e.next] = name, !.args[e.next] = operands, !.next = @ + 1]

\* user->replaceOperand(old, new)
ReplaceOperand(e, user, old, new) ==
  [e EXCEPT !.args[user] = [i \in DOMAIN @ |-> IF @[i] = old THEN new ELSE @[i]]]

\* old->replaceOtherUsesWith(new): every use but the new node's own
ReplaceOtherUses(e, old, new) ==
  [e EXCEPT !.args = [u \in Node |-> [i \in DOMAIN @[u] |->
                        IF @[u][i] = old /\ u # new THEN new ELSE @[u][i]]]]

(* What a forward pass leaves in a NodeMap: F computes the entry of a node *)
(* from those of its operands.                                             *)
RECURSIVE Ordered(_, _)
Ordered(e, s) ==
  LET ready == {n \in (0 .. (e.next - 1)) \ Range(s) : Range(e.args[n]) \subseteq Range(s)}
  IN  IF ready = {} THEN s ELSE Ordered(e, s \o SetToSeq(ready))
Sweep(e, default, F(_, _)) ==
  FoldLeft(LAMBDA map, n : [map EXCEPT ![n] = F(map, n)],
           [n \in Node |-> default], Ordered(e, <<>>))

\* TypeHandler
TypesOf(e) ==
  Sweep(e, "Undef", LAMBDA type, n :
    CASE e.op[n] = "Input"    -> "Cipher"
      [] e.op[n] = "Constant" -> "Raw"
      [] e.op[n] = "Encode"   -> "Plain"
      [] OTHER -> IF \E m \in Range(e.args[n]) : type[m] = "Cipher" THEN "Cipher" ELSE "Raw")

Init ==
  /\ start \in Programs
  /\ d = [op |-> start.op, args |-> start.args, next |-> start.next,
          type |-> TypesOf(start), scale |-> start.scale, atScale |-> start.scale,
          atLevel |-> [n \in Node |-> 0]]
  /\ work = [n \in Node |-> 0]
  /\ at = 1
  /\ t = Begin(GraphOf(d), Forward(PassesOf(start.scheme)[1]))

\* ModSwitcher::~ModSwitcher: the level at which a leaf is encrypted or encoded
Levelled(e) ==
  LET top == Max({0} \cup {work[n] : n \in GraphOf(e).sources}) IN
  [e EXCEPT !.atLevel = [n \in Node |->
     IF n < e.next /\ (e.args[n] = <<>> \/ e.op[n] = "Encode") THEN top - work[n] ELSE @[n]]]

(* A pass has ended, TypeHandler runs and the next pass begins.  After the *)
(* last one the handler validates; bfv_handler.cpp does so with the types  *)
(* from before the lowering.                                               *)
StartPass ==
  /\ ~Compiled /\ t.todo = {}
  /\ at' = at + 1
  /\ LET e == IF Pass = "ModSwitch" THEN Levelled(d) ELSE d
     IN  d' = IF start.scheme = "seal_bfv" /\ Pass = "Lower" THEN e
              ELSE [e EXCEPT !.type = TypesOf(e)]
  /\ work' = [n \in Node |-> 0]
  /\ t' = IF at < Len(PassesOf(start.scheme))
          THEN Begin(GraphOf(d'), Forward(PassesOf(start.scheme)[at']))
          ELSE [todo |-> {}, ready |-> {}, processed |-> {}]
  /\ UNCHANGED start

\* The traversal's next node, and what every visit does around its rewriter.
Take(pass, n) == ~Compiled /\ Pass = pass /\ n \in t.todo
Proceed(n) ==
  /\ t' = Advance(t, Forward(Pass), n, GraphOf(d), GraphOf(d'), TRUE)
  /\ UNCHANGED <<start, at>>

-----------------------------------------------------------------------------
\* EagerWaterlineRescaler::m_min_scale, taken when the pass begins
MinScale == Max({start.scale[n] : n \in {m \in Node : start.op[m] \in {"Input", "Constant"}}})

\* insertRescale
InsertRescale(e, n) ==
  LET made == Make(e, "Rescale", <<n>>)
  IN  ReplaceOtherUses([made EXCEPT !.type[e.next] = e.type[n],
                                    !.scale[e.next] = e.scale[n] - start.fixed], n, e.next)

RECURSIVE BelowWaterline(_, _)
BelowWaterline(e, n) ==
  IF e.scale[n] < start.fixed + MinScale THEN e
  ELSE BelowWaterline(InsertRescale(e, n), e.next)

Largest(e, n) == Max({e.scale[e.args[n][i]] : i \in DOMAIN e.args[n]})

\* Fault: only the first operand of a sum is brought up.
LowOperandsFirst(e, n) ==
  {e.args[n][i] : i \in {j \in {1} : e.scale[e.args[n][j]] < Largest(e, n)
                                       /\ e.type[e.args[n][j]] # "Raw"}}

LowOperands(e, n) ==
  {e.args[n][i] : i \in {j \in DOMAIN e.args[n] : e.scale[e.args[n][j]] < Largest(e, n)
                                                    /\ e.type[e.args[n][j]] # "Raw"}}

\* A product with 1 at the missing scale, which the pass visits later.
BroughtUp(e, n, m) ==
  LET missing == Largest(e, n) - e.scale[m]
      one == [Make(e, "Constant", <<>>) EXCEPT !.scale[e.next] = missing,
                                                !.atScale[e.next] = missing]
      mul == [Make(one, "Mul", <<m, e.next>>) EXCEPT !.scale[one.next] = Largest(e, n)]
  IN  ReplaceOperand(mul, n, m, one.next)

Rescaled(e, n) ==
  CASE e.args[n] = <<>> \/ (e.op[n] = "Rescale" /\ e.type[n] # "Raw") -> e
    [] e.args[n] # <<>> /\ e.type[n] = "Raw" -> [e EXCEPT !.scale[n] = Largest(e, n)]
    [] e.op[n] = "Mul" /\ e.type[n] # "Raw" ->
         BelowWaterline([e EXCEPT !.scale[n] = e.scale[e.args[n][1]] + e.scale[e.args[n][2]]], n)
    [] e.op[n] \in Sums /\ e.type[n] # "Raw" ->
         LET up == FoldSet(LAMBDA m, f : BroughtUp(f, n, m), e, LowOperands(e, n))
         IN  [up EXCEPT !.scale[n] = Largest(e, n)]
    [] OTHER -> [e EXCEPT !.scale[n] = e.scale[e.args[n][1]]]

RescaleVisit(n) ==
  /\ Take("Rescale", n)
  /\ d' = Rescaled(d, n)
  /\ UNCHANGED work
  /\ Proceed(n)

-----------------------------------------------------------------------------
\* Fault: the encoding of a summand keeps the scale of the constant.
EncodeScaleOwn(e, n, i, j) == e.scale[e.args[n][i]]

\* insertEncodeNode: a summand is encoded at the scale of the ciphertext.
EncodeScale(e, n, i, j) ==
  IF e.op[n] \in Sums THEN e.scale[e.args[n][j]] ELSE e.scale[e.args[n][i]]

Encoded(e, n, i, j) ==
  LET s == EncodeScale(e, n, i, j)
      made == [Make(e, "Encode", <<e.args[n][i]>>) EXCEPT
                 !.type[e.next] = "Plain", !.scale[e.next] = s, !.atScale[e.next] = s]
  IN  ReplaceOperand(made, n, e.args[n][i], e.next)

\* A raw operand beside a ciphertext is encoded, whichever side it is on.
EncodeVisit(n) ==
  LET raw == {p \in {<<1, 2>>, <<2, 1>>} : /\ Len(d.args[n]) = 2
                                            /\ d.type[d.args[n][p[1]]] = "Raw"
                                            /\ d.type[d.args[n][p[2]]] = "Cipher"}
  IN  /\ Take("Encode", n)
      /\ d' = IF raw = {} THEN d ELSE LET p == CHOOSE q \in raw : TRUE
                                      IN  Encoded(d, n, p[1], p[2])
      /\ UNCHANGED work
      /\ Proceed(n)

-----------------------------------------------------------------------------
\* isEncryptedMultOp
CipherProduct(e, n) ==
  e.op[n] = "Mul" /\ \A i \in DOMAIN e.args[n] : e.type[e.args[n][i]] = "Cipher"

\* Fault: an output is taken for a use that may wait.
MustRelinearizeInside(e, n) ==
  \/ \E u \in Uses(e, n) : CipherProduct(e, u) \/ e.op[u] \in Rotations
  \/ Cardinality(Uses(e, n)) > 1

MustRelinearize(e, n) ==
  \/ \E u \in Uses(e, n) : CipherProduct(e, u) \/ e.op[u] \in Rotations \cup {"Output"}
  \/ Cardinality(Uses(e, n)) > 1

RelinearizeVisit(n) ==
  LET waits == d.args[n] # <<>> /\ (CipherProduct(d, n) \/ work[n] = 1)
      made  == Make(d, "Relinearize", <<n>>)
  IN  /\ Take("Relinearize", n)
      /\ IF waits /\ MustRelinearize(d, n)
         THEN d' = ReplaceOtherUses([made EXCEPT !.type[d.next] = d.type[n],
                                                 !.scale[d.next] = d.scale[n]], n, d.next)
         ELSE d' = d
      /\ work' = [m \in Node |->
           IF \/ waits /\ m = n /\ CipherProduct(d, n)
              \/ waits /\ ~MustRelinearize(d, n) /\ m \in Uses(d, n)
           THEN 1 ELSE work[m]]
      /\ Proceed(n)

-----------------------------------------------------------------------------
(* ModSwitcher: the users of a node that need it at a lower level than the *)
(* topmost one take it through a chain of ModSwitch nodes, one per level.  *)
RECURSIVE Switched(_, _, _, _)
Switched(s, n, temp, level) ==
  LET lower == {u \in Uses(s.d, n) : s.level[u] < s.top /\ u \notin s.served} IN
  IF lower = {} THEN s
  ELSE LET expected == Max({s.level[u] : u \in lower}) IN
       IF level > expected
       THEN LET made == [Make(s.d, "ModSwitch", <<temp>>) EXCEPT !.scale[s.d.next] = s.d.scale[temp]]
            IN  Switched([s EXCEPT !.d = made, !.level[s.d.next] = level,
                                   !.served = @ \cup {s.d.next}], n, s.d.next, level - 1)
       ELSE Switched([s EXCEPT !.d = FoldSet(LAMBDA u, e : ReplaceOperand(e, u, n, temp), s.d,
                                             {u \in lower : s.level[u] = expected})],
                     n, temp, level)

ModSwitchVisit(n) ==
  LET users == Uses(d, n)
      top   == Max({work[u] : u \in users})
      s     == Switched([d |-> d, level |-> work, top |-> top, served |-> {}], n, n, top)
  IN  /\ Take("ModSwitch", n)
      /\ IF users = {} \/ d.type[n] = "Raw" THEN UNCHANGED <<d, work>>
         ELSE /\ d' = s.d
              /\ work' = [s.level EXCEPT ![n] = IF d.op[n] = "Rescale" THEN top + 1 ELSE top]
      /\ Proceed(n)

-----------------------------------------------------------------------------
\* Fault: the difference keeps its sign.
LoweredSameSign(e, n) ==
  ReplaceOtherUses(Make(e, "Add", e.args[n]), n, e.next)

\* SEALLowering: p - c becomes p + (-c); the difference stays, without a use.
Lowered(e, n) ==
  LET negation == Make(e, "Negate", <<e.args[n][2]>>)
      addition == Make(negation, "Add", <<e.args[n][1], e.next>>)
  IN  ReplaceOtherUses(addition, n, negation.next)

LowerVisit(n) ==
  /\ Take("Lower", n)
  /\ d' = IF /\ d.op[n] = "Sub"
             /\ d.type[d.args[n][1]] # "Cipher" /\ d.type[d.args[n][2]] = "Cipher"
          THEN Lowered(d, n) ELSE d
  /\ UNCHANGED work
  /\ Proceed(n)

Next ==
  \/ StartPass
  \/ \E n \in Node : \/ RescaleVisit(n)
                     \/ EncodeVisit(n)
                     \/ RelinearizeVisit(n)
                     \/ ModSwitchVisit(n)
                     \/ LowerVisit(n)

Spec == Init /\ [][Next]_vars

-----------------------------------------------------------------------------
(* validate: three forward passes over the compiled Dag that only fill     *)
(* NodeMaps and warn.                                                      *)
Operands(n) == Range(d.args[n])
Ciphers(n) == {m \in Operands(n) : d.type[m] = "Cipher"}
Skipped(n) == d.type[n] = "Raw" \/ d.op[n] = "Encode"

\* LevelsChecker: the level of the ciphertexts below, one more for Rescale, ModSwitch
Levels ==
  Sweep(d, 0, LAMBDA level, n :
    IF d.args[n] = <<>> THEN d.atLevel[n]
    ELSE (IF Ciphers(n) = {} THEN 0 ELSE level[CHOOSE m \in Ciphers(n) : TRUE])
           + (IF d.op[n] \in {"Rescale", "ModSwitch"} THEN 1 ELSE 0))
LevelsAgree(level) == \A n \in Node : \A l, m \in Ciphers(n) : level[l] = level[m]

\* ParameterChecker: the divisors a ciphertext has gone through, 0 for any prime
Merged(p, q) ==
  IF p = <<>> THEN q
  ELSE [i \in DOMAIN p |-> IF p[i] = 0 /\ i \in DOMAIN q THEN q[i] ELSE p[i]]
Divisors ==
  Sweep(d, <<>>, LAMBDA parms, n :
    CASE Skipped(n)        -> <<>>
      [] d.args[n] = <<>>  -> [i \in 1 .. d.atLevel[n] |-> 0]
      [] OTHER -> FoldSet(LAMBDA m, p : Merged(p, parms[m]), <<>>, Operands(n))
                    \o (CASE d.op[n] = "ModSwitch" -> <<0>>
                          [] d.op[n] = "Rescale"   -> <<start.fixed>>
                          [] OTHER                 -> <<>>))
DivisorsAgree(parms) ==
  \A n \in Node : ~Skipped(n) =>
    \A l, m \in {k \in Operands(n) : parms[k] # <<>>} :
      /\ Len(parms[l]) = Len(parms[m])
      /\ \A i \in DOMAIN parms[l] :
           0 \in {parms[l][i], parms[m][i]} \/ parms[l][i] = parms[m][i]

\* ScalesChecker, from the scales at which leaves are encrypted and encoded
Scales ==
  Sweep(d, 0, LAMBDA scale, n :
    CASE d.op[n] \in {"Input", "Encode"} -> d.atScale[n]
      [] d.type[n] = "Raw"   -> 0
      [] d.op[n] = "Mul"     -> scale[d.args[n][1]] + scale[d.args[n][2]]
      [] d.op[n] = "Rescale" -> scale[d.args[n][1]] - start.fixed
      [] OTHER               -> scale[d.args[n][1]])
ScalesAgree(scale) ==
  \A n \in 0 .. (d.next - 1) : d.type[n] # "Raw" =>
    /\ scale[n] > 0
    /\ d.op[n] \in Sums => \A l, m \in Operands(n) : scale[l] = scale[m]

\* validate() of the two handlers of SEAL
CkksValid == LevelsAgree(Levels) /\ DivisorsAgree(Divisors) /\ ScalesAgree(Scales)
BfvValid == LevelsAgree(Levels) /\ DivisorsAgree(Divisors)

-----------------------------------------------------------------------------
\* Fault: the first output decides, however short its chain.
PrimeBitsFirst(chain, outs, size) ==
  [i \in 1 .. (size \div start.fixed) |-> start.fixed]
    \o Reverse(chain[Max(outs)]) \o <<start.fixed>>

(* EncryptionParametersSelector: primes for the largest output, the        *)
(* divisors of the longest chain of rescales, the last one dropped first,  *)
(* and the prime of the keys.                                              *)
PrimeBits(chain, outs, size) ==
  LET longest == chain[CHOOSE o \in outs : \A q \in outs : Len(chain[q]) <= Len(chain[o])]
      rest    == size % start.fixed
      most    == IF size > start.fixed THEN start.fixed ELSE Max({size} \cup Range(longest))
  IN  (IF size > start.fixed
       THEN [i \in 1 .. (size \div start.fixed) |-> start.fixed]
              \o (IF rest > 0 THEN <<Max({20, rest})>> ELSE <<>>)
       ELSE <<most>>)
        \o Reverse(longest) \o <<most>>

\* isNeedCheckOp and getNodeParms, the estimate of EncryptionParametersSelectorForBfv too
NodeParms(n) ==
  CASE start.scheme = "seal_ckks" /\ d.op[n] = "Rescale" -> <<start.fixed>>
    [] start.scheme = "seal_bfv" /\ d.op[n] = "Mul"      -> <<start.fixed \div 2>>
    [] OTHER                                             -> <<>>

Chains ==
  Sweep(d, <<>>, LAMBDA chain, n :
    IF Skipped(n) \/ d.args[n] = <<>> THEN <<>>
    ELSE chain[CHOOSE m \in Operands(n) : \A k \in Operands(n) : Len(chain[k]) <= Len(chain[m])]
           \o NodeParms(n))

\* m_after_reduction_depth: MultDepthCnt over the Dag that was decided on
Depths(e) ==
  Sweep(e, 0, LAMBDA depth, n :
    IF e.args[n] = <<>> THEN 0
    ELSE Max({depth[m] : m \in Range(e.args[n])})
           + (IF e.op[n] = "Mul" /\ \E m \in Range(e.args[n]) : e.type[m] = "Cipher"
              THEN 1 ELSE 0))
OutputNodes == {n \in Node : d.op[n] = "Output"}
Primes == PrimeBits(Chains, OutputNodes, start.fixed + Max({d.scale[o] : o \in OutputNodes}))

ReductionDepth ==
  LET decided == [op |-> start.op, args |-> start.args, next |-> start.next,
                  type |-> TypesOf(start)]
  IN  Max({Depths(decided)[o] : o \in OutputNodes})

\* RotationKeys
RotationKeys ==
  {IF d.op[n] = "RotateRightConst" THEN 0 - Rotation ELSE Rotation :
     n \in {m \in Node : d.op[m] \in Rotations /\ d.type[m] # "Raw"}}

\* getMinDegreeForBitCount; 0 where it throws
MinDegree(maxBits, bits) ==
  LET enough == {i \in DOMAIN maxBits : maxBits[i] >= bits}
  IN  IF enough = {} THEN 0 ELSE 512 * 2 ^ Min(enough)

\* The degree, raised for a vector that needs more slots than the modulus gives.
Degree(c, primes, perSlot) ==
  LET least == MinDegree(StdParms[<<c.security, c.quantum>>], FoldLeft(+, 0, primes))
  IN  IF least # 0 /\ least \div perSlot < c.vec_size THEN 2 * c.vec_size ELSE least

\* determineEncryptionParameters and determineParameters of the four handlers
CkksParameters(c) ==
  LET primes == Primes
  IN  [prime_bits |-> primes, rotations |-> RotationKeys,
       poly_modulus_degree |-> Degree(c, primes, 2)]
BfvParameters(c) ==
  LET primes == Primes
  IN  [prime_bits |-> primes, rotations |-> RotationKeys,
       poly_modulus_degree |-> Degree(c, primes, 1)]
OpenFheCkksPara(c) ==
  [mult_depth |-> ReductionDepth + 1, rotations |-> RotationKeys, batch_size |-> c.vec_size,
   scaling_mod_size |-> start.fixed - 1, first_mod_size |-> start.fixed]
OpenFheBfvPara(c) ==
  [mult_depth |-> ReductionDepth + 1, rotations |-> RotationKeys, batch_size |-> c.vec_size,
   scaling_mod_size |-> start.fixed]
ParametersFor(c) ==
  CASE start.scheme = "seal_ckks"    -> CkksParameters(c)
    [] start.scheme = "seal_bfv"     -> BfvParameters(c)
    [] start.scheme = "openfhe_ckks" -> OpenFheCkksPara(c)
    [] start.scheme = "openfhe_bfv"  -> OpenFheBfvPara(c)

\* extractSignature: what the owner of an input encrypts it by
Signature ==
  [n \in {m \in Node : d.op[m] = "Input"} |->
     IF InSeal THEN [type |-> d.type[n], scale |-> d.atScale[n], level |-> d.atLevel[n]]
     ELSE [type |-> d.type[n]]]

\* The bits of the modulus that are left at a level; the key prime is not data.
BitsLeft(primes, level) ==
  FoldLeft(LAMBDA sum, bits : sum + bits, 0, SubSeq(primes, 1, Len(primes) - 1 - level))

-----------------------------------------------------------------------------
(* The validation of seal_ckks_handler.cpp stays silent: "this rescaler    *)
(* should be able to handle all programs".  Ciphertexts meet at one level, *)
(* with the same primes dropped and, in sums, at one scale, and no scale   *)
(* is used up.                                                             *)
ValidateSilent ==
  Compiled /\ InSeal => IF start.scheme = "seal_ckks" THEN CkksValid ELSE BfvValid

(* What validate does not look at: an encoding that meets a ciphertext has *)
(* its level and, in a sum, its scale, or the library refuses to combine   *)
(* the two.                                                                *)
EncodesMatch ==
  Compiled /\ start.scheme = "seal_ckks" =>
    LET level == Levels
        scale == Scales
    IN  \A n \in Node : \A p \in {m \in Operands(n) : d.op[m] = "Encode"} : \A c \in Ciphers(n) :
          /\ d.atLevel[p] = level[c]
          /\ d.op[n] \in Sums => d.atScale[p] = scale[c]

(* Lazy as it is, relinearization does not come too late: what is          *)
(* multiplied with a ciphertext, rotated or delivered has two polynomials. *)
RelinearizedInTime ==
  Compiled /\ InSeal =>
    LET size == Sweep(d, 2, LAMBDA f, n :
                  CASE d.args[n] = <<>> \/ d.op[n] \in {"Encode", "Relinearize"} -> 2
                    [] CipherProduct(d, n) -> 3
                    [] OTHER               -> Max({f[m] : m \in Operands(n)}))
    IN  \A n \in Node : CipherProduct(d, n) \/ d.op[n] \in Rotations \cup {"Output"}
          => \A m \in Operands(n) : size[m] = 2

(* The parameters last to the end.  CKKS in SEAL: at every ciphertext more *)
(* bits of the modulus are left than its scale has, at an output as many   *)
(* more as the range that was asked for, and at the level that the         *)
(* signature tells the owner of an input; the degree is standard for such  *)
(* a modulus and its slots hold whole copies of the vector.  OpenFHE: no   *)
(* path has more products than mult_depth.  All: every rotation has its    *)
(* key.                                                                    *)
ModulusLasts ==
  LET primes == Primes
      level  == Levels
      scale  == Scales
  IN  /\ \A n \in {m \in Node : d.type[m] = "Cipher"} :
           BitsLeft(primes, level[n])
             >= scale[n] + (IF d.op[n] = "Output" THEN start.fixed ELSE 1)
      /\ \A n \in DOMAIN Signature :
           Signature[n].type = "Cipher" => Signature[n].level < Len(primes) - 1

DegreeStandard(c) ==
  LET parms  == CkksParameters(c)
      degree == parms.poly_modulus_degree
  IN  degree # 0 =>
        /\ degree >= MinDegree(StdParms[<<c.security, c.quantum>>],
                               FoldLeft(+, 0, parms.prime_bits))
        /\ (degree \div 2) % c.vec_size = 0

ParametersLast ==
  Compiled => \A c \in Configs :
    /\ start.scheme = "seal_ckks" => ModulusLasts /\ DegreeStandard(c)
    /\ ~InSeal => \A n \in Node : Depths(d)[n] <= ParametersFor(c).mult_depth
    /\ \A n \in {m \in Node : d.op[m] \in Rotations /\ d.type[m] = "Cipher"} :
         (IF d.op[n] = "RotateRightConst" THEN 0 - Rotation ELSE Rotation)
           \in ParametersFor(c).rotations

(* No pass changes what an output denotes, and in the end nothing raw      *)
(* meets a ciphertext: only encodings take raw values.                     *)
Combine(name, v) ==
  CASE name = "Add"    -> (v[1] + v[2]) % Modulus
    [] name = "Sub"    -> (v[1] + (Modulus - v[2])) % Modulus
    [] name = "Mul"    -> (v[1] * v[2]) % Modulus
    [] name = "Negate" -> (Modulus - v[1]) % Modulus
    [] name = "RotateLeftConst"  -> (v[1] + Rotation) % Modulus
    [] name = "RotateRightConst" -> (v[1] + (Modulus - Rotation)) % Modulus
    [] OTHER           -> v[1]
Values(e) ==
  Sweep(e, 0, LAMBDA value, n :
    CASE e.args[n] # <<>> -> Combine(e.op[n], [i \in DOMAIN e.args[n] |-> value[e.args[n][i]]])
      [] n < 2            -> 2 + 3 * n
      [] OTHER            -> 1)
ComputesProgram ==
  t.todo = {} =>
    LET values == Values(d)
        first  == Values(start)
    IN  /\ \A o \in OutputNodes : values[o] = first[o]
        /\ Compiled => \A n \in Node : \A m \in Operands(n) :
                         d.type[m] = "Raw" => d.op[n] = "Encode"
=============================================================================
