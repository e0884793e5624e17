-------------------------- MODULE AloChoice_proofs --------------------------
(***************************************************************************)
(* What the comparison in setAloName decides, at every scale and for every *)
(* depth, and what a choice of SEAL guarantees after any sequence of calls.*)
(***************************************************************************)
EXTENDS AloChoice, TLAPS

\* Multiplying keeps the order, also the strict one.
LEMMA TimesMonotonic ==
  ASSUME NEW a \in Nat, NEW b \in Nat, NEW c \in Nat
  PROVE  /\ a <= b => a * c <= b * c
         /\ a < b /\ 0 < c => a * c < b * c
  BY SMT

\* Dividing gives the largest factor that stays below.
LEMMA QuotientIsLargest ==
  ASSUME NEW m \in Nat, NEW s \in Nat, s > 0, NEW k \in Nat
  PROVE  /\ m \div s \in Nat
         /\ k <= m \div s <=> k * s <= m
<1> DEFINE q == m \div s
<1>1. q \in Nat /\ q * s <= m /\ m < (q + 1) * s
  BY SMT
<1> HIDE DEF q
<1>2. k <= q => k * s <= q * s
  BY <1>1, TimesMonotonic
<1>3. ASSUME ~(k <= q) PROVE (q + 1) * s <= k * s
  <2>1. q + 1 \in Nat /\ q + 1 <= k
    BY <1>1, <1>3
  <2> QED
    BY <2>1, TimesMonotonic
<1>4. k * s \in Nat /\ q * s \in Nat /\ (q + 1) * s \in Nat
  BY <1>1, SMT
<1>5. k <= q <=> k * s <= m
  BY <1>1, <1>2, <1>3, <1>4
<1> QED
  BY <1>1, <1>5 DEF q

LEMMA Numbers ==
  /\ MaxSealBits \in Nat /\ DefaultQCnt \in Nat /\ DefaultScale \in Nat
  /\ ReduceScale \in Nat /\ ReduceScale < Word /\ DefaultQCnt < Word /\ Word \in Nat
  BY DEF MaxSealBits, DefaultQCnt, DefaultScale, ReduceScale, Word

\* A difference of two uint32_t is one.
LEMMA DifferenceType ==
  ASSUME NEW a \in Nat, NEW b \in Nat, b < Word
  PROVE  Difference(a, b) \in Nat
  BY Numbers DEF Difference

-----------------------------------------------------------------------------
(* As long as the modulus holds the reserved primes, the comparison of     *)
(* alo_decision.cpp:62 is exact: a depth passes it if and only if the bits *)
(* that it needs at that scale are there.                                  *)
THEOREM DepthTestExact ==
  ASSUME NEW s \in Nat, s > 0, NEW depth \in Nat, DefaultQCnt <= MaxSealBits \div s
  PROVE  depth <= MaxDepthForSeal(s) <=> BitsNeeded(depth, s) <= MaxSealBits
<1> DEFINE q == MaxSealBits \div s
           k == depth + DefaultQCnt
<1>1. k \in Nat /\ q \in Nat /\ (k <= q <=> k * s <= MaxSealBits)
  BY Numbers, QuotientIsLargest
<1>2. MaxDepthForSeal(s) = q - DefaultQCnt
  BY <1>1, Numbers DEF MaxDepthForSeal, Difference
<1>3. depth <= q - DefaultQCnt <=> k <= q
  <2> HIDE DEF q
  <2> QED
    BY <1>1, Numbers
<1> QED
  BY <1>1, <1>2, <1>3 DEF BitsNeeded

(* Beyond that scale the subtraction wraps: every depth a program can have *)
(* passes, and none of them fits.                                          *)
THEOREM DepthTestWraps ==
  ASSUME NEW s \in Nat, s > 0, NEW depth \in Nat, depth <= Word - DefaultQCnt,
         MaxSealBits \div s < DefaultQCnt
  PROVE  depth <= MaxDepthForSeal(s) /\ BitsNeeded(depth, s) > MaxSealBits
<1> DEFINE q == MaxSealBits \div s
           k == depth + DefaultQCnt
<1>1. k \in Nat /\ q \in Nat /\ (k <= q <=> k * s <= MaxSealBits)
  BY Numbers, QuotientIsLargest
<1> HIDE DEF q
<1>2. q < DefaultQCnt /\ DefaultQCnt <= k
  BY <1>1, Numbers DEF q
<1>3. BitsNeeded(depth, s) > MaxSealBits
  <2>1. BitsNeeded(depth, s) = k * s /\ k * s \in Nat
    BY <1>1, SMT DEF BitsNeeded
  <2> HIDE DEF k
  <2> QED
    BY <1>1, <1>2, <2>1, Numbers
<1>4. MaxDepthForSeal(s) = Difference(q, DefaultQCnt)
  BY DEF MaxDepthForSeal, q
<1>5. depth <= Difference(q, DefaultQCnt)
  BY <1>1, <1>2, Numbers DEF Difference
<1> QED
  BY <1>3, <1>4, <1>5

-----------------------------------------------------------------------------
\* A scale is a number, whatever is done to it.
ScaleInv ==
  /\ scale \in [Dags -> Nat]
  /\ members \subseteq Child

LEMMA InitScales == Init => ScaleInv
  BY Numbers DEF Init, ScaleInv

LEMMA NextScales == ScaleInv /\ [Next]_vars => ScaleInv'
<1> SUFFICES ASSUME ScaleInv, [Next]_vars PROVE ScaleInv'
  OBVIOUS
<1> USE DEF ScaleInv
<1>1. ASSUME NEW c \in Child, Join(c) PROVE ScaleInv'
  <2>1. c \in Dags /\ scale[c] \in Nat
    BY DEF Dags
  <2>2. Difference(scale[c], ReduceScale) \in Nat
    BY <2>1, Numbers, DifferenceType
  <2> QED
    BY <1>1, <2>1, <2>2 DEF Join
<1>2. ASSUME NEW d \in Dags, NEW s \in Scales, SetScale(d, s) PROVE ScaleInv'
  BY <1>2 DEF SetScale
<1>3. ASSUME NEW c \in Child, AddDag(c) PROVE ScaleInv'
  <2>1. c \in Dags
    BY DEF Dags
  <2> QED
    BY <1>3, <2>1 DEF AddDag
<1>4. CASE UNCHANGED <<scale, members>>
  BY <1>4
<1> QED
  BY <1>1, <1>2, <1>3, <1>4
  DEF Next, MakeInt64Constant, Divide, Decide, DecideGroup, vars

-----------------------------------------------------------------------------
\* The name of a choice that SEAL is to execute bounds the depth.
LEMMA NameBounds ==
  ASSUME NEW isShort \in BOOLEAN, NEW isInt64 \in BOOLEAN, NEW depth \in Nat, NEW s \in Nat,
         AloName(isShort, isInt64, depth, s) \in {"seal_ckks", "seal_bfv"},
         DefaultQCnt <= MaxSealBits \div s
  PROVE  s > 0 /\ BitsNeeded(depth, s) <= MaxSealBits
<1>1. s > 0 /\ ~(depth > MaxDepthForSeal(s))
  BY DEF AloName
<1>2. MaxDepthForSeal(s) \in Nat
  BY <1>1, Numbers, QuotientIsLargest, DifferenceType DEF MaxDepthForSeal
<1> QED
  BY <1>1, <1>2, DepthTestExact

\* A smaller depth at a smaller scale needs fewer bits.
LEMMA BitsMonotonic ==
  ASSUME NEW j \in Nat, NEW k \in Nat, j <= k, NEW r \in Nat, NEW s \in Nat, r <= s
  PROVE  BitsNeeded(j, r) <= BitsNeeded(k, s)
<1> DEFINE a == j + DefaultQCnt
           b == k + DefaultQCnt
<1>1. a \in Nat /\ b \in Nat /\ a <= b
  BY Numbers
<1> HIDE DEF a, b
<1>2. a * r <= b * r /\ r * b <= s * b
  BY <1>1, TimesMonotonic
<1>3. a * r \in Nat /\ b * r \in Nat /\ b * s \in Nat /\ r * b = b * r /\ s * b = b * s
  BY <1>1, SMT
<1>4. a * r <= b * s
  BY <1>2, <1>3
<1> QED
  BY <1>4 DEF BitsNeeded, a, b

(* The flags are Booleans, which the case distinction of setAloName needs. *)
FlagInv == short \in [Dags -> BOOLEAN] /\ int64 \in [Dags -> BOOLEAN]

LEMMA InitFlags == Init => FlagInv
  BY DEF Init, FlagInv

LEMMA NextFlags == ScaleInv /\ FlagInv /\ [Next]_vars => FlagInv'
<1> SUFFICES ASSUME ScaleInv, FlagInv, [Next]_vars PROVE FlagInv'
  OBVIOUS
<1> USE DEF FlagInv
<1>1. ASSUME NEW c \in Child, MakeInt64Constant(c) PROVE FlagInv'
  BY <1>1 DEF MakeInt64Constant
<1>2. ASSUME NEW c \in Child, Divide(c) PROVE FlagInv'
  BY <1>2 DEF Divide
<1>3. CASE DecideGroup
  <2>1. PICK last \in Dags : /\ short' = [short EXCEPT ![Group] = short[last]]
                             /\ int64' = [int64 EXCEPT ![Group] = int64[last]]
    BY <1>3 DEF DecideGroup, ScaleInv, Dags
  <2>2. short[last] \in BOOLEAN /\ int64[last] \in BOOLEAN
    OBVIOUS
  <2> QED
    BY <2>1, <2>2
<1>4. CASE UNCHANGED <<short, int64>>
  BY <1>4
<1> QED
  BY <1>1, <1>2, <1>3, <1>4 DEF Next, Join, SetScale, AddDag, Decide, vars

-----------------------------------------------------------------------------
LEMMA DecideFits ==
  ASSUME ScaleInv, FlagInv, NEW c \in Child, Decide(c)
  PROVE  FitsAtItsScale'
<1>1. PICK depth \in 0 .. MaxDepth :
        choice' = [name |-> AloName(short[c], int64[c], depth, scale[c]),
                   at |-> scale[c],
                   depth |-> [d \in {c} |-> depth], scale |-> [d \in {c} |-> scale[d]]]
  BY DEF Decide
<1>2. /\ choice'.name = AloName(short[c], int64[c], depth, scale[c])
      /\ choice'.at = scale[c]
      /\ DOMAIN choice'.depth = {c}
      /\ choice'.depth[c] = depth /\ choice'.scale[c] = scale[c]
  BY <1>1
<1>3. /\ short[c] \in BOOLEAN /\ int64[c] \in BOOLEAN
      /\ scale[c] \in Nat /\ depth \in Nat
  BY DEF ScaleInv, FlagInv, Dags
<1> QED
  BY <1>2, <1>3, NameBounds DEF FitsAtItsScale

(* A group is decided at its own scale, for the deepest child.             *)
LEMMA GroupFits ==
  ASSUME ScaleInv, FlagInv, DecideGroup
  PROVE  FitsAtItsScale'
<1>1. PICK depth \in [members -> 0 .. MaxDepth],
           last \in IF members = {} THEN {Group} ELSE members,
           most \in 0 .. MaxDepth :
        /\ \A c \in members : depth[c] <= most
        /\ choice' = [name |-> AloName(short[last], int64[last], most, scale[Group]),
                      at |-> scale[Group],
                      depth |-> depth, scale |-> [d \in members |-> scale[d]]]
  BY DEF DecideGroup
<1>2. members \subseteq Dags /\ last \in Dags /\ Group \in Dags
  BY DEF ScaleInv, Dags
<1>3. /\ choice'.name = AloName(short[last], int64[last], most, scale[Group])
      /\ choice'.at = scale[Group]
      /\ DOMAIN choice'.depth = members
      /\ \A d \in members : choice'.depth[d] = depth[d] /\ choice'.scale[d] = scale[d]
  BY <1>1
<1>4. /\ short[last] \in BOOLEAN /\ int64[last] \in BOOLEAN
      /\ scale[Group] \in Nat /\ most \in Nat
      /\ \A d \in members : scale[d] \in Nat /\ depth[d] \in Nat /\ depth[d] <= most
  BY <1>1, <1>2 DEF ScaleInv, FlagInv
<1> SUFFICES ASSUME choice'.name \in {"seal_ckks", "seal_bfv"},
                    DefaultQCnt <= MaxSealBits \div scale[Group],
                    NEW d \in members, scale[d] <= scale[Group]
             PROVE  BitsNeeded(depth[d], scale[d]) <= MaxSealBits
  BY <1>3 DEF FitsAtItsScale
<1>5. BitsNeeded(most, scale[Group]) <= MaxSealBits
  BY <1>3, <1>4, NameBounds
<1>6. BitsNeeded(depth[d], scale[d]) <= BitsNeeded(most, scale[Group])
  BY <1>4, BitsMonotonic
<1>7. BitsNeeded(depth[d], scale[d]) \in Nat /\ BitsNeeded(most, scale[Group]) \in Nat
  BY <1>4, Numbers DEF BitsNeeded
<1> QED
  BY <1>5, <1>6, <1>7, Numbers

LEMMA NextFits ==
  ScaleInv /\ FlagInv /\ FitsAtItsScale /\ [Next]_vars => FitsAtItsScale'
<1> SUFFICES ASSUME ScaleInv, FlagInv, FitsAtItsScale, [Next]_vars
             PROVE  FitsAtItsScale'
  OBVIOUS
<1>1. CASE \E c \in Child : Decide(c)
  BY <1>1, DecideFits
<1>2. CASE DecideGroup
  BY <1>2, GroupFits
<1>3. CASE choice' = Undecided
  BY <1>3 DEF FitsAtItsScale, Undecided
<1>4. CASE choice' = choice
  BY <1>4 DEF FitsAtItsScale
<1> QED
  BY <1>1, <1>2, <1>3, <1>4
  DEF Next, MakeInt64Constant, Divide, Join, SetScale, AddDag, vars

(* Whatever the order in which scales are set, conditions are built and    *)
(* Dags are added: when SEAL is chosen, every Dag whose own scale is not   *)
(* above the one decided at fits, unless setAloName's subtraction wrapped. *)
(* A larger own scale is what addDag leaves and SealFits fails for.        *)
THEOREM FitsAtItsScaleHolds == Spec => []FitsAtItsScale
<1>1. Init => FitsAtItsScale
  BY DEF Init, FitsAtItsScale, Undecided
<1> QED
  BY <1>1, InitScales, NextScales, InitFlags, NextFlags, NextFits, PTL DEF Spec
=============================================================================
