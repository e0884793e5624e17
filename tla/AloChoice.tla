----------------------------- MODULE AloChoice -----------------------------
(***************************************************************************)
(* How the algorithm and the library of a program are chosen               *)
(* (decision/alo_decision.cpp): building an expression leaves flags and a  *)
(* scale in its Dag (dag/expr.cpp, dag/iyfc_dag.cpp), a group takes over   *)
(* the smaller scales of its children, and the decision compares the       *)
(* multiplicative depth that its passes find with what SEAL can carry.     *)
(*                                                                         *)
(* m_has_double is left out: it is true from the start and nothing clears  *)
(* it, so that the branch "err input type !" is not reachable.             *)
(***************************************************************************)
EXTENDS Naturals, Integers

CONSTANTS
  Child,          \* the Dags that are no group
  Group,          \* the DagGroup
  Scales,         \* the scales that callers set with setScale
  MaxDepth,       \* bound: the depth that the passes of a decision may find
  MaxConditions   \* bound: the uses of && and || in one Dag

\* The numbers of comm_include.h
DefaultScale == 60
ReduceScale == 10
MaxSealBits == 881
DefaultQCnt == 3

VARIABLES
  short,     \* m_short_int
  int64,     \* m_has_int64
  scale,     \* m_scale
  tries,     \* m_try_reduce_scale_cnt
  members,   \* DagGroup::m_name2dag
  choice     \* the decision just made: its name, the scale at which it was
             \* made, and the depth and the own scale of every Dag decided on

vars == <<short, int64, scale, tries, members, choice>>

Dags == Child \cup {Group}
Undecided == [name |-> "none", at |-> 0, depth |-> <<>>, scale |-> <<>>]

Init ==
  /\ short = [d \in Dags |-> FALSE]
  /\ int64 = [d \in Dags |-> FALSE]
  /\ scale = [d \in Dags |-> DefaultScale]
  /\ tries = [d \in Dags |-> 1]
  /\ members = {}
  /\ choice = Undecided

-----------------------------------------------------------------------------
\* uint32_t
Word == 65536 * 65536
Difference(a, b) == IF a >= b THEN a - b ELSE Word - (b - a)

\* makeInt64Constant: an expression with an integer
MakeInt64Constant(c) ==
  /\ int64' = [int64 EXCEPT ![c] = TRUE]
  /\ choice' = Undecided
  /\ UNCHANGED <<short, scale, tries, members>>

\* operator/ with a uint8_t
Divide(c) ==
  /\ short' = [short EXCEPT ![c] = TRUE]
  /\ choice' = Undecided
  /\ UNCHANGED <<int64, scale, tries, members>>

(* operator&& and operator||.  The counter is only asked whether it is     *)
(* zero: it is so at the second use, and the third one reduces again.      *)
Join(c) ==
  /\ tries[c] > 1 - MaxConditions
  /\ scale' = [scale EXCEPT ![c] = IF tries[c] # 0 THEN Difference(@, ReduceScale) ELSE @]
  /\ tries' = [tries EXCEPT ![c] = @ - 1]
  /\ choice' = Undecided
  /\ UNCHANGED <<short, int64, members>>

\* setScale, on a Dag or a group, with any uint32_t
SetScale(d, s) ==
  /\ s \in Nat
  /\ scale' = [scale EXCEPT ![d] = s]
  /\ choice' = Undecided
  /\ UNCHANGED <<short, int64, tries, members>>

(* addDag: a scale smaller than the group's becomes that of the group and  *)
(* of all its children.  One that is larger stays.                         *)
AddDag(c) ==
  /\ c \notin members
  /\ members' = members \cup {c}
  /\ scale' = [d \in Dags |->
                 IF scale[c] < scale[Group] /\ d \in members' \cup {Group}
                 THEN scale[c] ELSE scale[d]]
  /\ choice' = Undecided
  /\ UNCHANGED <<short, int64, tries>>

-----------------------------------------------------------------------------
MaxDepthForSeal(s) == Difference(MaxSealBits \div s, DefaultQCnt)

\* setAloName; the program does not survive a division by zero.
AloName(isShort, isInt64, depth, s) ==
  CASE s = 0 -> "crash"
    [] s # 0 /\ isShort -> "concrete"
    [] s # 0 /\ ~isShort /\ isInt64 ->
         IF depth > MaxDepthForSeal(s) THEN "openfhe_bfv" ELSE "seal_bfv"
    [] s # 0 /\ ~isShort /\ ~isInt64 ->
         IF depth > MaxDepthForSeal(s) THEN "openfhe_ckks" ELSE "seal_ckks"

\* deLibAndAlo, with the depth that InitDagForDecision finds (DagPasses)
Decide(c) ==
  \E depth \in 0 .. MaxDepth :
    /\ choice' = [name |-> AloName(short[c], int64[c], depth, scale[c]),
                  at |-> scale[c],
                  depth |-> [d \in {c} |-> depth], scale |-> [d \in {c} |-> scale[d]]]
    /\ UNCHANGED <<short, int64, scale, tries, members>>

(* deGroupLibAndAlo: the depth is the largest one; the flags are those of  *)
(* the child that the unordered map yields last, the scale is the group's. *)
DecideGroup ==
  \E depth \in [members -> 0 .. MaxDepth],
     last \in IF members = {} THEN {Group} ELSE members,
     most \in 0 .. MaxDepth :
    /\ \A c \in members : depth[c] <= most
    /\ most = 0 \/ \E c \in members : depth[c] = most
    /\ short' = [short EXCEPT ![Group] = short[last]]
    /\ int64' = [int64 EXCEPT ![Group] = int64[last]]
    /\ choice' = [name |-> AloName(short[last], int64[last], most, scale[Group]),
                  at |-> scale[Group],
                  depth |-> depth, scale |-> [d \in members |-> scale[d]]]
    /\ UNCHANGED <<scale, tries, members>>

Next ==
  /\ choice.name # "crash"
  /\ \/ \E c \in Child : \/ MakeInt64Constant(c)
                         \/ Divide(c)
                         \/ Join(c)
                         \/ AddDag(c)
                         \/ Decide(c)
     \/ \E d \in Dags, s \in Scales : SetScale(d, s)
     \/ DecideGroup

Spec == Init /\ [][Next]_vars

-----------------------------------------------------------------------------
\* The bits of modulus that a program of some depth uses up.
BitsNeeded(depth, s) == (depth + DefaultQCnt) * s

(* When SEAL is chosen, its modulus carries every Dag that was decided on: *)
(* "If bit_cnt is too large, parameter acquisition will fail. max 881",    *)
(* says seal_ckks_handler.cpp.  setScaleRange encodes the inputs of a Dag  *)
(* at its own scale, and a group is decided at one.                        *)
SealFits ==
  choice.name \in {"seal_ckks", "seal_bfv"} =>
    \A d \in DOMAIN choice.depth :
      BitsNeeded(choice.depth[d], choice.scale[d]) <= MaxSealBits

(* What remains of it: a Dag fits if its own scale is not above the one    *)
(* that was decided at, and if the modulus holds the reserved primes at    *)
(* that one, so that the subtraction in setAloName does not wrap.          *)
FitsAtItsScale ==
  choice.name \in {"seal_ckks", "seal_bfv"} /\ DefaultQCnt <= MaxSealBits \div choice.at =>
    \A d \in DOMAIN choice.depth :
      choice.scale[d] <= choice.at =>
        BitsNeeded(choice.depth[d], choice.scale[d]) <= MaxSealBits

=============================================================================
