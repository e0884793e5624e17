------------------------------- MODULE Query -------------------------------
(***************************************************************************)
(* What the expressions of dag/expr.cpp compute, slot by slot: comparisons *)
(* of 32-bit numbers that are encoded digit by digit (iyfc_include.cpp,    *)
(* util/math_util.cpp), conditions joined with && and ||, the rows, sums   *)
(* and counts that they select, division, and the comparison matrix of a   *)
(* sort; and the division, the average and the intersection of             *)
(* examples/div.cpp, avg.cpp and psi_bfv.cpp.                              *)
(*                                                                         *)
(* Ciphertexts are vectors of numbers.  They are exact here, and taken     *)
(* modulo a prime so that the fractions and the roots of unity of the      *)
(* source exist: an identity between polynomials holds, rounding errors do *)
(* not show.  A library may have more slots than the vector of a Dag.      *)
(***************************************************************************)
EXTENDS Naturals, Sequences, SequencesExt, FiniteSets, FiniteSetsExt

CONSTANTS
  Bases,     \* CMP_P, the base of the comparison: 7 in the source, or 3
  Rows,      \* bound, for MAX_CMP_NUM: the rows of a table, a power of 2
  Tables,    \* what callers hold: [x, y], two columns of as many numbers
  Plain,     \* the numbers that columns are compared with
  Second,    \* the conditions that are joined to a first one
  Divisions, \* what example_div draws: [modulus, dividend, divisor]
  Blind,     \* what example_avg and example_psi_bfv draw
  Roots,     \* external: [n |-> <<cos 2 PI / n, sin 2 PI / n>>], modulo Prime
  Libraries, \* those that encrypt vectors: "SEAL", "OpenFHE"
  Prime      \* bound: the slots are taken modulo this prime

VARIABLES
  library,   \* of the Dag's keys
  p,         \* CMP_P
  table,
  size,      \* Dag::m_num_size
  kind,      \* what the expression under construction is
  expr,      \* its slots
  holds      \* history: the rows for which the conditions hold, or the division

vars == <<library, p, table, size, kind, expr, holds>>

-----------------------------------------------------------------------------
\* CMP_BIT_LEN = FFT_N, the slots of a number, and CMP_DAG_SIZE
Length == IF p = 3 THEN 32 ELSE 16
VecSize == Rows * Length

(* The slots of a ciphertext: batch_size, or what the degree of the        *)
(* polynomials gives, here twice as much.                                  *)
Slots == IF library = "SEAL" THEN 2 * VecSize ELSE VecSize
Slot == 1 .. Slots

(* The operators of Expr: each makes a node that works slot by slot.  A    *)
(* vector is a tuple, so that TLC computes its slots once.                 *)
Vector(f) == f \o <<>>
Constant(c) == Vector([s \in Slot |-> c])
Plus(v, w) == Vector([s \in Slot |-> (v[s] + w[s]) % Prime])
Minus(v, w) == Vector([s \in Slot |-> (v[s] + Prime - w[s]) % Prime])
Times(v, w) == Vector([s \in Slot |-> (v[s] * w[s]) % Prime])
Left(v, k) == Vector([s \in Slot |-> v[((s - 1 + k) % Slots) + 1]])
Right(v, k) == Left(v, Slots - k)

Total(seq) == FoldLeft(Plus, Constant(0), seq)

\* The fractions of the source, as numbers modulo Prime.
Inverses == [d \in {2, 36, 40, 72, 360, 1024} \cup {Blind * n : n \in 1 .. Rows} |->
               CHOOSE i \in 1 .. Prime : (i * d) % Prime = 1]
Fraction(a, d) == Constant((a * Inverses[d]) % Prime)

-----------------------------------------------------------------------------
\* SEALPublic::encrypt: as many copies as the slots take, none of them in part
Replicated(v) ==
  LET copies == Slots \div Len(v)
  IN  Vector([s \in Slot |-> IF s <= copies * Len(v) THEN v[((s - 1) % Len(v)) + 1] ELSE 0])

\* OpenFhePublic::encrypt: resized to batch_size
Packed(v) == Vector([s \in Slot |-> IF s <= Len(v) THEN v[s] ELSE 0])

Encrypted(v) == IF library = "SEAL" THEN Replicated(v) ELSE Packed(v)

\* encode_raw: a vector of constants, for the slots of a ciphertext
Encoded(v) == Vector([s \in Slot |-> v[((s - 1) % VecSize) + 1]])

\* SEALSecret::decrypt and OpenFheSecret::decrypt
Decrypted(v) == SubSeq(v, 1, VecSize)

-----------------------------------------------------------------------------
\* decimalConvert: the digits of a number to a base, the most significant one first
Digits(number, base, length) ==
  LET rest[i \in 0 .. (length - 1)] == IF i = 0 THEN number ELSE rest[i - 1] \div base
  IN  Vector([i \in 1 .. length |-> rest[length - i] % base])

Padded(digits) ==
  Vector([s \in 1 .. VecSize |-> IF s <= Len(digits) THEN digits[s] ELSE 0])

CompareBase == (p - 1) \div 2 + 1

\* encodeOrgInputforCmp; rows that the table does not have are zero
EncodedForCompare(column) ==
  Padded(FlattenSeq([r \in DOMAIN column |-> Digits(column[r], CompareBase, Length)]))

\* plaintToCmpExpr
PlainToCompare(number) ==
  Padded(FlattenSeq([r \in 1 .. Rows |-> Digits(number, CompareBase, Length)]))

(* encodeOrgInputFFT without the transform, which is linear and is undone  *)
(* by getFFTOutputs: decimal digits, the least significant one first.      *)
EncodedDecimals(column) ==
  Padded(FlattenSeq([r \in DOMAIN column |-> Reverse(Digits(column[r], 10, Length))]))

-----------------------------------------------------------------------------
\* getCmpExprP7: 1 for a difference of digits below zero, or for none at all
Below7(z) ==
  LET minus(k) == Minus(z, Constant(k))
      square == Plus(Plus(Times(Times(Fraction(1, 72), z), z), Times(Fraction(3, 40), z)),
                     Fraction(37, 360))
  IN  Times(Times(Times(Times(square, z), minus(1)), minus(2)), minus(3))
Zero7(z) ==
  LET plus(k) == Plus(z, Constant(k))
      start == Times(Minus(Constant(0), Fraction(1, 36)), plus(3))
  IN  FoldLeft(LAMBDA v, k : Times(v, plus(k)), start, <<2, 1, Prime - 1, Prime - 2, Prime - 3>>)

\* getCmpExprP3
Below3(z) == Minus(Times(Times(Fraction(1, 2), z), z), Times(Fraction(1, 2), z))
Zero3(z) == Times(Minus(Constant(1), z), Plus(Constant(1), z))

\* Fault: a lower digit decides although a higher one differs.
LayerEager(less, equal, k) == <<Plus(less, Left(less, k)), Times(equal, Left(equal, k))>>

\* One layer: the digits to the left decide, unless they are equal.
Layer(less, equal, k) ==
  <<Plus(less, Times(Left(less, k), equal)), Times(equal, Left(equal, k))>>

Layered(less, equal) ==
  FoldLeft(LAMBDA r, k : Layer(r[1], r[2], k), <<less, equal>>,
           IF p = 3 THEN <<1, 2, 4, 8, 16>> ELSE <<1, 2, 4, 8>>)

Compared(x, y) ==
  LET z == Minus(x, y)
  IN  IF p = 3 THEN Layered(Below3(z), Zero3(z)) ELSE Layered(Below7(z), Zero7(z))

Mask == Encoded([s \in 1 .. VecSize |-> IF (s - 1) % Length = 0 THEN 1 ELSE 0])

\* CmpOpHelper: the first slot of every number, spread over its slots
Spread(v) ==
  Total([i \in 1 .. Length |-> Right(Times(Mask, v), i - 1)])
Less(x, y) == Spread(Compared(x, y)[1])
Equal(x, y) == Spread(Compared(x, y)[2])
LessEqual(x, y) == Plus(Equal(x, y), Less(x, y))
Not(v) == Minus(Constant(1), v)

\* The comparison operators of Expr.
Condition(relation, x, y) ==
  CASE relation = "==" -> Equal(x, y)
    [] relation = "!=" -> Not(Equal(x, y))
    [] relation = "<"  -> Less(x, y)
    [] relation = "<=" -> LessEqual(x, y)
    [] relation = ">"  -> Not(LessEqual(x, y))
    [] relation = ">=" -> Not(Less(x, y))

\* operator&& and operator||; what they do to the scale is in AloChoice
Both(v, w) == Times(v, w)
Either(v, w) == Not(Times(Not(v), Not(w)))

-----------------------------------------------------------------------------
\* Fault: every halving starts from the argument again.
HalvedAfresh(v) ==
  FoldLeft(LAMBDA sum, i : Plus(sum, Left(v, i * Length)), v,
           Reverse(SetToSortSeq({i \in 1 .. (Rows \div 2) : Rows % i = 0}, <)))

\* The sum over all rows in as few rotations as possible: Rows / 2, Rows / 4, ... 1
Halved(v) ==
  FoldLeft(LAMBDA sum, i : Plus(sum, Left(sum, i * Length)), v,
           Reverse(SetToSortSeq({i \in 1 .. (Rows \div 2) : Rows % i = 0}, <)))

FirstRow == Encoded([s \in 1 .. VecSize |-> IF s <= Length THEN 1 ELSE 0])

\* SumCntHelper
SumCount(v) ==
  LET sum == IF size = Rows THEN Halved(v)
             ELSE Total([i \in 1 .. size |-> Left(v, (i - 1) * Length)])
  IN  Times(sum, FirstRow)

\* Fault: the factor is not squared.
ReciprocalFlat(v) ==
  LET t == Times(Fraction(2, 1024), v)
      b == Minus(Constant(1), t)
      a == FoldLeft(LAMBDA acc, i : Times(acc, Plus(Constant(1), b)),
                    Minus(Constant(2), t), <<1, 2, 3, 4, 5>>)
  IN  Times(a, Fraction(2, 1024))

\* div_hepler_2: five steps towards 1 / v, for v between 0 and 1024
Reciprocal(v) ==
  LET t == Times(Fraction(2, 1024), v)
      step(r) == LET b == Times(r[2], r[2]) IN <<Times(r[1], Plus(Constant(1), b)), b>>
      last == FoldLeft(LAMBDA r, i : step(r),
                       <<Minus(Constant(2), t), Minus(Constant(1), t)>>, <<1, 2, 3, 4, 5>>)
  IN  Times(last[1], Fraction(2, 1024))

-----------------------------------------------------------------------------
(* examples/div.cpp: dividend / divisor = y / (p - x) for the modulus p and *)
(* x = p - divisor below p / 2, as y (p + x) (p^2 + x^2) (p^4 + x^4) / p^8. *)
(* Numbers are polynomials in 10, multiplied point by point after a Fourier *)
(* transform; complex numbers are pairs of a real and an imaginary part.    *)
ComplexPlus(a, b) == <<(a[1] + b[1]) % Prime, (a[2] + b[2]) % Prime>>
ComplexTimes(a, b) ==
  <<(a[1] * b[1] + (Prime * Prime - a[2] * b[2])) % Prime, (a[1] * b[2] + a[2] * b[1]) % Prime>>

\* DFT::dft
Dft(v, inverse) ==
  LET n == Len(v)
      turn == IF inverse THEN Roots[n] ELSE <<Roots[n][1], Prime - Roots[n][2]>>
      polar[k \in 0 .. (n - 1)] == IF k = 0 THEN <<1, 0>> ELSE ComplexTimes(polar[k - 1], turn)
      part == IF inverse THEN CHOOSE i \in 1 .. Prime : (i * n) % Prime = 1 ELSE 1
      sum(m) == FoldLeft(LAMBDA z, k : ComplexPlus(z, ComplexTimes(v[k], polar[((k - 1) * m) % n])),
                         <<0, 0>>, [k \in 1 .. n |-> k])
  IN  Vector([m \in 1 .. n |-> ComplexTimes(sum(m - 1), <<part, 0>>)])

DecimalLength(number) ==
  CHOOSE l \in 1 .. 9 : number < 10 ^ l /\ (l = 1 \/ number >= 10 ^ (l - 1))

\* length_DFT: the product of eight factors of so many digits, and no more
DftLength(modulus) == 8 * DecimalLength(modulus) - 7

\* A number, least significant digit first, up to the length of the product.
Points(number, n) ==
  Dft(Vector([i \in 1 .. n |-> <<Reverse(Digits(number, 10, n))[i], 0>>]), FALSE)

\* The two inputs that stand for a number.
EncryptedPoints(number, n) ==
  LET points == Points(number, n)
  IN  [part \in 1 .. 2 |-> Encrypted(Padded([i \in 1 .. n |-> points[i][part]]))]

PairPlus(a, b) == <<Plus(a[1], b[1]), Plus(a[2], b[2])>>
PairTimes(a, b) ==
  <<Minus(Times(a[1], b[1]), Times(a[2], b[2])), Plus(Times(a[1], b[2]), Times(a[2], b[1]))>>

Quotient(modulus, y, x) ==
  LET m2 == PairTimes(modulus, modulus)
      x2 == PairTimes(x, x)
      m4 == PairTimes(m2, m2)
      x4 == PairTimes(x2, x2)
      low == PairTimes(PairPlus(modulus, x), PairPlus(m2, x2))
  IN  PairTimes(y, PairTimes(low, PairPlus(m4, x4)))

-----------------------------------------------------------------------------
\* getCntOutput and getCntRandomOutput
CountOutput(v) == Decrypted(v)[1]

\* Row r of a column; the rows after the last one compare as zero.
At(column, r) == IF r + 1 \in DOMAIN column THEN column[r + 1] ELSE 0
Relates(relation, a, b) ==
  CASE relation = "==" -> a = b
    [] relation = "!=" -> a # b
    [] relation = "<"  -> a < b
    [] relation = "<=" -> a <= b
    [] relation = ">"  -> a > b
    [] relation = ">=" -> a >= b
Selected(relation, other(_)) ==
  {r \in 0 .. (Rows - 1) : Relates(relation, At(table.x, r), other(r))}

\* A condition on the first column: [relation, with], with <<>> for the second column.
Operand(c) == IF c.with = <<>> THEN Encrypted(EncodedForCompare(table.y))
              ELSE Encoded(PlainToCompare(c.with[1]))
Meaning(c) == Selected(c.relation, LAMBDA r : IF c.with = <<>> THEN At(table.y, r) ELSE c.with[1])
Evaluated(c) == Condition(c.relation, Encrypted(EncodedForCompare(table.x)), Operand(c))

Relations == {"==", "!=", "<", "<=", ">", ">="}
Conditions == [relation : Relations, with : {<<>>} \cup {<<n>> : n \in Plain}]

\* setCmpNumSize, or the default
Init ==
  /\ library \in Libraries
  /\ p \in Bases
  /\ table \in Tables
  /\ size \in {Len(table.x), Rows}
  /\ kind = "None"
  /\ expr = <<>>
  /\ holds = {}

Compare(c) ==
  /\ kind = "None" /\ kind' = "Condition"
  /\ expr' = Evaluated(c)
  /\ holds' = Meaning(c)
  /\ UNCHANGED <<library, p, table, size>>

And(c) ==
  /\ kind = "Condition" /\ kind' = "Joined"
  /\ expr' = Both(expr, Evaluated(c))
  /\ holds' = holds \cap Meaning(c)
  /\ UNCHANGED <<library, p, table, size>>

Or(c) ==
  /\ kind = "Condition" /\ kind' = "Joined"
  /\ expr' = Either(expr, Evaluated(c))
  /\ holds' = holds \cup Meaning(c)
  /\ UNCHANGED <<library, p, table, size>>

QueryRow ==
  /\ kind \in {"Condition", "Joined"} /\ kind' = "Row"
  /\ expr' = Times(Encrypted(EncodedDecimals(table.y)), expr)
  /\ UNCHANGED <<library, p, table, size, holds>>

QuerySum ==
  /\ kind \in {"Condition", "Joined"} /\ kind' = "Sum"
  /\ expr' = SumCount(Times(Encrypted(EncodedDecimals(table.y)), expr))
  /\ UNCHANGED <<library, p, table, size, holds>>

QueryCnt ==
  /\ kind \in {"Condition", "Joined"} /\ kind' = "Count"
  /\ expr' = SumCount(expr)
  /\ UNCHANGED <<library, p, table, size, holds>>

\* operator/ without short integers: the amounts by the count
Divide ==
  /\ kind = "Count" /\ kind' = "Ratio"
  /\ expr' = Times(Encrypted(EncodedDecimals(table.y)), Reciprocal(expr))
  /\ UNCHANGED <<library, p, table, size, holds>>

\* encodeSortUpInput and encodeSortDownInput: every number beside every other one
SortUp(column) ==
  FlattenSeq([i \in DOMAIN column |-> [j \in DOMAIN column |-> column[i]]])
SortDown(column) ==
  FlattenSeq([i \in DOMAIN column |-> column])

\* encodeOrgInputforSort and buildSortDag
Sort ==
  /\ kind = "None" /\ kind' = "Matrix"
  /\ Len(table.x) * Len(table.x) <= Rows
  /\ expr' = Compared(Encrypted(EncodedForCompare(SortUp(table.x))),
                    Encrypted(EncodedForCompare(SortDown(table.x))))[1]
  /\ UNCHANGED <<library, p, table, size, holds>>

\* example_div
FftDivide(a) ==
  /\ kind = "None" /\ kind' = "Quotient"
  /\ LET n == DftLength(a.modulus)
         points(number) == EncryptedPoints(number, n)
     IN  expr' = Quotient(points(a.modulus), points(a.dividend), points(a.modulus - a.divisor))
  /\ holds' = a
  /\ UNCHANGED <<library, p, table, size>>

\* example_avg: the count times a number that the owner of the key does not know ...
BlindCount ==
  /\ kind = "Joined" /\ kind' = "Blinded"
  /\ expr' = <<Times(Constant(Blind), SumCount(expr)), expr>>
  /\ UNCHANGED <<library, p, table, size, holds>>

(* ... who returns the inverse of what it decrypts, as an input of another *)
(* Dag.  A count of zero has none.                                         *)
Average ==
  /\ kind = "Blinded" /\ CountOutput(expr[1]) # 0 /\ kind' = "Average"
  /\ LET inverse == Encrypted([s \in 1 .. VecSize |-> Inverses[CountOutput(expr[1])]])
     IN  expr' = Times(Times(Constant(Blind), inverse),
                       SumCount(Times(Encrypted(EncodedDecimals(table.y)), expr[2])))
  /\ UNCHANGED <<library, p, table, size, holds>>

\* example_psi_bfv: a product that vanishes for the numbers of Plain
Intersect ==
  /\ kind = "None" /\ kind' = "Match"
  /\ LET column == Encrypted(Padded([i \in DOMAIN table.x |-> table.x[i] % Prime]))
     IN  expr' = FoldLeft(LAMBDA v, n : Times(v, Minus(column, Constant(n % Prime))),
                          Constant(Blind), SetToSeq(Plain))
  /\ UNCHANGED <<library, p, table, size, holds>>

Next ==
  \/ \E c \in Conditions : Compare(c)
  \/ \E c \in Second : And(c) \/ Or(c)
  \/ QueryRow \/ QuerySum \/ QueryCnt
  \/ Divide
  \/ Sort
  \/ BlindCount \/ Average
  \/ Intersect
  \/ \E a \in Divisions : FftDivide(a)

Spec == Init /\ [][Next]_vars

-----------------------------------------------------------------------------
\* What the caller reads: getCmpOutputs, getSortOutputs, getFFTOutputs.
CompareOutput(r) == Decrypted(expr)[r * Length + 1] % p
Ten == [i \in 0 .. Max({Length, 8}) |-> FoldLeft(LAMBDA x, j : (10 * x) % Prime, 1, [j \in 1 .. i |-> j])]
NumberOutput(r) ==
  FoldLeft(LAMBDA sum, i : (sum + Decrypted(expr)[r * Length + i] * Ten[i - 1]) % Prime, 0,
           [i \in 1 .. Length |-> i])
SumOutput == NumberOutput(0)
MatrixOutput(i, j) == Decrypted(expr)[((i - 1) * Len(table.x) + (j - 1)) * Length + 1] % p

\* What example_div prints, before the division by modulus ^ 8.
QuotientOutput ==
  LET n == DftLength(holds.modulus)
      digits == Dft([i \in 1 .. n |-> <<Decrypted(expr[1])[i], Decrypted(expr[2])[i]>>], TRUE)
  IN  FoldLeft(LAMBDA sum, i : (sum + digits[i][1] * Ten[i - 1]) % Prime, 0, [i \in 1 .. n |-> i])

(* Comparisons are exact in every slot: 1 in all slots of a row for which  *)
(* the conditions hold, 0 in those of any other, whatever the digits, the  *)
(* rotations across rows and the rows that pad the table.                  *)
SelectsRows ==
  kind \in {"Condition", "Joined"} =>
    \A s \in Slot : expr[s] = IF ((s - 1) % VecSize) \div Length \in holds THEN 1 ELSE 0

(* What the caller decodes is what was asked for: the selected numbers,    *)
(* their sum, how many there are among the rows that setCmpNumSize left,   *)
(* how each number of a sort compares with each other one, their average   *)
(* although nobody learns the count, where the numbers looked for are, and *)
(* a quotient that, with x = modulus - divisor, misses the exact one by    *)
(* the factor 1 - (x / modulus)^8.                                         *)
AnswersQuery ==
  LET amount(r) == At(table.y, r) % Prime
      counted == holds \cap (0 .. (size - 1))
  IN  /\ kind \in {"Condition", "Joined"} =>
           \A r \in 0 .. (Rows - 1) : CompareOutput(r) = IF r \in holds THEN 1 ELSE 0
      /\ kind = "Row" =>
           \A r \in 0 .. (Rows - 1) : NumberOutput(r) = IF r \in holds THEN amount(r) ELSE 0
      /\ kind = "Sum" => SumOutput = MapThenSumSet(amount, counted) % Prime
      /\ kind = "Count" => CountOutput(expr) = Cardinality(counted)
      /\ kind = "Average" =>
           (SumOutput * Cardinality(counted)) % Prime = MapThenSumSet(amount, counted) % Prime
      /\ kind = "Match" =>
           \A r \in 0 .. (Rows - 1) :
             Decrypted(expr)[r + 1] = 0 <=> At(table.x, r) % Prime \in {n % Prime : n \in Plain}
      /\ kind = "Matrix" =>
           \A i, j \in DOMAIN table.x :
             MatrixOutput(i, j) = IF table.x[i] < table.x[j] THEN 1 ELSE 0
      /\ kind = "Quotient" =>
           LET x == holds.modulus - holds.divisor
               eighth(b) == FoldLeft(LAMBDA power, i : (power * b) % Prime, 1, [i \in 1 .. 8 |-> i])
           IN  (QuotientOutput * holds.divisor) % Prime =
                 (holds.dividend * (eighth(holds.modulus) + (Prime - eighth(x)))) % Prime

(* The quotient times the divisor d misses the dividend by the factor      *)
(* (1 - d/512)^64 only: what is left of the series after five steps, which *)
(* vanishes for the divisors that the helper is written for.               *)
DivideConverges ==
  [][kind' = "Ratio" =>
       LET rest == Minus(Constant(1), Times(Fraction(2, 1024), expr))
           power == FoldLeft(LAMBDA v, i : Times(v, v), rest, <<1, 2, 3, 4, 5, 6>>)
       IN  Times(expr', expr) = Times(Encrypted(EncodedDecimals(table.y)), Not(power))]_vars
=============================================================================
