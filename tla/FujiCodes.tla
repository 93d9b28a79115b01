----------------------------- MODULE FujiCodes -----------------------------
(***************************************************************************)
(* How a sample of a compressed Fujifilm picture gets its value            *)
(* (src/src/fujifilm/decompress.rs): the neighbours choose a quantization  *)
(* table and one of its gradients, and predict a value; a code is read, in *)
(* a number of bits that the gradient decides, and added to what is        *)
(* predicted.  There is a main table, of the line's q_base, with 41        *)
(* gradients and, with loss, three more for small slopes with 5 each.  The *)
(* state has one gradient of one table; a picture without loss is one with *)
(* loss whose q_base is always 0.                                          *)
(***************************************************************************)
EXTENDS Integers

CONSTANTS Depths,     \* raw_bits of the headers
          Bases,      \* q_base of the lines
          Points,     \* 0x12, 0x43, 0x114: where slopes are told apart
          LeastSlope, \* 5: the slope up to which the first of the three is for
          Around,     \* the values of neighbours
          MinValue    \* 0x40: a gradient is halved at so many codes

ASSUME FujiCodesAssumption ==
  /\ Depths \subseteq Nat \ {0} /\ Bases \subseteq Nat
  /\ MinValue \in Nat \ {0}

VARIABLES depth,      \* header.raw_bits
          q_base,     \* of the main table
          qtable,     \* the table of the gradient: 0 is the main one
          gradient,   \* sum of the codes, and how many
          value       \* the last sample

codesVars == <<depth, q_base, qtable, gradient, value>>

log2ceil(states) == CHOOSE b \in 1 .. states : /\ states <= 2 ^ b
                                               /\ b = 1 \/ states > 2 ^ (b - 1)

max_value == 2 ^ depth - 1
max_bits == 4 * log2ceil(max_value + 1)

Absolute(n) == IF n < 0 THEN -n ELSE n

(* The q_base of the table of the gradient.                                *)
base == IF qtable = 0 THEN q_base ELSE qtable - 1
step == 2 * base + 1

total_values_down ==           \* mutant: the division rounds down
  max_value \div step + 1

total_values == (max_value + 2 * base) \div step + 1
raw_bits == log2ceil(total_values)

max_diff == LET d == (total_values + 32) \div 64 IN IF d < 2 THEN 2 ELSE d
NewGradient == [sum |-> max_diff, count |-> 1]

-----------------------------------------------------------------------------
(* The tables.                                                             *)

(* A line that is decoded: the greatest value, and the q_base of its main  *)
(* table.  The first points of the tables in use fit, as they do in the    *)
(* depths a header may say (12, 14 and 16, Header::is_valid).              *)
BaseIn(coded, t) == IF t = 0 THEN coded.q_base ELSE t - 1
Fit(coded) == \A t \in 1 .. 3 : t <= coded.q_base => 3 * (t - 1) + Points[1] <= coded.max_value
CodedLines == {coded \in [max_value : {2 ^ d - 1 : d \in Depths}, q_base : Bases] : Fit(coded)}
CodedLine(q) == [max_value |-> max_value, q_base |-> q]

(* Params::new_main_qtable, and Params::new: the quantization points, the  *)
(* first of them the q_base, and each as the one before if it is too big.  *)
Quantization(coded, b) ==
  LET Fitting(point, otherwise) == IF point > coded.max_value THEN otherwise ELSE point
      one == Fitting(3 * b + Points[1], b + 1)
      two == Fitting(5 * b + Points[2], one)
  IN <<b, one, two, Fitting(7 * b + Points[3], two)>>

(* QTable::build_table: what is in a table for a slope.                    *)
Quantized(coded, t, slope) ==
  LET qp == Quantization(coded, BaseIn(coded, t))
      size == Absolute(slope)
      class == CASE size <= qp[1] -> 0 [] size < qp[2] -> 1 [] size < qp[3] -> 2
                 [] size < qp[4] -> 3 [] OTHER -> 4
  IN IF slope < 0 THEN -class ELSE class

lookup_gradient(coded, t, v1, v2) ==
  (IF t = 0 THEN 9 ELSE 3) * Quantized(coded, t, v1) + Quantized(coded, t, v2)

Gradients(t) == IF t = 0 THEN 41 ELSE 5

(* The first of the three tables that is for two slopes, or the main one.  *)
TableFor(coded, v1, v2) ==
  LET fits == {t \in 1 .. 3 : t <= coded.q_base /\ Absolute(v1) + Absolute(v2) <= LeastSlope + t - 1}
  IN IF fits = {} THEN 0 ELSE CHOOSE t \in fits : \A u \in fits : t <= u

(* What the neighbours of a sample say: the table, whether it has such a   *)
(* gradient, the sign of the slope, and the value predicted.  c, b and d   *)
(* are above it, f above b, and a and g beside it, which are there for the *)
(* odd positions.                                                          *)
Context(coded, v1, v2, predicted) ==
  LET t == TableFor(coded, v1, v2)
      grad == lookup_gradient(coded, t, v1, v2)
  IN [coded |-> coded, table |-> t, known |-> Absolute(grad) < Gradients(t),
      sign |-> IF grad < 0 THEN -1 ELSE 1, predicted |-> predicted]

EvenContext(coded, b, c, d, f) ==
  LET diff_c == Absolute(c - b)
      diff_f == Absolute(f - b)
      diff_d == Absolute(d - b)
      pair == IF diff_c > diff_f /\ diff_c > diff_d THEN f + d
              ELSE IF diff_d > diff_c /\ diff_d > diff_f THEN f + c ELSE d + c
  IN Context(coded, b - f, c - b, (pair + 2 * b) \div 4)

OddContext(coded, a, b, c, d, g) ==
  LET peak == (b > c /\ b > d) \/ (b < c /\ b < d)
  IN Context(coded, b - c, c - a, IF peak THEN (g + a + 2 * b) \div 4 ELSE (a + g) \div 2)

Contexts ==
  LET near(coded) == {n \in Around : n <= coded.max_value}
  IN UNION {{EvenContext(coded, b, c, d, f) : b, c, d, f \in near(coded)}
              \cup {OddContext(coded, a, b, c, d, g) : a, b, c, d, g \in near(coded)} : coded \in CodedLines}

-----------------------------------------------------------------------------
CodesInit ==
  /\ depth \in Depths
  /\ q_base \in {q \in Bases : CodedLine(q) \in CodedLines}
  /\ qtable \in 0 .. 3
  /\ gradient = NewGradient
  /\ value = 0

(* bit_diff                                                                *)
bit_diff ==
  IF gradient.count >= gradient.sum THEN 0
  ELSE LET enough == {d \in 1 .. 14 : gradient.count * 2 ^ d >= gradient.sum}
       IN IF enough = {} THEN 15 ELSE CHOOSE d \in enough : \A e \in enough : d <= e

ZeroLimit == max_bits - raw_bits - 1

(* read_code: few zeros and bit_diff more bits, or more zeros and raw_bits. *)
CanBeRead(code) ==
  \/ code \div 2 ^ bit_diff < ZeroLimit
  \/ code - 1 \in 0 .. 2 ^ raw_bits - 1

(* A code is valid, or read_code panics.                                   *)
ValidCodes == {code \in 0 .. total_values - 1 : CanBeRead(code)}

(* Odd codes are the negative ones.                                        *)
Difference(code) == IF code % 2 = 1 THEN -1 - code \div 2 ELSE code \div 2

(* The gradient after a code.                                              *)
Updated(difference) ==
  LET sum == gradient.sum + Absolute(difference)
      full == gradient.count = MinValue
  IN [sum |-> IF full THEN sum \div 2 ELSE sum,
      count |-> (IF full THEN gradient.count \div 2 ELSE gradient.count) + 1]

(* The generic adjustments.                                                *)
Wrapped(n) ==
  IF n < -base THEN n + total_values * step
  ELSE IF n > base + max_value THEN n - total_values * step
  ELSE n

Clamped(n) == IF n < 0 THEN 0 ELSE IF n > max_value THEN max_value ELSE n

(* The value of a sample: what is predicted, the code, and the sign of the *)
(* slope around it.                                                        *)
Decode(predicted, code, sign) ==
  Clamped(Wrapped(predicted + sign * Difference(code) * step))

(* One sample of the table; without a gradient, decoding panics.           *)
NoGradient == -1
Read(context, code) ==
  [value |-> IF context.known THEN Decode(context.predicted, code, context.sign) ELSE NoGradient,
   gradient |-> Updated(Difference(code))]

ReadSample ==
  LET around == {c \in Contexts : c.coded = CodedLine(q_base) /\ c.table = qtable}
  IN \E read \in {Read(context, code) : context \in around, code \in ValidCodes} :
       /\ value' = read.value
       /\ gradient' = read.gradient
       /\ UNCHANGED <<depth, q_base, qtable>>

(* A line with another q_base has another main table, whose gradients      *)
(* start again; those of the three others go on (decompress_strip).        *)
StartLine ==
  \E q \in Bases :
    /\ CodedLine(q) \in CodedLines /\ q # q_base
    /\ q_base' = q
    /\ UNCHANGED <<depth, qtable, value>>
    /\ gradient' = IF qtable = 0 THEN NewGradient' ELSE gradient

CodesStep == ReadSample \/ StartLine

CodesSpec == CodesInit /\ [][CodesStep]_codesVars

-----------------------------------------------------------------------------
CodesTypeOK ==
  /\ qtable \in 0 .. 3
  /\ gradient \in [sum : Nat, count : 1 .. MinValue]
  /\ value \in {NoGradient} \cup 0 .. max_value

(* Whatever was read before, and whatever is around, a sample has a        *)
(* gradient, and there are bits for every value it can have: exactly       *)
(* without loss (q_base 0), and to within the q_base of its table else     *)
(* (fuji_decode_sample_even and _odd, read_code, the adjustments).         *)
EveryValueHasACode ==
  /\ value # NoGradient
  /\ LET codes == ValidCodes
     IN \A predicted \in 0 .. max_value, sign \in {-1, 1} :
          LET decoded == {Decode(predicted, code, sign) : code \in codes}
          IN \A wanted \in 0 .. max_value : \E n \in decoded : Absolute(n - wanted) <= base
=============================================================================
