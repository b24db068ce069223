------------------------------- MODULE Ieee754 -------------------------------
(***************************************************************************)
(* Floating point numbers of ExpBits bits of exponent and FracBits of      *)
(* fraction, 8 and 23 in a float, and what IEEE 754 says of the four       *)
(* operations: the exact result is rounded to the nearest number, and to   *)
(* the even one of two that are equally near.  A quotient may be the       *)
(* number before the nearest one, as fpu_test.c allows, and a product or   *)
(* quotient below the normal numbers is only promised to be small.         *)
(*                                                                         *)
(* A number is a record of sign, exponent and fraction.  Every finite one  *)
(* is a whole number of units, the unit being the smallest denormal, so    *)
(* that exact results are compared in the integers.                        *)
(***************************************************************************)
EXTENDS Integers, FiniteSets

CONSTANTS ExpBits, FracBits

MaxExp == 2 ^ ExpBits - 1
Bias == 2 ^ (ExpBits - 1) - 1
Hidden == 2 ^ FracBits
Signs == {0, 1}

Float(s, e, f) == [sign |-> s, exp |-> e, frac |-> f]
Zero(s) == Float(s, 0, 0)
Inf(s) == Float(s, MaxExp, 0)
NaN(s) == Float(s, MaxExp, Hidden \div 2)
Infinities == {Inf(s) : s \in Signs}
Finite == [sign : Signs, exp : 0 .. MaxExp - 1, frac : 0 .. Hidden - 1]

IsNaN(x) == x.exp = MaxExp /\ x.frac # 0
IsInf(x) == x.exp = MaxExp /\ x.frac = 0
IsZero(x) == x.exp = 0 /\ x.frac = 0

Weight(x) == IF x.exp = 0 THEN x.frac ELSE (Hidden + x.frac) * 2 ^ (x.exp - 1)
Units(x) == IF x.sign = 1 THEN -Weight(x) ELSE Weight(x)
One == 2 ^ (Bias + FracBits - 1)      \* the units of 1.0

(* The number nearest to n / d units, n >= 0 and d > 0: numbers of one     *)
(* sign are in the order of exponent and fraction, and infinity stands     *)
(* where the next number would.                                            *)
Rank(k) == Float(0, k \div Hidden, k % Hidden)
Ranks == 1 .. MaxExp * Hidden
Nearest(n, d) ==
  LET below == Cardinality({k \in Ranks : d * Weight(Rank(k)) <= n})
      twice == d * (Weight(Rank(below)) + Weight(Rank(below + 1)))
      up == 2 * n > twice \/ (2 * n = twice /\ below % 2 = 1)
  IN  IF below \in Ranks /\ below + 1 \notin Ranks THEN below
      ELSE IF up THEN below + 1 ELSE below

\* the numbers that stand for n / d units, off the nearest by at most one
Ranked(s, k) == [Rank(k) EXCEPT !.sign = s]
Rounded(s, n, d, off) ==
  IF n < d * Hidden THEN {Ranked(s, k) : k \in 0 .. 2 * Hidden}
  ELSE {Ranked(s, Nearest(n, d) - i) : i \in 0 .. off}

Xor(s, t) == IF s = t THEN 0 ELSE 1
Opposite(x) == [x EXCEPT !.sign = 1 - x.sign]

Sum(x, y) ==
  CASE IsNaN(x) \/ IsNaN(y) \/ (IsInf(x) /\ y = Opposite(x)) -> {NaN(1)}
    [] IsInf(x) /\ y \in Finite \cup {x} -> {x}
    [] x \in Finite /\ IsInf(y) -> {y}
    [] x \in Finite /\ y \in Finite ->
         LET n == Units(x) + Units(y)
         IN  IF n = 0 THEN {Zero(IF x.sign = y.sign THEN x.sign ELSE 0)}
             ELSE IF n > 0 THEN {Ranked(0, Nearest(n, 1))} ELSE {Ranked(1, Nearest(-n, 1))}

Difference(x, y) == IF IsNaN(y) THEN {NaN(1)} ELSE Sum(x, Opposite(y))

Product(x, y) ==
  LET s == Xor(x.sign, y.sign)
  IN  CASE IsNaN(x) \/ IsNaN(y) \/ (IsInf(x) /\ IsZero(y)) \/ (IsZero(x) /\ IsInf(y)) -> {NaN(1)}
        [] IsInf(x) /\ y \in Infinities \cup Finite /\ ~IsZero(y) -> {Inf(s)}
        [] x \in Finite /\ IsInf(y) /\ ~IsZero(x) -> {Inf(s)}
        [] x \in Finite /\ y \in Finite ->
             IF IsZero(x) \/ IsZero(y) THEN {Zero(s)}
             ELSE Rounded(s, Weight(x) * Weight(y), One, 0)

Ratio(x, y) ==
  LET s == Xor(x.sign, y.sign)
  IN  CASE IsNaN(x) \/ IsNaN(y) \/ (IsInf(x) /\ IsInf(y)) \/ (IsZero(x) /\ IsZero(y)) -> {NaN(1)}
        [] IsInf(x) /\ y \in Finite -> {Inf(s)}
        [] x \in Finite /\ IsInf(y) -> {Zero(s)}
        [] x \in Finite /\ y \in Finite /\ ~(IsZero(x) /\ IsZero(y)) ->
             IF IsZero(y) THEN {Inf(s)} ELSE IF IsZero(x) THEN {Zero(s)}
             ELSE Rounded(s, Weight(x) * One, Weight(y), 1)

\* the word that stands for a number in memory, and the results of all
\* operations on words
WordOf(x) == (x.sign * (MaxExp + 1) + x.exp) * Hidden + x.frac
Number(w) == Float(w \div ((MaxExp + 1) * Hidden), (w \div Hidden) % (MaxExp + 1), w % Hidden)
Words == 0 .. 2 * (MaxExp + 1) * Hidden - 1
Table(Op(_, _)) == [v \in Words |-> [w \in Words |-> {WordOf(z) : z \in Op(Number(v), Number(w))}]]
Results == [add |-> Table(Sum), sub |-> Table(Difference),
            mul |-> Table(Product), div |-> Table(Ratio)]
=============================================================================
