----------------------------- MODULE CpuProofs -----------------------------
(***************************************************************************)
(* What the two units of the CPU compute, for words and floating point     *)
(* numbers of every width: TLC sees words and numbers of a few bits.       *)
(*                                                                         *)
(* The integer instructions.  The arithmetic of single words (PlusFacts,   *)
(* MinusFacts) is linear.  Long numbers are compared digit by digit        *)
(* (DigitFacts).  That a word is its bits, which TEST needs, is an         *)
(* induction over the bits; it is made with the least number principle     *)
(* for sets.                                                               *)
(*                                                                         *)
(* The FPU.  A number is known by its rank among the numbers of its sign,  *)
(* and the weights of the ranks rise (WeightRises).  A significand stands  *)
(* for an exact result: Near, or Truncated where a division loses what is  *)
(* left over.  Squeezing keeps this (SqueezeKeeps), what Round() does to   *)
(* it is to name the nearest rank (RoundingIsNearest) or, of a quotient,   *)
(* perhaps the one before (TruncatedIsNearby), and so internal_normalize() *)
(* gives what IEEE 754 says (SumIsNearest, LongIsRounded, ShortIsRounded). *)
(* The four operations bring their operands to that form (Alignment,       *)
(* ProductIsRounded, RatioIsRounded) and sort out zeros, infinities and    *)
(* NaNs.  The ring of registers is then a stack whatever its size.         *)
(***************************************************************************)
EXTENDS Cpu, FiniteSetTheorems, FunctionTheorems, SequenceTheorems, WellFoundedInduction, TLAPS

-----------------------------------------------------------------------------
(* Powers of two: the number of subsets.                                   *)

LEMMA PowerFacts ==
  ASSUME NEW n \in Nat
  PROVE  2 ^ n \in Nat \ {0} /\ 2 ^ (n + 1) = 2 * 2 ^ n
  <1> DEFINE A == SUBSET (1 .. n)  B == {T \union {n + 1} : T \in A}
  <1>1. ASSUME NEW k \in Nat
        PROVE  /\ IsFiniteSet(SUBSET (1 .. k)) /\ Cardinality(SUBSET (1 .. k)) = 2 ^ k
               /\ 2 ^ k \in Nat \ {0}
    <2>1. IsFiniteSet(1 .. k) /\ Cardinality(1 .. k) = k
      BY FS_Interval
    <2>2. IsFiniteSet(SUBSET (1 .. k)) /\ Cardinality(SUBSET (1 .. k)) = 2 ^ k
      BY <2>1, FS_SUBSET
    <2>3. Cardinality(SUBSET (1 .. k)) \in Nat
      BY <2>2, FS_CardinalityType
    <2>4. SUBSET (1 .. k) # {}
      OBVIOUS
    <2>5. Cardinality(SUBSET (1 .. k)) # 0
      BY <2>2, <2>4, FS_EmptySet
    <2> QED
      BY <2>2, <2>3, <2>5
  <1>2. IsFiniteSet(A) /\ Cardinality(A) = 2 ^ n
    BY <1>1
  <1>3. IsFiniteSet(B) /\ Cardinality(B) = 2 ^ n
    <2> DEFINE f == [T \in A |-> T \union {n + 1}]
    <2>1. f \in [A -> B] /\ \A b \in B : \E T \in A : f[T] = b
      OBVIOUS
    <2>2. \A S, T \in A : f[S] = f[T] => S = T
      <3> SUFFICES ASSUME NEW S \in A, NEW T \in A, f[S] = f[T] PROVE S = T
        OBVIOUS
      <3>1. n + 1 \notin S /\ n + 1 \notin T
        OBVIOUS
      <3> QED
        BY <3>1
    <2>3. f \in Bijection(A, B)
      BY <2>1, <2>2 DEF Bijection, Injection, Surjection, IsInjective
    <2>4. ExistsBijection(A, B)
      BY <2>3 DEF ExistsBijection
    <2> QED
      BY <1>2, <2>4, FS_Bijection
  <1>4. A \intersect B = {}
    <2>1. \A T \in A : n + 1 \notin T
      OBVIOUS
    <2> QED
      BY <2>1
  <1>5. A \union B = SUBSET (1 .. n + 1)
    <2>1. A \union B \subseteq SUBSET (1 .. n + 1)
      <3>1. 1 .. n \subseteq 1 .. n + 1 /\ n + 1 \in 1 .. n + 1
        OBVIOUS
      <3> QED
        BY <3>1
    <2>2. ASSUME NEW T \in SUBSET (1 .. n + 1) PROVE T \in A \union B
      <3>1. CASE n + 1 \in T
        <4>1. T \ {n + 1} \in A /\ T = (T \ {n + 1}) \union {n + 1}
          BY <3>1
        <4> QED
          BY <4>1
      <3>2. CASE n + 1 \notin T
        BY <3>2
      <3> QED
        BY <3>1, <3>2
    <2> QED
      BY <2>1, <2>2
  <1> HIDE DEF A, B
  <1>6. Cardinality(A \union B) = 2 ^ n + 2 ^ n
    <2>1. Cardinality(A \union B) = Cardinality(A) + Cardinality(B) - Cardinality(A \intersect B)
      BY <1>2, <1>3, FS_Union
    <2>2. Cardinality(A \intersect B) = 0 /\ 2 ^ n \in Nat
      BY <1>1, <1>4, FS_EmptySet
    <2> QED
      BY <1>2, <1>3, <2>1, <2>2
  <1>7. n + 1 \in Nat
    OBVIOUS
  <1>8. Cardinality(SUBSET (1 .. n + 1)) = 2 ^ (n + 1)
    BY <1>1, <1>7
  <1>9. 2 ^ n \in Nat \ {0}
    BY <1>1
  <1>10. 2 ^ (n + 1) = 2 ^ n + 2 ^ n
    BY <1>5, <1>6, <1>8
  <1> DEFINE p == 2 ^ n  q == 2 ^ (n + 1)
  <1>11. p \in Nat \ {0} /\ q = p + p
    BY <1>9, <1>10
  <1> HIDE DEF p, q
  <1>12. p \in Nat \ {0} /\ q = 2 * p
    BY <1>11
  <1> QED
    BY <1>12 DEF p, q

LEMMA PowerOfZero == 2 ^ 0 = 1
  <1>1. IsFiniteSet(1 .. 0) /\ Cardinality(1 .. 0) = 0 /\ 1 .. 0 = {}
    BY FS_Interval
  <1>2. Cardinality(SUBSET {}) = 2 ^ 0
    BY <1>1, FS_SUBSET
  <1>3. SUBSET {} = {{}}
    OBVIOUS
  <1> QED
    BY <1>2, <1>3, FS_Singleton

(* A set of numbers has a least one.                                       *)
LEMMA LeastNumber ==
  ASSUME NEW T \in SUBSET Nat, T # {}
  PROVE  \E m \in T : \A k \in T : ~(k < m)
  <1>1. PICK m \in T : \A k \in T : <<k, m>> \notin OpToRel(<, Nat)
    BY WFMin, NatLessThanWellFounded, Zenon
  <1> QED
    BY <1>1, Zenon DEF OpToRel

-----------------------------------------------------------------------------
(* Division.                                                               *)

LEMMA DivisionFacts ==
  ASSUME NEW n \in Int, NEW d \in Nat \ {0}
  PROVE  /\ n \div d \in Int /\ n % d \in 0 .. d - 1
         /\ n = d * (n \div d) + (n % d)
         /\ n >= 0 => n \div d \in Nat
  BY SMTT(30)

(* Quotient and remainder are the only ones.                               *)
LEMMA DivisionIsUnique ==
  ASSUME NEW d \in Nat \ {0}, NEW q \in Int, NEW r \in 0 .. d - 1
  PROVE  (d * q + r) \div d = q /\ (d * q + r) % d = r
  BY SMTT(30)

(* Dividing by 2^(k+1) is dividing by 2^k, and then by 2.                  *)
LEMMA Halving ==
  ASSUME NEW x \in Int, NEW k \in Nat
  PROVE  x \div 2 ^ k = 2 * (x \div 2 ^ (k + 1)) + BitOf(x, k)
  <1> DEFINE p == 2 ^ k  q == x \div p  r == x % p  h == q \div 2  b == q % 2
  <1>1. p \in Nat \ {0} /\ 2 ^ (k + 1) = 2 * p
    BY PowerFacts
  <1> HIDE DEF p
  <1>2. q \in Int /\ r \in 0 .. p - 1 /\ x = p * q + r
    BY <1>1, DivisionFacts, Zenon
  <1> HIDE DEF q, r
  <1>3. h \in Int /\ b \in 0 .. 1 /\ q = 2 * h + b
    BY <1>2, DivisionFacts
  <1> HIDE DEF h, b
  <1>4. x = (2 * p) * h + (p * b + r) /\ p * b + r \in 0 .. 2 * p - 1
    <2>1. p * b \in {0, p}
      BY <1>1, <1>3
    <2>2. p * (2 * h + b) = (2 * p) * h + p * b
      BY <1>1, <1>3
    <2> QED
      BY <1>1, <1>2, <1>3, <2>1, <2>2
  <1>5. x \div (2 * p) = h
    <2> DEFINE d == 2 * p  e == p * b + r
    <2>1. d \in Nat \ {0} /\ e \in 0 .. d - 1 /\ x = d * h + e
      BY <1>1, <1>4
    <2> HIDE DEF d, e
    <2>2. (d * h + e) \div d = h
      BY <1>3, <2>1, DivisionIsUnique
    <2> QED
      BY <2>1, <2>2 DEF d
  <1> QED
    BY <1>1, <1>3, <1>5 DEF BitOf, b, q, p

LEMMA SizeFacts ==
  /\ Half \in Nat \ {0} /\ Base = 2 * Half /\ Base \in Nat \ {0}
  /\ Width \in Nat \ {0} /\ Base = 2 ^ Width
  <1>1. Width - 1 \in Nat /\ Half = 2 ^ (Width - 1) /\ Half \in Nat \ {0} /\ Width \in Nat \ {0}
    BY SizeAssumption
  <1>2. 2 ^ ((Width - 1) + 1) = 2 * 2 ^ (Width - 1)
    BY <1>1, PowerFacts
  <1>3. (Width - 1) + 1 = Width
    BY <1>1
  <1>4. Base = 2 ^ Width
    BY <1>1, <1>2, <1>3 DEF Base
  <1> QED
    BY <1>1, <1>4 DEF Base

(* Words of the same bits are the same.                                    *)
LEMMA BitsDetermine ==
  ASSUME NEW x \in Word, NEW y \in Word,
         \A i \in 0 .. Width - 1 : BitOf(x, i) = BitOf(y, i)
  PROVE  x = y
  <1> DEFINE T == {k \in 0 .. Width : x \div 2 ^ (Width - k) # y \div 2 ^ (Width - k)}
  <1>1. Width \in Nat \ {0} /\ x \in Nat /\ y \in Nat /\ x < Base /\ y < Base
    BY SizeFacts DEF Word
  <1>2. T = {}
    <2> SUFFICES ASSUME T # {} PROVE FALSE
      OBVIOUS
    <2>1. T \in SUBSET Nat
      BY <1>1
    <2>2. PICK m \in T : \A k \in T : ~(k < m)
      BY <2>1, LeastNumber
    <2>3. m # 0
      <3>1. Width - 0 = Width /\ Base \in Nat \ {0} /\ Base = 2 ^ Width
        BY SizeFacts
      <3>2. x \div Base = 0 /\ y \div Base = 0
        <4>1. Base * 0 + x = x /\ Base * 0 + y = y /\ x \in 0 .. Base - 1 /\ y \in 0 .. Base - 1
          BY <1>1, <3>1
        <4>2. (Base * 0 + x) \div Base = 0 /\ (Base * 0 + y) \div Base = 0
          BY <3>1, <4>1, DivisionIsUnique
        <4> QED
          BY <4>1, <4>2
      <3>3. x \div 2 ^ (Width - 0) = 0 /\ y \div 2 ^ (Width - 0) = 0
        BY <3>1, <3>2
      <3> QED
        BY <3>3
    <2> DEFINE k == Width - m
    <2>4. /\ k \in Nat /\ k \in 0 .. Width - 1 /\ k + 1 = Width - (m - 1)
          /\ m - 1 \in 0 .. Width /\ m - 1 < m
      BY <1>1, <2>3
    <2>5. x \div 2 ^ (Width - (m - 1)) = y \div 2 ^ (Width - (m - 1))
      BY <2>2, <2>4
    <2>6. x \div 2 ^ k # y \div 2 ^ k
      OBVIOUS
    <2> HIDE DEF k, T
    <2>7. x \div 2 ^ (k + 1) = y \div 2 ^ (k + 1)
      BY <2>4, <2>5
    <2>0. x \in Int /\ y \in Int
      BY <1>1
    <2>8. /\ x \div 2 ^ k = 2 * (x \div 2 ^ (k + 1)) + BitOf(x, k)
          /\ y \div 2 ^ k = 2 * (y \div 2 ^ (k + 1)) + BitOf(y, k)
      BY <2>0, <2>4, Halving
    <2> QED
      BY <2>4, <2>6, <2>7, <2>8
  <1>3. x \div 2 ^ (Width - Width) = y \div 2 ^ (Width - Width)
    <2>1. Width \in 0 .. Width
      BY <1>1
    <2> QED
      BY <1>2, <2>1
  <1>4. Width - Width = 0
    BY <1>1
  <1>5. x \div 1 = y \div 1
    BY <1>3, <1>4, PowerOfZero
  <1> QED
    BY <1>1, <1>5

-----------------------------------------------------------------------------
(* Single words.                                                           *)

FlagSet == [CF : Flag, ZF : Flag, SF : Flag, OF : Flag]

LEMMA WordFacts ==
  ASSUME NEW x \in Word
  PROVE  /\ x \in Nat /\ x < Base
         /\ Signed(x) \in Int /\ -Half <= Signed(x) /\ Signed(x) < Half
  BY SizeFacts DEF Word, Signed

LEMMA FlagsFacts ==
  ASSUME NEW half, NEW res, NEW cf \in Flag, NEW of \in Flag
  PROVE  /\ Flags(half, res, cf, of) \in FlagSet
         /\ Flags(half, res, cf, of).CF = cf /\ Flags(half, res, cf, of).OF = of
         /\ Flags(half, res, cf, of).ZF = Bit(res = 0)
         /\ Flags(half, res, cf, of).SF = Sign(half, res)
  <1>1. Bit(res = 0) \in Flag /\ Sign(half, res) \in Flag
    BY DEF Sign, Bit, Flag
  <1> QED
    BY <1>1 DEF Flags, FlagSet

(* What leaves a division by Base is a word.                               *)
LEMMA RemainderIsWord ==
  ASSUME NEW n \in Int PROVE n % Base \in Word
  BY SizeFacts, DivisionFacts DEF Word

-----------------------------------------------------------------------------
(* Words of data_size bits.                                                *)

DataWord == 0 .. DataBase - 1

LEMMA DataFacts ==
  /\ DataHalf \in Nat \ {0} /\ DataBase = 2 * DataHalf /\ DataHalf >= Half
  /\ \A n \in Word : n % Base = n /\ (n + DataBase - Base) % Base = n
  <1> DEFINE q == DataHalf \div Half
  <1>1. /\ DataHalf \in Nat \ {0} /\ DataHalf \in Int /\ DataHalf % Half = 0
        /\ Half \in Nat \ {0} /\ Base = 2 * Half /\ Base \in Nat \ {0}
    BY SizeAssumption, SizeFacts
  <1>2. q \in Int /\ DataHalf = Half * q + 0
    BY <1>1, DivisionFacts
  <1> HIDE DEF q
  <1>3. q >= 1
    BY <1>1, <1>2
  <1>4. DataHalf >= Half
    BY <1>1, <1>2, <1>3
  <1>5. DataBase = 2 * DataHalf
    BY DEF DataBase
  <1>6. DataBase - Base = Base * (q - 1)
    BY <1>1, <1>2, <1>5
  <1>7. ASSUME NEW n \in Word PROVE n % Base = n /\ (n + DataBase - Base) % Base = n
    <2>1. n \in 0 .. Base - 1 /\ n \in Int
      BY <1>1 DEF Word
    <2>2. (Base * 0 + n) % Base = n /\ (Base * (q - 1) + n) % Base = n
      <3>1. 0 \in Int /\ q - 1 \in Int
        BY <1>2
      <3> QED
        BY <1>1, <2>1, <3>1, DivisionIsUnique
    <2>3. Base * 0 + n = n
      BY <1>1, <2>1
    <2> DEFINE m == Base * (q - 1)
    <2>4. m \in Int /\ DataBase \in Int /\ DataBase - Base = m
      BY <1>1, <1>2, <1>5, <1>6
    <2> HIDE DEF m
    <2>5. n + DataBase - Base = m + n
      BY <1>1, <2>1, <2>4
    <2> QED
      BY <2>2, <2>3, <2>5 DEF m
  <1> QED
    BY <1>1, <1>4, <1>5, <1>7

LEMMA ExtendedFacts ==
  ASSUME NEW x \in Word
  PROVE  x \in DataWord /\ Extended(x) \in DataWord
  BY SizeFacts, DataFacts DEF Word, DataWord, Extended

LEMMA OutcomeFacts ==
  ASSUME NEW res \in DataWord, NEW cf, NEW of
  PROVE  /\ Outcome(res, cf, of).res \in Word /\ Outcome(res, cf, of).res = res % Base
         /\ Outcome(res, cf, of).flags \in FlagSet
         /\ Outcome(res, cf, of).flags.CF = Bit(cf) /\ Outcome(res, cf, of).flags.OF = Bit(of)
         /\ Outcome(res, cf, of).flags.ZF = Bit(res = 0)
         /\ Outcome(res, cf, of).flags.SF = Sign(DataHalf, res)
  <1>1. Bit(cf) \in Flag /\ Bit(of) \in Flag
    BY DEF Bit, Flag
  <1>2. res \in Int
    BY DataFacts DEF DataWord
  <1>3. res % Base \in Word
    BY <1>2, RemainderIsWord
  <1> QED
    BY <1>1, <1>3, FlagsFacts DEF Outcome

LEMMA WrapFacts ==
  ASSUME NEW src \in DataWord, NEW dest \in DataWord, NEW c \in Flag
  PROVE  Wrap(src + dest + c) \in DataWord /\ Wrap(dest - src - c) \in DataWord
  BY DataFacts DEF DataWord, Wrap, Flag

LEMMA OperationTypes ==
  ASSUME NEW src \in DataWord, NEW dest \in DataWord, NEW c \in Flag
  PROVE  /\ Plus(src, dest, c).res \in Word /\ Plus(src, dest, c).flags \in FlagSet
         /\ Minus(src, dest, c).res \in Word /\ Minus(src, dest, c).flags \in FlagSet
  BY WrapFacts, OutcomeFacts DEF Plus, Minus

(* alu_add(), alu_adc(), of words that are extended to data_size: the      *)
(* carry is what the word cannot hold; SF and OF have the sign of the      *)
(* signed sum, and OF says whether it is out of the range of data_size.    *)
LEMMA PlusFacts ==
  ASSUME NEW src \in Word, NEW dest \in Word, NEW c \in Flag
  PROVE  LET out == Plus(Extended(src), Extended(dest), c)
             sum == Signed(src) + Signed(dest) + c
         IN  /\ out.res \in Word /\ out.flags \in FlagSet
             /\ out.res + out.flags.CF * Base = src + dest + c
             /\ out.flags.OF = 0 <=> -DataHalf <= sum /\ sum < DataHalf
             /\ out.flags.SF # out.flags.OF <=> sum < 0
  <1> DEFINE a == Extended(src)  b == Extended(dest)  res == Wrap(a + b + c)
             sum == Signed(src) + Signed(dest) + c
             carry == IF c = 0 THEN res < a \/ res < b ELSE res <= a \/ res <= b
             over == /\ Sign(DataHalf, a) = Sign(DataHalf, b)
                     /\ Sign(DataHalf, a) # Sign(DataHalf, res)
             out == Plus(a, b, c)
             n == src + dest + c - (IF carry THEN Base ELSE 0)
  <1>1. /\ Half \in Nat \ {0} /\ Base = 2 * Half /\ src \in 0 .. Base - 1 /\ dest \in 0 .. Base - 1
        /\ c = 0 \/ c = 1
        /\ DataHalf \in Nat \ {0} /\ DataBase = 2 * DataHalf /\ DataHalf >= Half
    BY SizeFacts, DataFacts DEF Word, Flag
  <1>2. /\ a = IF src >= Half THEN src - Base + DataBase ELSE src
        /\ b = IF dest >= Half THEN dest - Base + DataBase ELSE dest
        /\ sum = (IF src >= Half THEN src - Base ELSE src) + (IF dest >= Half THEN dest - Base ELSE dest) + c
    BY DEF Extended, Signed
  <1>3. a \in DataWord /\ b \in DataWord /\ res \in DataWord
    BY ExtendedFacts, WrapFacts
  <1> HIDE DEF a, b, sum
  <1>4. res = IF a + b + c >= DataBase THEN a + b + c - DataBase ELSE a + b + c
    BY <1>1, <1>3 DEF Wrap, DataWord
  <1> HIDE DEF res
  <1>5. carry <=> a + b + c >= DataBase
    BY <1>1, <1>3, <1>4 DEF DataWord
  <1>6. over <=> ~(-DataHalf <= sum /\ sum < DataHalf)
    BY <1>1, <1>2, <1>4 DEF Sign, Bit
  <1>7. /\ over => (res >= DataHalf <=> ~(sum < 0))
        /\ ~over => (res >= DataHalf <=> sum < 0)
    BY <1>1, <1>2, <1>4, <1>6
  <1> HIDE DEF carry, over
  <1>8. n \in Word /\ (res = n \/ res = n + DataBase - Base)
    BY <1>1, <1>2, <1>4, <1>5 DEF Word
  <1>9. res % Base = n
    BY <1>8, DataFacts
  <1>10. /\ out.res = res % Base /\ out.res \in Word /\ out.flags \in FlagSet
         /\ out.flags.CF = Bit(carry) /\ out.flags.OF = Bit(over) /\ out.flags.SF = Sign(DataHalf, res)
    <2>1. out = Outcome(res, carry, over)
      BY DEF Plus, res, carry, over
    <2> QED
      BY <1>3, <2>1, OutcomeFacts
  <1>11. n + Bit(carry) * Base = src + dest + c
    BY <1>1 DEF Bit
  <1>12. /\ Bit(over) = 0 <=> ~over
         /\ over => (Sign(DataHalf, res) = Bit(over) <=> res >= DataHalf)
         /\ ~over => (Sign(DataHalf, res) # Bit(over) <=> res >= DataHalf)
    BY DEF Sign, Bit
  <1> HIDE DEF n, out
  <1> QED
    BY <1>6, <1>7, <1>9, <1>10, <1>11, <1>12 DEF out, a, b, sum

(* alu_sub(), alu_sbb().                                                   *)
LEMMA MinusFacts ==
  ASSUME NEW src \in Word, NEW dest \in Word, NEW c \in Flag
  PROVE  LET out == Minus(Extended(src), Extended(dest), c)
             diff == Signed(dest) - Signed(src) - c
         IN  /\ out.res \in Word /\ out.flags \in FlagSet
             /\ out.res - out.flags.CF * Base = dest - src - c
             /\ out.flags.OF = 0 <=> -DataHalf <= diff /\ diff < DataHalf
             /\ out.flags.SF # out.flags.OF <=> diff < 0
             /\ out.flags.CF = 1 <=> dest - src - c < 0
             /\ c = 0 => (out.flags.ZF = 1 <=> src = dest)
  <1> DEFINE a == Extended(src)  b == Extended(dest)  res == Wrap(b - a - c)
             diff == Signed(dest) - Signed(src) - c
             borrow == IF c = 0 THEN a > b ELSE a >= b
             over == /\ Sign(DataHalf, a) # Sign(DataHalf, b)
                     /\ Sign(DataHalf, b) # Sign(DataHalf, res)
             out == Minus(a, b, c)
             n == dest - src - c + (IF borrow THEN Base ELSE 0)
  <1>1. /\ Half \in Nat \ {0} /\ Base = 2 * Half /\ src \in 0 .. Base - 1 /\ dest \in 0 .. Base - 1
        /\ c = 0 \/ c = 1
        /\ DataHalf \in Nat \ {0} /\ DataBase = 2 * DataHalf /\ DataHalf >= Half
    BY SizeFacts, DataFacts DEF Word, Flag
  <1>2. /\ a = IF src >= Half THEN src - Base + DataBase ELSE src
        /\ b = IF dest >= Half THEN dest - Base + DataBase ELSE dest
        /\ diff = (IF dest >= Half THEN dest - Base ELSE dest) - (IF src >= Half THEN src - Base ELSE src) - c
    BY DEF Extended, Signed
  <1>3. a \in DataWord /\ b \in DataWord /\ res \in DataWord
    BY ExtendedFacts, WrapFacts
  <1> HIDE DEF a, b, diff
  <1>4. res = IF b - a - c < 0 THEN b - a - c + DataBase ELSE b - a - c
    BY <1>1, <1>3 DEF Wrap, DataWord
  <1> HIDE DEF res
  <1>5. (borrow <=> b - a - c < 0) /\ (borrow <=> dest - src - c < 0)
    BY <1>1, <1>2
  <1>6. over <=> ~(-DataHalf <= diff /\ diff < DataHalf)
    BY <1>1, <1>2, <1>4 DEF Sign, Bit
  <1>7. /\ over => (res >= DataHalf <=> ~(diff < 0))
        /\ ~over => (res >= DataHalf <=> diff < 0)
    BY <1>1, <1>2, <1>4, <1>6
  <1>8. c = 0 => (res = 0 <=> src = dest)
    BY <1>1, <1>2, <1>4
  <1> HIDE DEF borrow, over
  <1>9. n \in Word /\ (res = n \/ res = n + DataBase - Base)
    BY <1>1, <1>2, <1>4, <1>5 DEF Word
  <1>10. res % Base = n
    BY <1>9, DataFacts
  <1>11. /\ out.res = res % Base /\ out.res \in Word /\ out.flags \in FlagSet
         /\ out.flags.CF = Bit(borrow) /\ out.flags.OF = Bit(over) /\ out.flags.SF = Sign(DataHalf, res)
         /\ out.flags.ZF = Bit(res = 0)
    <2>1. out = Outcome(res, borrow, over)
      BY DEF Minus, res, borrow, over
    <2> QED
      BY <1>3, <2>1, OutcomeFacts
  <1>12. n - Bit(borrow) * Base = dest - src - c /\ (Bit(borrow) = 1 <=> borrow) /\ (Bit(res = 0) = 1 <=> res = 0)
    BY <1>1 DEF Bit
  <1>13. /\ Bit(over) = 0 <=> ~over
         /\ over => (Sign(DataHalf, res) = Bit(over) <=> res >= DataHalf)
         /\ ~over => (Sign(DataHalf, res) # Bit(over) <=> res >= DataHalf)
    BY DEF Sign, Bit
  <1> HIDE DEF n, out
  <1> QED
    BY <1>5, <1>6, <1>7, <1>8, <1>10, <1>11, <1>12, <1>13 DEF out, a, b, diff

LEMMA BitFacts ==
  ASSUME NEW x \in Int, NEW i \in Nat
  PROVE  BitOf(x, i) \in Flag
  <1>1. x \div 2 ^ i \in Int
    BY PowerFacts, DivisionFacts
  <1> QED
    BY <1>1, DivisionFacts DEF BitOf, Flag

-----------------------------------------------------------------------------
(* Types.                                                                  *)

LEMMA RegFacts ==
  ASSUME TypeOK
  PROVE  /\ \A r \in Regs : regs[r] \in Word /\ Other(r) \in Regs
         /\ "eax" \in Regs /\ "edx" \in Regs
         /\ regs["eax"] \in Word /\ regs["edx"] \in Word
         /\ eflags \in FlagSet /\ eflags.CF \in Flag
         /\ Pair \in Nat /\ SignedPair \in Int
  <1>1. /\ \A r \in Regs : regs[r] \in Word /\ Other(r) \in Regs
        /\ "eax" \in Regs /\ "edx" \in Regs
        /\ eflags \in FlagSet /\ eflags.CF \in Flag
    BY DEF TypeOK, Regs, Other, FlagSet
  <1>2. regs["eax"] \in Word /\ regs["edx"] \in Word
    BY <1>1
  <1>3. regs["eax"] \in Nat /\ regs["edx"] \in Nat /\ Signed(regs["edx"]) \in Int /\ Base \in Nat
    BY <1>2, WordFacts, SizeFacts
  <1>4. Pair \in Nat /\ SignedPair \in Int
    BY <1>3 DEF Pair, SignedPair
  <1> QED
    BY <1>1, <1>2, <1>4

LEMMA ComputeFacts ==
  ASSUME TypeOK, NEW r \in Regs, NEW out, out.res \in Word, out.flags \in FlagSet, Compute(r, out)
  PROVE  regs' \in [Regs -> Word] /\ eflags' \in FlagSet
  BY DEF Compute, TypeOK

LEMMA MeaningFacts ==
  ASSUME TypeOK
  PROVE  /\ \A kind \in Kinds : \A x, y \in Int : Means(kind, x, y) \in [kind : Kinds, x : Int, y : Int]
         /\ Nothing \in [kind : Kinds, x : Int, y : Int]
         /\ Compared \in [kind : Kinds, x : Int, y : Int]
  <1>1. \A kind \in Kinds : \A x, y \in Int : Means(kind, x, y) \in [kind : Kinds, x : Int, y : Int]
    BY DEF Means
  <1>2. Nothing \in [kind : Kinds, x : Int, y : Int]
    <2>1. "nothing" \in Kinds /\ 0 \in Int
      BY DEF Kinds
    <2> QED
      BY <2>1 DEF Nothing, Means
  <1> QED
    BY <1>1, <1>2 DEF Compared, TypeOK

LEMMA ArithmeticTypes ==
  ASSUME TypeOK, NEW r \in Regs, NEW s \in Word,
         Add(r, s) \/ Adc(r, s) \/ Sub(r, s) \/ Sbb(r, s) \/ Cmp(r, s)
  PROVE  TypeOK'
  <1>1. regs[r] \in Word /\ eflags.CF \in Flag /\ 0 \in Flag /\ Pair \in Int
    BY RegFacts DEF Flag
  <1> DEFINE x == Extended(s)  y == Extended(regs[r])
  <1>2. \A c \in Flag : /\ Plus(x, y, c).res \in Word /\ Plus(x, y, c).flags \in FlagSet
                        /\ Minus(x, y, c).res \in Word /\ Minus(x, y, c).flags \in FlagSet
    BY <1>1, ExtendedFacts, OperationTypes
  <1>3. s \in Int /\ regs[r] \in Int /\ s * Base + meaning.y \in Int /\ meaning.x \in Int
    <2>1. meaning.y \in Int /\ meaning.x \in Int
      BY DEF TypeOK
    <2>2. s \in Int /\ regs[r] \in Int /\ Base \in Int
      BY <1>1, WordFacts, SizeFacts
    <2> QED
      BY <2>1, <2>2
  <1>4. meaning' \in [kind : Kinds, x : Int, y : Int]
    <2>1. {"adding", "added", "subtracting", "subtracted", "compared"} \subseteq Kinds
      BY DEF Kinds
    <2> QED
      BY <1>1, <1>3, <2>1, MeaningFacts DEF Add, Adc, Sub, Sbb, Cmp
  <1>5. regs' \in [Regs -> Word] /\ eflags' \in FlagSet
    <2>1. CASE Add(r, s)
      BY <1>1, <1>2, <2>1, ComputeFacts DEF Add
    <2>2. CASE Adc(r, s)
      BY <1>1, <1>2, <2>2, ComputeFacts DEF Adc
    <2>3. CASE Sub(r, s)
      BY <1>1, <1>2, <2>3, ComputeFacts DEF Sub
    <2>4. CASE Sbb(r, s)
      BY <1>1, <1>2, <2>4, ComputeFacts DEF Sbb
    <2>5. CASE Cmp(r, s)
      BY <1>1, <1>2, <2>5 DEF Cmp, TypeOK
    <2> QED
      BY <2>1, <2>2, <2>3, <2>4, <2>5
  <1> QED
    BY <1>4, <1>5 DEF TypeOK, FlagSet

LEMMA LogicTypes ==
  ASSUME TypeOK, NEW r \in Regs, NEW s \in Word, NEW op, Logic(op, r, s) \/ Test(r, s)
  PROVE  TypeOK'
  <1>1. 0 \in Flag /\ s \in Int /\ 0 \in Int /\ "compared" \in Kinds
    BY WordFacts DEF Flag, Kinds
  <1>2. meaning' \in [kind : Kinds, x : Int, y : Int]
    BY <1>1, MeaningFacts DEF Logic, Test
  <1>3. regs' \in [Regs -> Word] /\ eflags' \in FlagSet
    <2>1. CASE Logic(op, r, s)
      <3>1. PICK res \in Word : Compute(r, [res |-> res, flags |-> Flags(Half, res, 0, 0)])
        BY <2>1 DEF Logic, Gated
      <3>2. Flags(Half, res, 0, 0) \in FlagSet
        BY <1>1, FlagsFacts
      <3> QED
        BY <3>1, <3>2, ComputeFacts
    <2>2. CASE Test(r, s)
      <3>1. PICK res \in Word : eflags' = Flags(Half, res, 0, 0)
        BY <2>2 DEF Test, Gated
      <3> QED
        BY <1>1, <2>2, <3>1, FlagsFacts DEF Test, TypeOK
    <2> QED
      BY <2>1, <2>2
  <1> QED
    BY <1>2, <1>3 DEF TypeOK, FlagSet

(* A byte in the place of the lowest one.                                  *)
LEMMA LowByteFacts ==
  ASSUME NEW x \in Word, NEW bit \in {0, 1}
  PROVE  x - (x % ByteBase) + bit \in Word
  <1> DEFINE h == x \div ByteBase  l == x % ByteBase  k == Base \div ByteBase
  <1>1. /\ ByteBase \in Nat \ {0} /\ ByteBase >= 2 /\ Base % ByteBase = 0
        /\ Base \in Nat /\ Base \in Int /\ x \in Int /\ 0 <= x /\ x < Base
    BY SizeAssumption, SizeFacts, WordFacts DEF Base
  <1>2. /\ h \in Nat /\ l \in 0 .. ByteBase - 1 /\ x = ByteBase * h + l
        /\ k \in Int /\ Base = ByteBase * k + 0
    BY <1>1, DivisionFacts
  <1> HIDE DEF h, k
  <1>3. h < k
    <2> SUFFICES ASSUME k <= h PROVE FALSE
      BY <1>2
    <2>1. ByteBase * k <= ByteBase * h
      BY <1>1, <1>2
    <2> DEFINE a == ByteBase * k  b == ByteBase * h
    <2>2. a \in Int /\ b \in Int /\ a <= b /\ x = b + l /\ Base = a + 0
      BY <1>1, <1>2, <2>1
    <2> HIDE DEF a, b, l
    <2> QED
      BY <1>1, <1>2, <2>2 DEF l
  <1>4. ByteBase * (h + 1) <= ByteBase * k
    BY <1>1, <1>2, <1>3
  <1>5. ByteBase * (h + 1) = ByteBase * h + ByteBase
    BY <1>1, <1>2
  <1> DEFINE a == ByteBase * k  b == ByteBase * h  c == ByteBase * (h + 1)
  <1>6. /\ a \in Int /\ b \in Int /\ c \in Int /\ 0 <= b /\ c <= a /\ c = b + ByteBase
        /\ Base = a + 0 /\ x = b + l /\ l \in Int
    BY <1>1, <1>2, <1>4, <1>5
  <1> HIDE DEF a, b, c, l
  <1>7. x - l + bit \in 0 .. Base - 1
    BY <1>1, <1>6
  <1> QED
    BY <1>7 DEF l, Word

LEMMA MoveTypes ==
  ASSUME TypeOK, NEW r \in Regs, NEW s \in Word, NEW cc, Mov(r, s) \/ Setcc(cc, r) \/ Cmov(cc, r)
  PROVE  TypeOK'
  <1>1. meaning' = Compared /\ eflags' = eflags
    BY DEF Mov, Setcc, Cmov
  <1>2. regs[r] - (regs[r] % ByteBase) + Bit(Holds(cc)) \in Word /\ regs[Other(r)] \in Word
    BY RegFacts, LowByteFacts DEF Bit
  <1>3. regs' \in [Regs -> Word]
    BY <1>2 DEF Mov, Setcc, Cmov, TypeOK
  <1> QED
    BY <1>1, <1>3, MeaningFacts DEF TypeOK

LEMMA HighFlagsFacts ==
  ASSUME TypeOK, NEW p
  PROVE  /\ HighFlags(p) \in FlagSet
         /\ HighFlags(p).CF = Bit(p) /\ HighFlags(p).OF = Bit(p)
  BY DEF HighFlags, TypeOK, FlagSet, Bit, Flag

LEMMA ImulToTypes ==
  ASSUME TypeOK, NEW r \in Regs, NEW s \in Word, NEW t \in Word, ImulTo(r, s, t)
  PROVE  TypeOK'
  <1>1. Signed(s) * Signed(t) \in Int
    BY WordFacts
  <1>2. (Signed(s) * Signed(t)) % Base \in Word
    BY <1>1, RemainderIsWord
  <1> QED
    BY <1>2, MeaningFacts, HighFlagsFacts DEF ImulTo, TypeOK, FlagSet

LEMMA ShiftTypes ==
  ASSUME TypeOK, NEW r \in Regs, NEW op \in {"shl", "shr", "sar"}, NEW n \in 1 .. Width - 1,
         Shift(op, r, n)
  PROVE  TypeOK'
  <1> DEFINE dest == regs[r]
  <1>1. /\ dest \in Word /\ dest \in Nat /\ dest < Base /\ Signed(dest) \in Int
        /\ Width \in Nat /\ n \in Nat /\ n - 1 \in Nat /\ Width - n \in Nat
        /\ 2 ^ n \in Nat \ {0} /\ Base \in Nat
    BY RegFacts, WordFacts, SizeFacts, PowerFacts
  <1> HIDE DEF dest
  <1>2. (dest * 2 ^ n) % Base \in Word
    BY <1>1, RemainderIsWord
  <1>3. dest \div 2 ^ n \in Word
    <2> DEFINE p == 2 ^ n  q == dest \div p  e == dest % p
    <2>1. p \in Nat \ {0}
      BY <1>1
    <2> HIDE DEF p
    <2>2. q \in Nat /\ e \in 0 .. p - 1 /\ dest = p * q + e
      <3>1. dest \in Int /\ dest >= 0
        BY <1>1
      <3> QED
        BY <2>1, <3>1, DivisionFacts, Zenon
    <2> HIDE DEF q, e
    <2>3. p * q >= q
      BY <2>1, <2>2
    <2>4. p * q \in Nat
      BY <2>1, <2>2
    <2>5. q <= dest
      BY <1>1, <2>1, <2>2, <2>3, <2>4
    <2>6. q \in Word
      BY <1>1, <2>2, <2>5 DEF Word
    <2> QED
      BY <2>6 DEF q, p
  <1>4. (Signed(dest) \div 2 ^ n) % Base \in Word
    <2>1. Signed(dest) \div 2 ^ n \in Int
      BY <1>1, DivisionFacts
    <2> QED
      BY <2>1, RemainderIsWord
  <1>5. BitOf(dest, Width - n) \in Flag /\ BitOf(dest, n - 1) \in Flag
    BY <1>1, BitFacts
  <1>6. \A p : Bit(p) \in Flag
    BY DEF Bit, Flag
  <1>7. Shifted(op, n, dest).res \in Word /\ Shifted(op, n, dest).flags \in FlagSet
    <2> DEFINE res == CASE op = "shl" -> (dest * 2 ^ n) % Base
                        [] op = "shr" -> dest \div 2 ^ n
                        [] op = "sar" -> (Signed(dest) \div 2 ^ n) % Base
               cf == IF op = "shl" THEN BitOf(dest, Width - n) ELSE BitOf(dest, n - 1)
               of == CASE op = "shl" -> n = 1 /\ Sign(Half, res) # cf
                       [] op = "shr" -> n = 1 /\ Sign(Half, dest) = 1
                       [] op = "sar" -> FALSE
    <2>1. res \in Word
      BY <1>2, <1>3, <1>4
    <2>2. cf \in Flag
      BY <1>5
    <2>3. Shifted(op, n, dest) = [res |-> res, flags |-> Flags(Half, res, cf, Bit(of))]
      BY DEF Shifted
    <2> HIDE DEF res, cf, of
    <2>4. Flags(Half, res, cf, Bit(of)) \in FlagSet
      BY <1>6, <2>1, <2>2, FlagsFacts
    <2> QED
      BY <2>1, <2>3, <2>4
  <1>8. regs' \in [Regs -> Word] /\ eflags' \in FlagSet
    BY <1>7, ComputeFacts DEF Shift, dest
  <1>9. meaning' \in [kind : Kinds, x : Int, y : Int]
    <2>1. op \in Kinds
      BY DEF Kinds
    <2>2. regs[r] \in Int /\ n \in Int
      BY <1>1 DEF dest
    <2> QED
      BY <2>1, <2>2, MeaningFacts DEF Shift
  <1> QED
    BY <1>8, <1>9 DEF TypeOK, FlagSet

(* MUL, IMUL, DIV, IDIV and CLTD.                                          *)
LEMMA PairTypes ==
  ASSUME TypeOK, NEW s \in Word, Mul(s) \/ Imul(s) \/ Div(s) \/ Idiv(s) \/ Cltd
  PROVE  TypeOK'
  <1> DEFINE e == regs["eax"]  se == Signed(regs["eax"])  ss == Signed(s)
  <1>1. /\ e \in Word /\ e \in Nat /\ e < Base /\ se \in Int
        /\ s \in Nat /\ s < Base /\ ss \in Int /\ Base \in Nat \ {0} /\ Half \in Nat \ {0}
        /\ Pair \in Nat /\ SignedPair \in Int /\ Base = 2 * Half
    BY RegFacts, WordFacts, SizeFacts
  <1> HIDE DEF e, se, ss
  <1>2. (s * e) \div Base \in Word /\ (s * e) % Base \in Word /\ s * e \in Nat
    <2>1. s * e \in Nat /\ s * e < Base * Base
      BY <1>1
    <2> DEFINE n == s * e
    <2> HIDE DEF n
    <2>2. n \div Base \in Nat /\ n % Base \in 0 .. Base - 1 /\ n = Base * (n \div Base) + (n % Base)
      <3>1. n \in Int /\ n >= 0
        BY <2>1 DEF n
      <3> QED
        BY <1>1, <3>1, DivisionFacts, Zenon
    <2> DEFINE q == n \div Base  r == n % Base
    <2> HIDE DEF q, r
    <2>3. q \in Nat /\ r \in 0 .. Base - 1 /\ Base * q + r < Base * Base
      BY <2>1, <2>2 DEF n, q, r
    <2>4. q < Base
      BY <1>1, <2>3
    <2>5. q \in Word /\ r \in Word
      BY <1>1, <2>3, <2>4 DEF Word
    <2> QED
      BY <2>1, <2>5 DEF q, r, n
  <1>3. (ss * se) % Base \in Word /\ ((ss * se) \div Base) % Base \in Word
    <2>1. ss * se \in Int
      BY <1>1
    <2>2. (ss * se) \div Base \in Int
      BY <1>1, <2>1, DivisionFacts
    <2> QED
      BY <2>1, <2>2, RemainderIsWord
  <1>4. ASSUME s # 0 PROVE (Pair \div s) % Base \in Word /\ Pair % s \in Word
    <2>1. s \in Nat \ {0} /\ Pair \in Int
      BY <1>1, <1>4
    <2>2. Pair \div s \in Int /\ Pair % s \in 0 .. s - 1
      BY <2>1, DivisionFacts
    <2>3. Pair % s \in Word
      BY <1>1, <2>2 DEF Word
    <2> QED
      BY <2>2, <2>3, RemainderIsWord
  <1>5. ASSUME s # 0
        PROVE  Quotient(SignedPair, ss) % Base \in Word /\ Remainder(SignedPair, ss) % Base \in Word
    <2>1. ss # 0
      BY <1>1, <1>5 DEF Signed, ss
    <2>2. Magnitude(SignedPair) \in Int /\ Magnitude(ss) \in Nat \ {0}
      BY <1>1, <2>1 DEF Magnitude
    <2>3. Magnitude(SignedPair) \div Magnitude(ss) \in Int
      BY <2>2, DivisionFacts
    <2>4. Quotient(SignedPair, ss) \in Int
      BY <2>3 DEF Quotient
    <2>5. Remainder(SignedPair, ss) \in Int
      BY <1>1, <2>4 DEF Remainder
    <2> QED
      BY <2>4, <2>5, RemainderIsWord
  <1>6. Base - 1 \in Word /\ 0 \in Word
    BY <1>1 DEF Word
  <1>7. regs' \in [Regs -> Word]
    <2>0. \A a, b \in Word : [eax |-> a, edx |-> b] \in [Regs -> Word]
      BY DEF Regs
    <2>1. CASE Mul(s)
      BY <1>2, <2>0, <2>1 DEF Mul, e
    <2>2. CASE Imul(s)
      <3>1. regs' = [eax |-> (ss * se) % Base, edx |-> ((ss * se) \div Base) % Base]
        BY <2>2 DEF Imul, ss, se
      <3> QED
        BY <1>3, <2>0, <3>1
    <2>3. CASE Div(s)
      BY <1>4, <2>3 DEF Div, Regs
    <2>4. CASE Idiv(s)
      <3>1. s # 0 /\ regs' = [eax |-> Quotient(SignedPair, ss) % Base,
                              edx |-> Remainder(SignedPair, ss) % Base]
        BY <2>4 DEF Idiv, ss
      <3> QED
        BY <1>5, <2>0, <3>1
    <2>5. CASE Cltd
      BY <1>6, <2>5 DEF Cltd, TypeOK
    <2> QED
      BY <2>1, <2>2, <2>3, <2>4, <2>5
  <1>8. eflags' \in FlagSet
    BY RegFacts, HighFlagsFacts DEF Mul, Imul, Div, Idiv, Cltd
  <1>9. meaning' \in [kind : Kinds, x : Int, y : Int]
    <2>1. {"product", "signed product", "divided", "signed divided", "extended"} \subseteq Kinds
      BY DEF Kinds
    <2>2. /\ regs["eax"] \in Int /\ Signed(regs["eax"]) \in Int /\ s \in Int /\ Signed(s) \in Int
          /\ Pair \in Int /\ SignedPair \in Int /\ 0 \in Int
      BY <1>1 DEF e, se, ss
    <2>3. \/ meaning' = Means("product", regs["eax"], s)
          \/ meaning' = Means("signed product", Signed(regs["eax"]), Signed(s))
          \/ meaning' = Means("divided", Pair, s)
          \/ meaning' = Means("signed divided", SignedPair, Signed(s))
          \/ meaning' = Means("extended", Signed(regs["eax"]), 0)
      BY Zenon DEF Mul, Imul, Div, Idiv, Cltd
    <2>4. \A kind \in Kinds : \A x, y \in Int : Means(kind, x, y) \in [kind : Kinds, x : Int, y : Int]
      BY MeaningFacts
    <2>5. /\ Means("product", regs["eax"], s) \in [kind : Kinds, x : Int, y : Int]
          /\ Means("signed product", Signed(regs["eax"]), Signed(s)) \in [kind : Kinds, x : Int, y : Int]
          /\ Means("divided", Pair, s) \in [kind : Kinds, x : Int, y : Int]
          /\ Means("signed divided", SignedPair, Signed(s)) \in [kind : Kinds, x : Int, y : Int]
          /\ Means("extended", Signed(regs["eax"]), 0) \in [kind : Kinds, x : Int, y : Int]
      BY <2>1, <2>2, <2>4, Zenon
    <2> QED
      BY <2>3, <2>5
  <1> QED
    BY <1>7, <1>8, <1>9 DEF TypeOK, FlagSet

LEMMA OneTypes ==
  ASSUME TypeOK, NEW r \in Regs, NEW n \in Nat, Inc(r) \/ Dec(r) \/ Neg(r) \/ Not(r) \/ Bt(r, n) \/ Clc
  PROVE  TypeOK'
  <1>1. /\ regs[r] \in Word /\ 0 \in Flag /\ 0 \in Word /\ 1 \in Word /\ Base - 1 \in Word
        /\ eflags \in FlagSet /\ regs[r] \in DataWord /\ 0 \in DataWord /\ 1 \in DataWord
    BY RegFacts, SizeFacts, ExtendedFacts DEF Flag, Word
  <1>2. CASE Inc(r)
    <2>1. regs' \in [Regs -> Word] /\ eflags' \in FlagSet
      BY <1>1, <1>2, OperationTypes, ComputeFacts DEF Inc
    <2> QED
      BY <1>2, <2>1, MeaningFacts DEF Inc, TypeOK, FlagSet
  <1>3. CASE Dec(r)
    <2>1. regs' \in [Regs -> Word] /\ eflags' \in FlagSet
      BY <1>1, <1>3, OperationTypes, ComputeFacts DEF Dec
    <2> QED
      BY <1>3, <2>1, MeaningFacts DEF Dec, TypeOK, FlagSet
  <1>4. CASE Neg(r)
    <2>1. regs' \in [Regs -> Word] /\ eflags' \in FlagSet
      BY <1>1, <1>4, OperationTypes, ComputeFacts DEF Neg
    <2> QED
      BY <1>4, <2>1, MeaningFacts DEF Neg, TypeOK, FlagSet
  <1>5. CASE Not(r)
    <2>1. DataBase - 1 - regs[r] \in DataWord
      BY <1>1, DataFacts DEF DataWord
    <2>2. regs' \in [Regs -> Word] /\ eflags' \in FlagSet
      BY <1>5, <2>1, OutcomeFacts, ComputeFacts DEF Not
    <2> QED
      BY <1>5, <2>2, MeaningFacts DEF Not, TypeOK, FlagSet
  <1>6. CASE Bt(r, n)
    <2>1. BitOf(regs[r], n) \in Flag
      BY <1>1, WordFacts, BitFacts
    <2>2. eflags' \in FlagSet
      BY <1>1, <1>6, <2>1 DEF Bt, FlagSet
    <2> QED
      BY <1>6, <2>2, MeaningFacts DEF Bt, TypeOK, FlagSet
  <1>7. CASE Clc
    <2>1. eflags' \in FlagSet
      BY <1>1, <1>7 DEF Clc, FlagSet
    <2> QED
      BY <1>7, <2>1, MeaningFacts DEF Clc, TypeOK, FlagSet
  <1> QED
    BY <1>2, <1>3, <1>4, <1>5, <1>6, <1>7

-----------------------------------------------------------------------------
(* Where a meaning comes from.  The steps that leave none, or only that of *)
(* a comparison that has been made, need no more be looked at.             *)

Meaningful ==
  \/ \E r \in Regs, s \in Word : Add(r, s) \/ Adc(r, s) \/ Sub(r, s) \/ Sbb(r, s) \/ Cmp(r, s) \/ Test(r, s)
  \/ \E s \in Word : Mul(s) \/ Imul(s) \/ Div(s) \/ Idiv(s) \/ Cltd
  \/ UNCHANGED vars

Shifting ==
  /\ meaning'.kind \in {"shl", "shr", "sar"}
  /\ \E op \in {"shl", "shr", "sar"}, n \in 1 .. Width - 1 : Shift(op, "eax", n)

LEMMA KindOfMeaning ==
  ASSUME NEW kind, NEW x, NEW y, meaning' = Means(kind, x, y)
  PROVE  meaning'.kind = kind
  BY DEF Means

LEMMA PairMeanings ==
  ASSUME NEW s, Mul(s) \/ Imul(s) \/ Div(s) \/ Idiv(s) \/ Cltd
  PROVE  meaning'.kind \in {"product", "signed product", "divided", "signed divided", "extended"}
  <1>1. \/ meaning' = Means("product", regs["eax"], s)
        \/ meaning' = Means("signed product", Signed(regs["eax"]), Signed(s))
        \/ meaning' = Means("divided", Pair, s)
        \/ meaning' = Means("signed divided", SignedPair, Signed(s))
        \/ meaning' = Means("extended", Signed(regs["eax"]), 0)
    BY Zenon DEF Mul, Imul, Div, Idiv, Cltd
  <1> DEFINE kinds == {"product", "signed product", "divided", "signed divided", "extended"}
  <1>3. /\ "product" \in kinds /\ "signed product" \in kinds /\ "divided" \in kinds
        /\ "signed divided" \in kinds /\ "extended" \in kinds
    OBVIOUS
  <1> HIDE DEF kinds
  <1>4. meaning'.kind \in kinds
    BY <1>1, <1>3, KindOfMeaning, Zenon
  <1> QED
    BY <1>4 DEF kinds

LEMMA Steps ==
  ASSUME TypeOK, [Next]_vars
  PROVE  /\ TypeOK'
         /\ \/ Meaningful
            \/ meaning'.kind = "nothing" \/ Shifting
            \/ meaning'.kind = "compared" /\ meaning' = meaning /\ eflags' = eflags
  <1> DEFINE Goal == /\ TypeOK'
                     /\ \/ Meaningful
                        \/ meaning'.kind = "nothing" \/ Shifting
                        \/ meaning'.kind = "compared" /\ meaning' = meaning /\ eflags' = eflags
  <1>1. Nothing.kind = "nothing"
    BY DEF Nothing, Means
  <1>2. ASSUME NEW r \in Regs, NEW s \in Word, NEW cc, Mov(r, s) \/ Setcc(cc, r) \/ Cmov(cc, r)
        PROVE  Goal
    <2>1. TypeOK'
      BY <1>2, MoveTypes
    <2>2. meaning' = Compared /\ eflags' = eflags
      BY <1>2 DEF Mov, Setcc, Cmov
    <2> QED
      BY <1>1, <2>1, <2>2 DEF Compared
  <1>3. ASSUME NEW r \in Regs, NEW s \in Word, NEW op, Logic(op, r, s)
        PROVE  Goal
    BY <1>1, <1>3, LogicTypes DEF Logic
  <1>4. ASSUME NEW r \in Regs, NEW s \in Word, NEW t \in Word, ImulTo(r, s, t)
        PROVE  Goal
    BY <1>1, <1>4, ImulToTypes DEF ImulTo
  <1>5. CASE OnWords
    <2> SUFFICES ASSUME NEW r \in Regs, NEW s \in Word,
                        \/ Mov(r, s) \/ Add(r, s) \/ Adc(r, s) \/ Sub(r, s) \/ Sbb(r, s)
                        \/ Cmp(r, s) \/ Test(r, s) \/ ImulTo(r, s, regs[r]) \/ ImulTo(r, s, regs[Other(r)])
                        \/ \E op \in {"and", "or", "xor"} : Logic(op, r, s)
                 PROVE  Goal
      BY <1>5 DEF OnWords
    <2>1. CASE Add(r, s) \/ Adc(r, s) \/ Sub(r, s) \/ Sbb(r, s) \/ Cmp(r, s)
      BY <2>1, ArithmeticTypes DEF Meaningful
    <2>2. CASE Test(r, s)
      BY <2>2, LogicTypes DEF Meaningful
    <2>3. regs[r] \in Word /\ regs[Other(r)] \in Word
      BY RegFacts
    <2> HIDE DEF Goal
    <2> QED
      BY <1>2, <1>3, <1>4, <2>1, <2>2, <2>3
  <1>6. CASE OnPair
    <2>1. PICK s \in Word : Cltd \/ Mul(s) \/ Imul(s) \/ Div(s) \/ Idiv(s)
      <3>1. 0 \in Word
        BY SizeFacts DEF Word
      <3> QED
        BY <1>6, <3>1 DEF OnPair
    <2> QED
      BY <2>1, PairTypes DEF Meaningful
  <1>7. CASE OnOne
    <2> SUFFICES ASSUME NEW r \in Regs,
                        \/ Inc(r) \/ Dec(r) \/ Neg(r) \/ Not(r)
                        \/ \E op \in {"shl", "shr", "sar"}, n \in 1 .. Width - 1 : Shift(op, r, n)
                        \/ \E cc \in Conditions : Setcc(cc, r) \/ Cmov(cc, r)
                        \/ \E n \in 0 .. Width - 1 : Bt(r, n)
                 PROVE  Goal
      BY <1>7 DEF OnOne
    <2>1. ASSUME NEW n \in Nat, Inc(r) \/ Dec(r) \/ Neg(r) \/ Not(r) \/ Bt(r, n)
          PROVE  Goal
      <3>1. TypeOK'
        BY <2>1, OneTypes
      <3>2. meaning' = Nothing
        BY <2>1 DEF Inc, Dec, Neg, Not, Bt
      <3> QED
        BY <1>1, <3>1, <3>2
    <2>2. ASSUME NEW op \in {"shl", "shr", "sar"}, NEW n \in 1 .. Width - 1, Shift(op, r, n)
          PROVE  Goal
      <3>1. TypeOK'
        BY <2>2, ShiftTypes
      <3>2. \/ meaning'.kind = "nothing"
            \/ r = "eax" /\ meaning'.kind \in {"shl", "shr", "sar"}
        BY <1>1, <2>2 DEF Shift, Means
      <3>3. meaning'.kind = "nothing" \/ Shifting
        BY <2>2, <3>2 DEF Shifting
      <3> QED
        BY <3>1, <3>3
    <2>3. 0 \in Word /\ 0 \in Nat /\ 0 .. Width - 1 \subseteq Nat
      BY SizeFacts DEF Word
    <2> HIDE DEF Goal
    <2> QED
      BY <1>2, <2>1, <2>2, <2>3
  <1>8. CASE Clc
    <2>1. TypeOK'
      <3>1. "eax" \in Regs /\ 0 \in Nat
        BY DEF Regs
      <3> QED
        BY <1>8, <3>1, OneTypes
    <2> QED
      BY <1>1, <1>8, <2>1 DEF Clc
  <1>9. CASE UNCHANGED vars
    BY <1>9 DEF vars, Meaningful, TypeOK
  <1> QED
    BY <1>5, <1>6, <1>7, <1>8, <1>9 DEF Next

-----------------------------------------------------------------------------
(* Comparisons.                                                            *)

(* The conditions need only this of the flags.                             *)
LEMMA Decided ==
  ASSUME NEW x \in Word, NEW y \in Word, meaning' = Means("compared", x, y), eflags' \in FlagSet,
         eflags'.CF = 1 <=> x < y, eflags'.ZF = 1 <=> x = y,
         eflags'.SF = eflags'.OF <=> Signed(x) >= Signed(y)
  PROVE  ComparisonsDecide'
  <1> DEFINE cf == eflags'.CF  zf == eflags'.ZF  sf == eflags'.SF  of == eflags'.OF
  <1>1. /\ cf \in {0, 1} /\ zf \in {0, 1} /\ (cf = 1 <=> x < y) /\ (zf = 1 <=> x = y)
        /\ (sf = of <=> Signed(x) >= Signed(y))
    BY DEF FlagSet, Flag
  <1>2. x \in Int /\ y \in Int /\ Signed(x) \in Int /\ Signed(y) \in Int /\ (x = y <=> Signed(x) = Signed(y))
    BY SizeFacts DEF Signed, Word
  <1>3. /\ Holds("e")' <=> zf = 1
        /\ Holds("ne")' <=> zf = 0
        /\ Holds("a")' <=> cf = 0 /\ zf = 0
        /\ Holds("ae")' <=> cf = 0 \/ zf = 1
        /\ Holds("b")' <=> cf = 1 /\ zf = 0
        /\ Holds("be")' <=> cf = 1 \/ zf = 1
        /\ Holds("g")' <=> sf = of /\ zf = 0
        /\ Holds("ge")' <=> sf = of \/ zf = 1
        /\ Holds("l")' <=> sf # of /\ zf = 0
        /\ Holds("le")' <=> sf # of \/ zf = 1
    BY DEF Holds
  <1> HIDE DEF cf, zf, sf, of
  <1>4. /\ Holds("e")' <=> x = y
        /\ Holds("ne")' <=> x # y
        /\ Holds("a")' <=> x > y
        /\ Holds("ae")' <=> x >= y
        /\ Holds("b")' <=> x < y
        /\ Holds("be")' <=> x <= y
        /\ Holds("g")' <=> Signed(x) > Signed(y)
        /\ Holds("ge")' <=> Signed(x) >= Signed(y)
        /\ Holds("l")' <=> Signed(x) < Signed(y)
        /\ Holds("le")' <=> Signed(x) <= Signed(y)
    BY <1>1, <1>2, <1>3
  <1>5. meaning'.x = x /\ meaning'.y = y
    BY DEF Means
  <1> QED
    BY <1>4, <1>5 DEF ComparisonsDecide, Signed

LEMMA ComparisonsKept ==
  ASSUME TypeOK, ComparisonsDecide, [Next]_vars
  PROVE  ComparisonsDecide'
  <1>1. TypeOK'
    BY Steps
  <1>2. eflags' \in FlagSet
    BY <1>1 DEF TypeOK, FlagSet
  <1>3. ASSUME NEW r \in Regs, NEW s \in Word, Cmp(r, s)
        PROVE  ComparisonsDecide'
    <2> DEFINE x == regs[r]
    <2>1. x \in Word /\ x \in Int /\ s \in Int /\ x < Base /\ s < Base /\ x >= 0 /\ s >= 0 /\ 0 \in Flag
      BY RegFacts, WordFacts DEF Flag
    <2>2. meaning' = Means("compared", x, s) /\ eflags' = Minus(Extended(s), Extended(x), 0).flags
      BY <1>3 DEF Cmp
    <2> HIDE DEF x
    <2> DEFINE out == Minus(Extended(s), Extended(x), 0)  diff == Signed(x) - Signed(s) - 0
    <2>3. /\ out.flags.SF # out.flags.OF <=> diff < 0
          /\ out.flags.CF = 1 <=> x - s - 0 < 0
          /\ out.flags.ZF = 1 <=> s = x
      BY <2>1, MinusFacts
    <2>4. diff < 0 <=> ~(Signed(x) >= Signed(s))
      BY <2>1, WordFacts
    <2>5. x - s - 0 < 0 <=> x < s
      BY <2>1
    <2> QED
      BY <1>2, <2>1, <2>2, <2>3, <2>4, <2>5, Decided
  <1>4. ASSUME NEW r \in Regs, NEW s \in Word, Test(r, s)
        PROVE  ComparisonsDecide'
    <2>1. CASE s = regs[r]
      <3>1. PICK res \in Gated("and", s, s) : eflags' = Flags(Half, res, 0, 0)
        BY <1>4, <2>1 DEF Test
      <3>2. res \in Word /\ \A i \in 0 .. Width - 1 : BitOf(res, i) = Bit(BitOf(s, i) = 1)
        BY <3>1 DEF Gated, Gate
      <3>3. \A i \in 0 .. Width - 1 : BitOf(s, i) \in {0, 1}
        BY WordFacts, BitFacts, SizeFacts DEF Flag
      <3>4. \A i \in 0 .. Width - 1 : BitOf(res, i) = BitOf(s, i)
        BY <3>2, <3>3 DEF Bit
      <3>5. res = s
        BY <3>2, <3>4, BitsDetermine
      <3>6. meaning' = Means("compared", s, 0) /\ 0 \in Word /\ s \in Nat
        BY <1>4, <2>1, SizeFacts, WordFacts DEF Test, Word
      <3>7. /\ eflags'.CF = 0 /\ eflags'.OF = 0 /\ eflags'.ZF = Bit(s = 0) /\ eflags'.SF = Sign(Half, s)
        BY <3>1, <3>5 DEF Flags
      <3>8. (Bit(s = 0) = 1 <=> s = 0) /\ ~(s < 0) /\ (Sign(Half, s) = 0 <=> Signed(s) >= Signed(0))
        BY <3>6, SizeFacts DEF Bit, Sign, Signed, Word
      <3> QED
        BY <1>2, <3>6, <3>7, <3>8, Decided
    <2>2. CASE s # regs[r]
      BY <1>4, <2>2 DEF Test, Nothing, Means, ComparisonsDecide
    <2> QED
      BY <2>1, <2>2
  <1>5. ASSUME meaning'.kind # "compared" PROVE ComparisonsDecide'
    BY <1>5 DEF ComparisonsDecide
  <1>6. ASSUME meaning' = meaning, eflags' = eflags PROVE ComparisonsDecide'
    BY <1>6 DEF ComparisonsDecide, Holds
  <1>7. CASE Meaningful
    <2>1. ASSUME NEW r \in Regs, NEW s \in Word, Add(r, s) \/ Adc(r, s) \/ Sub(r, s) \/ Sbb(r, s)
          PROVE  meaning'.kind # "compared"
      BY <2>1 DEF Add, Adc, Sub, Sbb, Means, Nothing
    <2>2. ASSUME NEW s \in Word, Mul(s) \/ Imul(s) \/ Div(s) \/ Idiv(s) \/ Cltd
          PROVE  meaning'.kind # "compared"
      BY <2>2, PairMeanings
    <2> QED
      BY <1>3, <1>4, <1>5, <1>6, <1>7, <2>1, <2>2, Zenon DEF Meaningful, vars
  <1> QED
    BY <1>5, <1>6, <1>7, Steps DEF Shifting

-----------------------------------------------------------------------------
(* Long arithmetic.                                                        *)

LEMMA DigitFacts ==
  ASSUME NEW h \in Int, NEW k \in Int, NEW l \in Word
  PROVE  /\ h * Base + l < k * Base <=> h < k
         /\ k * Base <= h * Base + l <=> k <= h
  <1>1. l \in 0 .. Base - 1 /\ Base \in Nat \ {0}
    BY SizeFacts DEF Word
  <1>2. ASSUME h < k PROVE h * Base + l < k * Base
    <2>1. h + 1 <= k
      BY <1>2
    <2>2. (h + 1) * Base <= k * Base
      BY <1>1, <2>1
    <2>3. (h + 1) * Base = h * Base + Base
      BY <1>1
    <2> DEFINE a == h * Base  b == k * Base  c == (h + 1) * Base
    <2>4. a \in Int /\ b \in Int /\ c \in Int /\ c <= b /\ c = a + Base
      BY <1>1, <2>2, <2>3
    <2> HIDE DEF a, b, c
    <2>5. a + l < b
      BY <1>1, <2>4
    <2> QED
      BY <2>5 DEF a, b
  <1>3. ASSUME k <= h PROVE k * Base <= h * Base + l
    <2>1. k * Base <= h * Base
      BY <1>1, <1>3
    <2> DEFINE a == h * Base  b == k * Base
    <2>2. a \in Int /\ b \in Int /\ b <= a
      BY <1>1, <2>1
    <2> HIDE DEF a, b
    <2>3. b <= a + l
      BY <1>1, <2>2
    <2> QED
      BY <2>3 DEF a, b
  <1> DEFINE a == h * Base  b == k * Base
  <1>4. a \in Int /\ b \in Int /\ l \in Int /\ (h < k => a + l < b) /\ (k <= h => b <= a + l)
    BY <1>1, <1>2, <1>3
  <1> HIDE DEF a, b
  <1>5. (a + l < b <=> h < k) /\ (b <= a + l <=> k <= h)
    BY <1>4
  <1> QED
    BY <1>5 DEF a, b

LEMMA SignedLongFacts ==
  ASSUME NEW h \in Word, NEW l \in Word
  PROVE  SignedLong(h * Base + l) = Signed(h) * Base + l
  <1>1. h \in Int /\ Half \in Int /\ Base \in Int /\ l \in Int
    BY WordFacts, SizeFacts
  <1>2. Half * Base <= h * Base + l <=> Half <= h
    BY <1>1, DigitFacts
  <1>3. (h * Base + l) - Base * Base = (h - Base) * Base + l
    BY <1>1
  <1>4. h * Base + l >= Half * Base <=> h >= Half
    BY <1>1, <1>2
  <1> DEFINE n == h * Base + l
  <1>5. SignedLong(n) = IF n >= Half * Base THEN n - Base * Base ELSE n
    BY DEF SignedLong, Long
  <1>6. CASE h >= Half
    <2>1. Signed(h) = h - Base
      BY <1>6 DEF Signed
    <2>2. SignedLong(n) = n - Base * Base
      BY <1>4, <1>5, <1>6
    <2> QED
      BY <1>3, <2>1, <2>2, Zenon
  <1>7. CASE ~(h >= Half)
    <2>1. Signed(h) = h
      BY <1>7 DEF Signed
    <2>2. SignedLong(n) = n
      BY <1>4, <1>5, <1>7
    <2> QED
      BY <2>1, <2>2
  <1> QED
    BY <1>6, <1>7

(* A long number fits by its upper digit.                                  *)
LEMMA FitsFacts ==
  ASSUME NEW h \in Int, NEW l \in Word
  PROVE  Fits(h * Base + l) <=> -DataHalf <= h /\ h < DataHalf
  <1>1. DataHalf \in Int /\ -DataHalf \in Int /\ Base \in Int
    BY SizeFacts, DataFacts
  <1>2. (-DataHalf) * Base <= h * Base + l <=> -DataHalf <= h
    BY <1>1, DigitFacts
  <1>3. h * Base + l < DataHalf * Base <=> h < DataHalf
    BY <1>1, DigitFacts
  <1>4. -(DataHalf * Base) = (-DataHalf) * Base
    BY <1>1
  <1> QED
    BY <1>2, <1>3, <1>4 DEF Fits

(* Between ADD and ADC, and between SUB and SBB, the upper digits have not *)
(* been touched.                                                           *)
LowInv ==
  meaning.kind \in {"adding", "subtracting"} =>
    meaning.y \in Word /\ \E l \in Word : meaning.x = regs["edx"] * Base + l

LEMMA LongKept ==
  ASSUME TypeOK, LowInv, LongArithmetic, [Next]_vars
  PROVE  LowInv' /\ LongArithmetic'
  <1> DEFINE Goal == LowInv' /\ LongArithmetic'
             e == regs["eax"]  d == regs["edx"]
  <1>1. ASSUME meaning'.kind \notin {"adding", "added", "subtracting", "subtracted"} PROVE Goal
    BY <1>1 DEF LowInv, LongArithmetic, AddsLow, AddsLong, SubtractsLow, SubtractsLong
  <1>2. /\ e \in Word /\ d \in Word /\ eflags.CF \in Flag /\ 0 \in Flag /\ "eax" \in Regs /\ "edx" \in Regs
        /\ regs \in [Regs -> Word] /\ e \in Int /\ d \in Int /\ Base \in Int
    BY RegFacts, WordFacts, SizeFacts DEF Flag, TypeOK
  <1>3. /\ Nothing.kind = "nothing"
        /\ \A kind, x, y : /\ Means(kind, x, y).kind = kind /\ Means(kind, x, y).x = x
                           /\ Means(kind, x, y).y = y
    BY DEF Nothing, Means
  <1>4. \A r \in Regs : r = "eax" \/ r = "edx"
    BY DEF Regs
  <1>5. ASSUME NEW s \in Word, Add("eax", s) PROVE Goal
    <2> DEFINE out == Plus(Extended(s), Extended(e), 0)  res == out.res  cf == out.flags.CF
    <2>1. /\ res \in Word /\ out.flags \in FlagSet /\ res + cf * Base = s + e + 0
      BY <1>2, PlusFacts
    <2>2. s \in Int /\ res \in Int /\ cf \in Int
      BY <2>1, WordFacts DEF FlagSet, Flag
    <2>3. regs'["eax"] = res /\ regs'["edx"] = d /\ eflags'.CF = cf
      BY <1>2, <1>5 DEF Add, Compute
    <2>4. meaning' = Means("adding", d * Base + e, s)
      BY <1>5 DEF Add, Pair
    <2>5. meaning'.kind = "adding" /\ meaning'.x = d * Base + e /\ meaning'.y = s
      BY <1>3, <2>4
    <2> HIDE DEF e, d, out, res, cf
    <2>6. LowInv'
      BY <1>2, <2>3, <2>5 DEF LowInv
    <2>7. (d * Base + res) + cf * Base = (d * Base + e) + s
      <3> DEFINE m == d * Base  c == cf * Base
      <3>1. m \in Int /\ c \in Int /\ res + c = s + e + 0
        BY <1>2, <2>1, <2>2
      <3> HIDE DEF m, c
      <3>2. (m + res) + c = (m + e) + s
        BY <1>2, <2>2, <3>1
      <3> QED
        BY <3>2 DEF m, c
    <2>8. AddsLow'
      BY <2>3, <2>5, <2>7 DEF AddsLow, Pair
    <2>9. AddsLong' /\ SubtractsLow' /\ SubtractsLong'
      BY <2>5 DEF AddsLong, SubtractsLow, SubtractsLong
    <2> QED
      BY <2>6, <2>8, <2>9 DEF LongArithmetic
  <1>6. ASSUME NEW s \in Word, Sub("eax", s) PROVE Goal
    <2> DEFINE out == Minus(Extended(s), Extended(e), 0)  res == out.res  cf == out.flags.CF
    <2>1. /\ res \in Word /\ out.flags \in FlagSet /\ res - cf * Base = e - s - 0
      BY <1>2, MinusFacts
    <2>2. s \in Int /\ res \in Int /\ cf \in Int
      BY <2>1, WordFacts DEF FlagSet, Flag
    <2>3. regs'["eax"] = res /\ regs'["edx"] = d /\ eflags'.CF = cf
      BY <1>2, <1>6 DEF Sub, Compute
    <2>4. meaning' = Means("subtracting", d * Base + e, s)
      BY <1>6 DEF Sub, Pair
    <2>5. meaning'.kind = "subtracting" /\ meaning'.x = d * Base + e /\ meaning'.y = s
      BY <1>3, <2>4
    <2> HIDE DEF e, d, out, res, cf
    <2>6. LowInv'
      BY <1>2, <2>3, <2>5 DEF LowInv
    <2>7. (d * Base + res) - cf * Base = (d * Base + e) - s
      <3> DEFINE m == d * Base  c == cf * Base
      <3>1. m \in Int /\ c \in Int /\ res - c = e - s - 0
        BY <1>2, <2>1, <2>2
      <3> HIDE DEF m, c
      <3>2. (m + res) - c = (m + e) - s
        BY <1>2, <2>2, <3>1
      <3> QED
        BY <3>2 DEF m, c
    <2>8. SubtractsLow'
      BY <2>3, <2>5, <2>7 DEF SubtractsLow, Pair
    <2>9. AddsLow' /\ AddsLong' /\ SubtractsLong'
      BY <2>5 DEF AddsLow, AddsLong, SubtractsLong
    <2> QED
      BY <2>6, <2>8, <2>9 DEF LongArithmetic
  <1>7. ASSUME NEW s \in Word, Adc("edx", s), meaning.kind = "adding" PROVE Goal
    <2> DEFINE c == eflags.CF  y == meaning.y
               out == Plus(Extended(s), Extended(d), c)  res == out.res  cf == out.flags.CF
    <2>1. PICK l \in Word : meaning.x = d * Base + l
      BY <1>7 DEF LowInv
    <2>2. y \in Word /\ (d * Base + e) + c * Base = (d * Base + l) + y
      BY <1>7, <2>1 DEF LowInv, LongArithmetic, AddsLow, Pair
    <2>3. /\ res \in Word /\ out.flags \in FlagSet /\ res + cf * Base = s + d + c
          /\ out.flags.OF = 0 <=> -DataHalf <= Signed(s) + Signed(d) + c /\ Signed(s) + Signed(d) + c < DataHalf
          /\ out.flags.SF # out.flags.OF <=> Signed(s) + Signed(d) + c < 0
      BY <1>2, PlusFacts
    <2>4. regs'["eax"] = e /\ regs'["edx"] = res /\ eflags' = out.flags
      BY <1>2, <1>7 DEF Adc, Compute
    <2>5. meaning' = Means("added", meaning.x, s * Base + y)
      BY <1>7 DEF Adc
    <2>6. meaning'.kind = "added" /\ meaning'.x = d * Base + l /\ meaning'.y = s * Base + y
      BY <1>3, <2>1, <2>5
    <2>7. /\ s \in Int /\ res \in Int /\ cf \in Int /\ c \in Int /\ l \in Int /\ y \in Int
          /\ Signed(s) \in Int /\ Signed(d) \in Int
      <3>1. \A w \in Word : w \in Int /\ Signed(w) \in Int
        BY WordFacts
      <3>2. \A f \in FlagSet : f.CF \in Int
        BY DEF FlagSet, Flag
      <3>3. eflags.CF \in Int
        BY <1>2 DEF Flag
      <3> HIDE DEF e, d, y, out
      <3> QED
        BY <1>2, <2>1, <2>2, <2>3, <3>1, <3>2, <3>3
    <2>8. SignedLong(d * Base + l) = Signed(d) * Base + l /\ SignedLong(s * Base + y) = Signed(s) * Base + y
      BY <1>2, <2>2, SignedLongFacts
    <2> DEFINE sd == Signed(d)  ss == Signed(s)  t == ss + sd + c
    <2>9. t \in Int /\ sd \in Int /\ ss \in Int
      BY <2>7
    <2> HIDE DEF e, d, c, y, out, res, cf, sd, ss
    <2>10. (res * Base + e) + cf * (Base * Base) = (d * Base + l) + (s * Base + y)
      <3>1. (res + cf * Base) * Base = (s + d + c) * Base
        BY <2>3
      <3>2. (res + cf * Base) * Base = res * Base + cf * (Base * Base)
        BY <1>2, <2>7
      <3>3. (s + d + c) * Base = s * Base + d * Base + c * Base
        BY <1>2, <2>7
      <3> DEFINE rb == res * Base  cb == cf * (Base * Base)  sb == s * Base  db == d * Base  b == c * Base
      <3>4. rb \in Int /\ cb \in Int /\ sb \in Int /\ db \in Int /\ b \in Int
        BY <1>2, <2>7
      <3>5. rb + cb = sb + db + b /\ (db + e) + b = (db + l) + y
        BY <2>2, <3>1, <3>2, <3>3
      <3> HIDE DEF rb, cb, sb, db, b
      <3>6. (rb + e) + cb = (db + l) + (sb + y)
        BY <1>2, <2>7, <3>4, <3>5
      <3> QED
        BY <3>6 DEF rb, cb, sb, db
    <2>11. (sd * Base + l) + (ss * Base + y) = t * Base + e
      <3>1. t * Base = ss * Base + sd * Base + c * Base
        BY <1>2, <2>7, <2>9
      <3> DEFINE sb == ss * Base  db == sd * Base  b == c * Base  tb == t * Base  dl == d * Base
      <3>2. sb \in Int /\ db \in Int /\ b \in Int /\ tb \in Int /\ dl \in Int
        BY <1>2, <2>7, <2>9
      <3>3. tb = sb + db + b /\ (dl + e) + b = (dl + l) + y
        BY <2>2, <3>1
      <3> HIDE DEF sb, db, b, tb, dl
      <3>4. (db + l) + (sb + y) = tb + e
        BY <1>2, <2>7, <3>2, <3>3
      <3> QED
        BY <3>4 DEF sb, db, tb
    <2> HIDE DEF t
    <2>12. (Fits(t * Base + e) <=> -DataHalf <= t /\ t < DataHalf) /\ (t * Base + e < 0 <=> t < 0)
      <3>1. 0 \in Int /\ 0 * Base = 0
        BY <1>2
      <3>2. t * Base + e < 0 * Base <=> t < 0
        BY <1>2, <2>9, <3>1, DigitFacts
      <3>3. Fits(t * Base + e) <=> -DataHalf <= t /\ t < DataHalf
        BY <1>2, <2>9, FitsFacts
      <3> QED
        BY <3>1, <3>2, <3>3
    <2> DEFINE exact == SignedLong(d * Base + l) + SignedLong(s * Base + y)
    <2>13. (out.flags.OF = 0 <=> Fits(exact)) /\ (out.flags.SF # out.flags.OF <=> exact < 0)
      BY <2>3, <2>8, <2>11, <2>12 DEF t, sd, ss
    <2>14. AddsLong'
      BY <2>4, <2>6, <2>10, <2>13 DEF AddsLong, SignedResult, Pair, Long, Fits, SignedLong, cf
    <2>15. LowInv' /\ AddsLow' /\ SubtractsLow' /\ SubtractsLong'
      BY <2>6 DEF LowInv, AddsLow, SubtractsLow, SubtractsLong
    <2> QED
      BY <2>14, <2>15 DEF LongArithmetic
  <1>8. ASSUME NEW s \in Word, Sbb("edx", s), meaning.kind = "subtracting" PROVE Goal
    <2> DEFINE c == eflags.CF  y == meaning.y
               out == Minus(Extended(s), Extended(d), c)  res == out.res  cf == out.flags.CF
    <2>1. PICK l \in Word : meaning.x = d * Base + l
      BY <1>8 DEF LowInv
    <2>2. y \in Word /\ (d * Base + e) - c * Base = (d * Base + l) - y
      BY <1>8, <2>1 DEF LowInv, LongArithmetic, SubtractsLow, Pair
    <2>3. /\ res \in Word /\ out.flags \in FlagSet /\ res - cf * Base = d - s - c
          /\ out.flags.OF = 0 <=> -DataHalf <= Signed(d) - Signed(s) - c /\ Signed(d) - Signed(s) - c < DataHalf
          /\ out.flags.SF # out.flags.OF <=> Signed(d) - Signed(s) - c < 0
      BY <1>2, MinusFacts
    <2>4. regs'["eax"] = e /\ regs'["edx"] = res /\ eflags' = out.flags
      BY <1>2, <1>8 DEF Sbb, Compute
    <2>5. meaning' = Means("subtracted", meaning.x, s * Base + y)
      BY <1>8 DEF Sbb
    <2>6. meaning'.kind = "subtracted" /\ meaning'.x = d * Base + l /\ meaning'.y = s * Base + y
      BY <1>3, <2>1, <2>5
    <2>7. /\ s \in Int /\ res \in Int /\ cf \in Int /\ c \in Int /\ l \in Int /\ y \in Int
          /\ Signed(s) \in Int /\ Signed(d) \in Int
      <3>1. \A w \in Word : w \in Int /\ Signed(w) \in Int
        BY WordFacts
      <3>2. \A f \in FlagSet : f.CF \in Int
        BY DEF FlagSet, Flag
      <3>3. eflags.CF \in Int
        BY <1>2 DEF Flag
      <3> HIDE DEF e, d, y, out
      <3> QED
        BY <1>2, <2>1, <2>2, <2>3, <3>1, <3>2, <3>3
    <2>8. SignedLong(d * Base + l) = Signed(d) * Base + l /\ SignedLong(s * Base + y) = Signed(s) * Base + y
      BY <1>2, <2>2, SignedLongFacts
    <2> DEFINE sd == Signed(d)  ss == Signed(s)  t == sd - ss - c
    <2>9. t \in Int /\ sd \in Int /\ ss \in Int
      BY <2>7
    <2> HIDE DEF e, d, c, y, out, res, cf, sd, ss
    <2>10. (res * Base + e) - cf * (Base * Base) = (d * Base + l) - (s * Base + y)
      <3>1. (res - cf * Base) * Base = (d - s - c) * Base
        BY <2>3
      <3>2. (res - cf * Base) * Base = res * Base - cf * (Base * Base)
        BY <1>2, <2>7
      <3>3. (d - s - c) * Base = d * Base - s * Base - c * Base
        BY <1>2, <2>7
      <3> DEFINE rb == res * Base  cb == cf * (Base * Base)  sb == s * Base  db == d * Base  b == c * Base
      <3>4. rb \in Int /\ cb \in Int /\ sb \in Int /\ db \in Int /\ b \in Int
        BY <1>2, <2>7
      <3>5. rb - cb = db - sb - b /\ (db + e) - b = (db + l) - y
        BY <2>2, <3>1, <3>2, <3>3
      <3> HIDE DEF rb, cb, sb, db, b
      <3>6. (rb + e) - cb = (db + l) - (sb + y)
        BY <1>2, <2>7, <3>4, <3>5
      <3> QED
        BY <3>6 DEF rb, cb, sb, db
    <2>11. (sd * Base + l) - (ss * Base + y) = t * Base + e
      <3>1. t * Base = sd * Base - ss * Base - c * Base
        BY <1>2, <2>7, <2>9
      <3> DEFINE sb == ss * Base  db == sd * Base  b == c * Base  tb == t * Base  dl == d * Base
      <3>2. sb \in Int /\ db \in Int /\ b \in Int /\ tb \in Int /\ dl \in Int
        BY <1>2, <2>7, <2>9
      <3>3. tb = db - sb - b /\ (dl + e) - b = (dl + l) - y
        BY <2>2, <3>1
      <3> HIDE DEF sb, db, b, tb, dl
      <3>4. (db + l) - (sb + y) = tb + e
        BY <1>2, <2>7, <3>2, <3>3
      <3> QED
        BY <3>4 DEF sb, db, tb
    <2> HIDE DEF t
    <2>12. (Fits(t * Base + e) <=> -DataHalf <= t /\ t < DataHalf) /\ (t * Base + e < 0 <=> t < 0)
      <3>1. 0 \in Int /\ 0 * Base = 0
        BY <1>2
      <3>2. t * Base + e < 0 * Base <=> t < 0
        BY <1>2, <2>9, <3>1, DigitFacts
      <3>3. Fits(t * Base + e) <=> -DataHalf <= t /\ t < DataHalf
        BY <1>2, <2>9, FitsFacts
      <3> QED
        BY <3>1, <3>2, <3>3
    <2> DEFINE exact == SignedLong(d * Base + l) - SignedLong(s * Base + y)
    <2>13. (out.flags.OF = 0 <=> Fits(exact)) /\ (out.flags.SF # out.flags.OF <=> exact < 0)
      BY <2>3, <2>8, <2>11, <2>12 DEF t, sd, ss
    <2>14. SubtractsLong'
      BY <2>4, <2>6, <2>10, <2>13 DEF SubtractsLong, SignedResult, Pair, Long, Fits, SignedLong, cf
    <2>15. LowInv' /\ AddsLow' /\ AddsLong' /\ SubtractsLow'
      BY <2>6 DEF LowInv, AddsLow, AddsLong, SubtractsLow
    <2> QED
      BY <2>14, <2>15 DEF LongArithmetic
  <1>9. CASE UNCHANGED vars
    BY <1>9 DEF vars, LowInv, LongArithmetic, AddsLow, AddsLong, SubtractsLow, SubtractsLong,
                Pair, SignedLong, SignedResult, Fits
  <1>10. ASSUME NEW r \in Regs, NEW s \in Word,
                Add(r, s) \/ Adc(r, s) \/ Sub(r, s) \/ Sbb(r, s) \/ Cmp(r, s) \/ Test(r, s)
         PROVE  Goal
    <2>1. \/ Add("eax", s) \/ Sub("eax", s)
          \/ Adc("edx", s) /\ meaning.kind = "adding"
          \/ Sbb("edx", s) /\ meaning.kind = "subtracting"
          \/ meaning'.kind \in {"nothing", "compared"}
      BY <1>3, <1>4, <1>10 DEF Add, Adc, Sub, Sbb, Cmp, Test
    <2> HIDE DEF Goal
    <2> QED
      BY <1>1, <1>5, <1>6, <1>7, <1>8, <2>1
  <1>11. ASSUME NEW s \in Word, Mul(s) \/ Imul(s) \/ Div(s) \/ Idiv(s) \/ Cltd
         PROVE  Goal
    <2>1. meaning'.kind \in {"product", "signed product", "divided", "signed divided", "extended"}
      BY <1>11, PairMeanings
    <2> HIDE DEF Goal
    <2> QED
      BY <1>1, <2>1
  <1>14. ASSUME meaning'.kind \in {"nothing", "shl", "shr", "sar", "compared"} PROVE Goal
    <2>1. meaning'.kind \notin {"adding", "added", "subtracting", "subtracted"}
      BY <1>14
    <2> QED
      BY <1>1, <2>1
  <1>15. ASSUME UNCHANGED vars PROVE Goal
    BY <1>9, <1>15
  <1> HIDE DEF Goal
  <1>12. ASSUME Meaningful PROVE Goal
    BY <1>10, <1>11, <1>12, <1>15, Zenon DEF Meaningful
  <1>13. Goal
    BY <1>12, <1>14, Steps DEF Shifting
  <1> QED
    BY <1>13 DEF Goal

-----------------------------------------------------------------------------
(* Shifts, products and quotients.                                         *)

LEMMA PowerOfSum ==
  ASSUME NEW m \in Nat, NEW n \in Nat
  PROVE  2 ^ (m + n) = 2 ^ m * 2 ^ n
  <1> DEFINE T == {k \in Nat : 2 ^ (m + k) # 2 ^ m * 2 ^ k}
  <1>1. T = {}
    <2> SUFFICES ASSUME T # {} PROVE FALSE
      OBVIOUS
    <2>1. T \in SUBSET Nat
      OBVIOUS
    <2>2. PICK k \in T : \A j \in T : ~(j < k)
      BY <2>1, LeastNumber
    <2>3. 2 ^ m \in Nat
      BY PowerFacts
    <2>4. k # 0
      <3>1. m + 0 = m /\ 2 ^ 0 = 1
        BY PowerOfZero
      <3>2. 2 ^ (m + 0) = 2 ^ m * 2 ^ 0
        BY <2>3, <3>1
      <3> QED
        BY <3>2
    <2>5. PICK j \in Nat : k = j + 1
      <3>1. k \in Nat /\ k - 1 \in Nat /\ k = (k - 1) + 1
        BY <2>4
      <3> QED
        BY <3>1
    <2>6. 2 ^ (m + j) = 2 ^ m * 2 ^ j
      <3>1. j < k
        BY <2>5
      <3>2. j \notin T
        BY <2>2, <3>1
      <3> QED
        BY <3>2
    <2>7. 2 ^ (m + k) # 2 ^ m * 2 ^ k
      OBVIOUS
    <2> HIDE DEF T
    <2>8. m + k = (m + j) + 1 /\ m + j \in Nat
      BY <2>5
    <2>9. 2 ^ ((m + j) + 1) = 2 * 2 ^ (m + j) /\ 2 ^ (j + 1) = 2 * 2 ^ j /\ 2 ^ j \in Nat
      BY <2>8, PowerFacts
    <2> DEFINE a == 2 ^ m  b == 2 ^ j
    <2>10. 2 * (a * b) = a * (2 * b)
      BY <2>3, <2>9
    <2>11. 2 ^ (m + k) = 2 * (a * b) /\ 2 ^ m * 2 ^ k = a * (2 * b)
      BY <2>5, <2>6, <2>8, <2>9
    <2> QED
      BY <2>7, <2>10, <2>11
  <1> QED
    BY <1>1

(* A number that a word can stand for is had back from its word.           *)
LEMMA SignedOfWord ==
  ASSUME NEW n \in Int, -Half <= n, n < Half
  PROVE  n % Base \in Word /\ Signed(n % Base) = n
  <1>1. Half \in Nat \ {0} /\ Base = 2 * Half /\ Base \in Nat \ {0}
    BY SizeFacts
  <1>2. n % Base \in Word
    BY RemainderIsWord
  <1>3. CASE n >= 0
    <2>1. Base * 0 + n = n /\ n \in 0 .. Base - 1
      BY <1>1, <1>3
    <2>2. (Base * 0 + n) % Base = n
      BY <1>1, <2>1, DivisionIsUnique
    <2> QED
      BY <1>1, <1>2, <2>1, <2>2 DEF Signed
  <1>4. CASE n < 0
    <2>1. Base * (-1) + (n + Base) = n /\ n + Base \in 0 .. Base - 1 /\ n + Base >= Half
      BY <1>1, <1>4
    <2>2. (Base * (-1) + (n + Base)) % Base = n + Base
      BY <1>1, <2>1, DivisionIsUnique
    <2>3. n % Base = n + Base
      BY <2>1, <2>2
    <2>4. n % Base >= Half /\ (n + Base) - Base = n
      BY <1>1, <2>1, <2>3
    <2> QED
      BY <1>2, <2>3, <2>4 DEF Signed
  <1> QED
    BY <1>3, <1>4

LEMMA ShiftIsExact ==
  ASSUME TypeOK, NEW op \in {"shl", "shr", "sar"}, NEW n \in 1 .. Width - 1, Shift(op, "eax", n)
  PROVE  ShiftsAreExact'
  <1> DEFINE x == regs["eax"]  sx == Signed(regs["eax"])  p == 2 ^ n  b == 2 ^ (Width - n)
             out == Shifted(op, n, x)
  <1>1. /\ x \in Word /\ x \in Nat /\ x \in Int /\ x < Base
        /\ sx \in Int /\ -Half <= sx /\ sx < Half
        /\ Half \in Nat \ {0} /\ Base = 2 * Half /\ Base \in Nat \ {0} /\ Width \in Nat
        /\ n \in Nat /\ n - 1 \in Nat /\ (n - 1) + 1 = n
        /\ Width - n \in Nat /\ (Width - n) + n = Width
    BY RegFacts, WordFacts, SizeFacts
  <1>2. p \in Nat \ {0} /\ b \in Nat \ {0} /\ Base = b * p
    <2>1. 2 ^ ((Width - n) + n) = b * p
      BY <1>1, PowerOfSum
    <2>2. 2 ^ Width = Base
      BY SizeFacts
    <2> QED
      BY <1>1, <2>1, <2>2, PowerFacts
  <1>3. /\ regs'["eax"] = out.res /\ eflags' = out.flags
        /\ meaning'.kind = op /\ meaning'.x = x /\ meaning'.y = n
    BY RegFacts DEF Shift, Compute, Means, TypeOK
  <1> HIDE DEF x, sx, out
  <1>4. CASE op = "shl"
    <2> DEFINE q == x \div b  r == x % b  h == q \div 2  c == q % 2
    <2>1. q \in Int /\ r \in 0 .. b - 1 /\ x = b * q + r
      BY <1>1, <1>2, DivisionFacts, Zenon
    <2> HIDE DEF q, r, b, p
    <2>2. h \in Int /\ c \in 0 .. 1 /\ q = 2 * h + c
      <3>1. 2 \in Nat \ {0}
        OBVIOUS
      <3>2. h \in Int /\ c \in 0 .. 2 - 1 /\ q = 2 * h + c
        BY <2>1, <3>1, DivisionFacts, Zenon
      <3> QED
        BY <3>2
    <2> HIDE DEF h, c
    <2> DEFINE e == r * p
    <2>3. e \in 0 .. Base - 1
      <3>1. r <= b - 1 /\ r >= 0 /\ r \in Int
        BY <1>2, <2>1
      <3>2. r * p <= (b - 1) * p /\ r * p >= 0
        BY <1>2, <3>1
      <3>3. (b - 1) * p = b * p - p
        BY <1>2
      <3>4. r * p \in Int /\ r * p <= Base - p
        BY <1>2, <3>1, <3>2, <3>3
      <3> QED
        BY <1>1, <1>2, <3>2, <3>4
    <2>4. x * p = Base * q + e
      <3>1. (b * q + r) * p = (b * p) * q + r * p
        BY <1>2, <2>1
      <3> QED
        BY <1>2, <2>1, <3>1
    <2> HIDE DEF e
    <2>5. (x * p) % Base = e
      BY <1>1, <2>1, <2>3, <2>4, DivisionIsUnique
    <2>6. (x * p) % (2 * Base) = c * Base + e
      <3> DEFINE d == 2 * Base  f == c * Base + e
      <3>1. x * p = d * h + f
        <4>1. Base * (2 * h + c) = (2 * Base) * h + c * Base
          BY <1>1, <2>2
        <4> DEFINE g == (2 * Base) * h  k == c * Base
        <4>2. g \in Int /\ k \in Int /\ e \in Int
          BY <1>1, <2>2, <2>3
        <4>3. x * p = (g + k) + e
          BY <2>2, <2>4, <4>1
        <4> HIDE DEF g, k
        <4>4. x * p = g + (k + e)
          BY <4>2, <4>3
        <4> QED
          BY <4>4 DEF g, k
      <3>2. d \in Nat \ {0} /\ f \in 0 .. d - 1
        <4>1. c * Base \in {0, Base}
          BY <1>1, <2>2
        <4> QED
          BY <1>1, <2>3, <4>1
      <3> HIDE DEF d, f
      <3>3. (d * h + f) % d = f
        BY <2>2, <3>2, DivisionIsUnique
      <3> QED
        BY <3>1, <3>3 DEF d, f
    <2>7. out.res = e /\ out.flags.CF = c
      <3>1. BitOf(x, Width - n) = c
        BY DEF BitOf, c, q, b
      <3>2. out.res = (x * p) % Base /\ out.flags.CF = BitOf(x, Width - n)
        BY <1>4 DEF out, Shifted, Flags, p
      <3> QED
        BY <2>5, <3>1, <3>2
    <2>8. out.flags.CF * Base + out.res = (x * p) % (2 * Base)
      BY <2>6, <2>7
    <2>9. eflags'.CF * Base + regs'["eax"] = (meaning'.x * 2 ^ meaning'.y) % (2 * Base)
      BY <1>3, <2>8, Zenon DEF p
    <2>10. meaning'.kind = "shl" /\ meaning'.kind # "shr" /\ meaning'.kind # "sar"
      BY <1>3, <1>4
    <2> QED
      BY <2>9, <2>10, Zenon DEF ShiftsAreExact
  <1>5. CASE op = "shr"
    <2>1. x \div 2 ^ (n - 1) = 2 * (x \div 2 ^ n) + BitOf(x, n - 1)
      <3>1. x \div 2 ^ (n - 1) = 2 * (x \div 2 ^ ((n - 1) + 1)) + BitOf(x, n - 1)
        BY <1>1, Halving
      <3> QED
        BY <1>1, <3>1
    <2>2. out.res = x \div 2 ^ n /\ out.flags.CF = BitOf(x, n - 1)
      BY <1>5 DEF out, Shifted, Flags
    <2>3. 2 * regs'["eax"] + eflags'.CF = meaning'.x \div 2 ^ (meaning'.y - 1)
      BY <1>3, <2>1, <2>2, Zenon
    <2>4. meaning'.kind # "shl" /\ meaning'.kind = "shr" /\ meaning'.kind # "sar"
      BY <1>3, <1>5
    <2> QED
      BY <2>3, <2>4, Zenon DEF ShiftsAreExact
  <1>6. CASE op = "sar"
    <2> DEFINE t == 2 ^ (n - 1)  u == sx \div p  v == sx % p
    <2>1. t \in Nat \ {0} /\ p = 2 * t
      <3>1. 2 ^ ((n - 1) + 1) = 2 * t
        BY <1>1, PowerFacts
      <3> QED
        BY <1>1, <3>1, PowerFacts
    <2>2. sx \div t = 2 * (sx \div 2 ^ n) + BitOf(sx, n - 1)
      <3>1. sx \div 2 ^ (n - 1) = 2 * (sx \div 2 ^ ((n - 1) + 1)) + BitOf(sx, n - 1)
        BY <1>1, Halving
      <3> QED
        BY <1>1, <3>1
    <2>3. BitOf(x, n - 1) = BitOf(sx, n - 1)
      <3>1. CASE x = sx
        BY <3>1
      <3>2. CASE x = sx + Base
        <4> DEFINE a == sx \div t  c == sx % t
        <4>1. a \in Int /\ c \in 0 .. t - 1 /\ sx = t * a + c
          BY <1>1, <2>1, DivisionFacts, Zenon
        <4>2. Base = t * (2 * b)
          <5>1. b * (2 * t) = t * (2 * b)
            BY <1>2, <2>1
          <5> QED
            BY <1>2, <2>1, <5>1
        <4> HIDE DEF a, c, t, b, p
        <4> DEFINE w == a + 2 * b
        <4>3. w \in Int /\ x = t * w + c
          <5>1. t * (a + 2 * b) = t * a + t * (2 * b)
            BY <1>2, <2>1, <4>1
          <5> DEFINE ta == t * a  tb == t * (2 * b)
          <5>2. ta \in Int /\ tb \in Int /\ x = (ta + c) + tb /\ c \in Int
            BY <1>2, <2>1, <3>2, <4>1, <4>2
          <5> HIDE DEF ta, tb
          <5>3. x = (ta + tb) + c
            BY <5>2
          <5> QED
            BY <1>2, <4>1, <5>1, <5>3 DEF ta, tb
        <4>4. x \div t = w
          BY <2>1, <4>1, <4>3, DivisionIsUnique
        <4>5. (a + 2 * b) % 2 = a % 2
          BY <1>2, <4>1
        <4> QED
          BY <4>4, <4>5 DEF BitOf, t, a
      <3> QED
        BY <1>1, <3>1, <3>2 DEF Signed, x, sx
    <2>4. u \in Int /\ -Half <= u /\ u < Half
      <3>1. u \in Int /\ v \in 0 .. p - 1 /\ sx = p * u + v
        BY <1>1, <1>2, DivisionFacts, Zenon
      <3> HIDE DEF u, v, p
      <3>2. u >= 0 => u <= p * u
        BY <1>2, <3>1
      <3>3. u < 0 => p * u + p <= u + 1
        <4> SUFFICES ASSUME u < 0 PROVE p * u + p <= u + 1
          OBVIOUS
        <4>1. p * (u + 1) <= u + 1
          BY <1>2, <3>1
        <4>2. p * (u + 1) = p * u + p
          BY <1>2, <3>1
        <4> QED
          BY <4>1, <4>2
      <3> DEFINE m == p * u
      <3>4. m \in Int /\ (u >= 0 => u <= m) /\ (u < 0 => m + p <= u + 1) /\ sx = m + v
        BY <1>2, <3>1, <3>2, <3>3
      <3> HIDE DEF m
      <3> QED
        BY <1>1, <1>2, <3>1, <3>4
    <2>5. Signed(u % Base) = u
      BY <2>4, SignedOfWord
    <2>6. out.res = u % Base /\ out.flags.CF = BitOf(x, n - 1)
      BY <1>6 DEF out, Shifted, Flags, u, sx, x, p
    <2>7. Signed(out.res) = sx \div 2 ^ n
      BY <2>5, <2>6, Zenon DEF u, p
    <2>8. 2 * Signed(out.res) + out.flags.CF = sx \div 2 ^ (n - 1)
      BY <2>2, <2>3, <2>6, <2>7, Zenon DEF t
    <2>9. sx = Signed(x)
      BY DEF sx, x
    <2>10. 2 * Signed(regs'["eax"]) + eflags'.CF = Signed(meaning'.x) \div 2 ^ (meaning'.y - 1)
      BY <1>3, <2>8, <2>9, Zenon
    <2>11. meaning'.kind # "shl" /\ meaning'.kind # "shr" /\ meaning'.kind = "sar"
      BY <1>3, <1>6
    <2> QED
      BY <2>10, <2>11, Zenon DEF ShiftsAreExact, Signed
  <1> QED
    BY <1>4, <1>5, <1>6

LEMMA ProductIsExact ==
  ASSUME TypeOK, NEW s \in Word, Mul(s) \/ Imul(s)
  PROVE  ProductsAreExact'
  <1> DEFINE e == regs["eax"]  se == Signed(regs["eax"])  ss == Signed(s)
  <1>1. /\ e \in Int /\ e \in Word /\ 0 <= e /\ s \in Int /\ 0 <= s /\ Base \in Nat \ {0} /\ Half \in Nat \ {0}
        /\ Base = 2 * Half
        /\ se \in Int /\ -Half <= se /\ se < Half /\ ss \in Int /\ -Half <= ss /\ ss < Half
    BY RegFacts, WordFacts, SizeFacts
  <1> HIDE DEF e, se, ss
  <1>2. CASE Mul(s)
    <2> DEFINE n == s * e  q == n \div Base  r == n % Base
    <2>1. n \in Int /\ n >= 0 /\ n = e * s
      BY <1>1
    <2>2. /\ regs'["edx"] = q /\ regs'["eax"] = r /\ eflags' = HighFlags(q # 0)
          /\ meaning' = Means("product", e, s)
      BY <1>2 DEF Mul, e
    <2> HIDE DEF n
    <2>3. q \in Int /\ r \in 0 .. Base - 1 /\ n = Base * q + r /\ (n >= 0 => q \in Nat)
      BY <1>1, <2>1, DivisionFacts, Zenon
    <2> HIDE DEF q, r
    <2>4. q # 0 <=> n >= Base
      <3>1. q # 0 => Base * q >= Base
        BY <1>1, <2>1, <2>3
      <3> DEFINE m == Base * q
      <3>2. m \in Int /\ n = m + r /\ (q # 0 => m >= Base) /\ (q = 0 => m = 0)
        BY <1>1, <2>3, <3>1
      <3> HIDE DEF m
      <3> QED
        BY <1>1, <2>3, <3>2
    <2>5. q * Base + r = n
      BY <1>1, <2>3
    <2>6. eflags'.CF = Bit(q # 0) /\ eflags'.OF = Bit(q # 0)
      BY <2>2, HighFlagsFacts
    <2>7. meaning'.kind = "product" /\ meaning'.kind # "signed product" /\ meaning'.x = e /\ meaning'.y = s
      BY <2>2 DEF Means
    <2>8. eflags'.CF = 1 <=> n >= Base
      BY <2>4, <2>6 DEF Bit
    <2>9. /\ regs'["edx"] * Base + regs'["eax"] = meaning'.x * meaning'.y
          /\ eflags'.CF = 1 <=> meaning'.x * meaning'.y >= Base
          /\ eflags'.OF = eflags'.CF
      BY <2>1, <2>2, <2>5, <2>6, <2>7, <2>8, Zenon
    <2> QED
      BY <2>7, <2>9, Zenon DEF ProductsAreExact, Pair
  <1>3. CASE Imul(s)
    <2> DEFINE n == ss * se  q == n \div Base  r == n % Base
    <2>1. n \in Int /\ n = se * ss /\ n <= Half * Half /\ -(Half * Half) <= n
      <3> DEFINE M == {m \in Int : -Half <= m /\ m <= Half}
      <3>1. ASSUME NEW a \in Nat, NEW b \in Nat, a <= Half, b <= Half PROVE a * b <= Half * Half /\ 0 <= a * b
        <4>1. a * b <= Half * b
          BY <1>1, <3>1
        <4>2. Half * b <= Half * Half
          BY <1>1, <3>1
        <4> QED
          BY <1>1, <4>1, <4>2
      <3>2. PICK a \in Nat : a <= Half /\ (ss = a \/ ss = -a)
        <4>1. CASE ss >= 0
          BY <1>1, <4>1
        <4>2. CASE ss < 0
          <5>1. -ss \in Nat /\ -ss <= Half /\ ss = -(-ss)
            BY <1>1, <4>2
          <5> QED
            BY <5>1
        <4> QED
          BY <1>1, <4>1, <4>2
      <3>3. PICK b \in Nat : b <= Half /\ (se = b \/ se = -b)
        <4>1. CASE se >= 0
          BY <1>1, <4>1
        <4>2. CASE se < 0
          <5>1. -se \in Nat /\ -se <= Half /\ se = -(-se)
            BY <1>1, <4>2
          <5> QED
            BY <5>1
        <4> QED
          BY <1>1, <4>1, <4>2
      <3>4. a * b <= Half * Half /\ 0 <= a * b
        BY <3>1, <3>2, <3>3
      <3>5. n = a * b \/ n = -(a * b)
        BY <3>2, <3>3
      <3>6. n \in Int /\ n = se * ss /\ Half * Half \in Int /\ a * b \in Int
        BY <1>1, <3>2, <3>3
      <3> HIDE DEF n
      <3> QED
        BY <3>4, <3>5, <3>6
    <2>2. /\ regs'["edx"] = q % Base /\ regs'["eax"] = r /\ meaning' = Means("signed product", se, ss)
      BY <1>3 DEF Imul, se, ss
    <2> HIDE DEF n
    <2>3. q \in Int /\ r \in Word /\ n = q * Base + r
      <3>1. q \in Int /\ r \in 0 .. Base - 1 /\ n = Base * q + r
        BY <1>1, <2>1, DivisionFacts, Zenon
      <3> HIDE DEF q, r
      <3> QED
        BY <1>1, <3>1 DEF Word
    <2> HIDE DEF q, r
    <2>4. -Half <= q /\ q < Half
      <3>1. Half * Half < Half * Base /\ (-Half) * Base <= -(Half * Half)
        <4>1. Half * Half \in Nat \ {0} /\ Half * Base = 2 * (Half * Half) /\ (-Half) * Base = -(2 * (Half * Half))
          BY <1>1
        <4> QED
          BY <4>1
      <3>2. Half * Half \in Int /\ Half * Base \in Int /\ (-Half) * Base \in Int /\ -Half \in Int /\ Half \in Int
        BY <1>1
      <3>3. (-Half) * Base <= n /\ n < Half * Base
        BY <2>1, <3>1, <3>2
      <3> QED
        BY <2>3, <3>2, <3>3, DigitFacts
    <2>5. Signed(q % Base) = q
      BY <2>3, <2>4, SignedOfWord
    <2>6. meaning'.kind # "product" /\ meaning'.kind = "signed product" /\ meaning'.x = se /\ meaning'.y = ss
      BY <2>2 DEF Means
    <2>7. Signed(regs'["edx"]) * Base + regs'["eax"] = meaning'.x * meaning'.y
      BY <2>1, <2>2, <2>3, <2>5, <2>6, Zenon
    <2> QED
      BY <2>6, <2>7, Zenon DEF ProductsAreExact, SignedPair, Signed
  <1> QED
    BY <1>2, <1>3

LEMMA UnsignedQuotient ==
  ASSUME TypeOK, NEW s \in Word, Div(s)
  PROVE  QuotientsAreExact'
  <1> DEFINE x == Pair  q == x \div s  r == x % s
  <1>1. x \in Int /\ x >= 0 /\ s \in Nat \ {0} /\ s \in Int /\ Base \in Nat \ {0}
    BY RegFacts, WordFacts, SizeFacts DEF Div
  <1>2. /\ regs'["eax"] = q % Base /\ regs'["edx"] = r /\ meaning' = Means("divided", x, s)
    BY DEF Div
  <1> HIDE DEF x
  <1>3. q \in Int /\ r \in 0 .. s - 1 /\ x = s * q + r /\ (x >= 0 => q \in Nat)
    BY <1>1, DivisionFacts, Zenon
  <1> HIDE DEF q, r
  <1>4. ASSUME x < s * Base PROVE q % Base = q
    <2>1. s * q < s * Base
      <3> DEFINE a == s * q  c == s * Base
      <3>1. a \in Int /\ c \in Int /\ x = a + r /\ x < c
        BY <1>1, <1>3, <1>4
      <3> HIDE DEF a, c
      <3>2. a < c
        BY <1>1, <1>3, <3>1
      <3> QED
        BY <3>2 DEF a, c
    <2>2. q < Base
      BY <1>1, <1>3, <2>1
    <2>3. Base * 0 + q = q /\ q \in 0 .. Base - 1
      BY <1>1, <1>3, <2>2
    <2>4. (Base * 0 + q) % Base = q
      BY <1>1, <2>3, DivisionIsUnique
    <2> QED
      BY <2>3, <2>4
  <1>5. q * s + r = x /\ r < s
    BY <1>1, <1>3
  <1>6. /\ meaning'.kind = "divided" /\ meaning'.kind # "extended" /\ meaning'.kind # "signed divided"
        /\ meaning'.x = x /\ meaning'.y = s
    BY <1>2 DEF Means
  <1>7. meaning'.x < meaning'.y * Base =>
          regs'["eax"] * meaning'.y + regs'["edx"] = meaning'.x /\ regs'["edx"] < meaning'.y
    BY <1>2, <1>4, <1>5, <1>6, Zenon
  <1> QED
    BY <1>6, <1>7, Zenon DEF QuotientsAreExact

LEMMA ExtensionIsExact ==
  ASSUME TypeOK, Cltd
  PROVE  QuotientsAreExact'
  <1> DEFINE e == regs["eax"]
  <1>1. /\ e \in Word /\ e \in Int /\ 0 <= e /\ e < Base
        /\ Half \in Nat \ {0} /\ Base = 2 * Half /\ Base \in Nat \ {0}
    BY RegFacts, WordFacts, SizeFacts
  <1>2. /\ regs'["eax"] = e /\ regs'["edx"] = IF e >= IntHalf THEN Base - 1 ELSE 0
        /\ meaning' = Means("extended", Signed(e), 0)
    BY RegFacts DEF Cltd, TypeOK
  <1> HIDE DEF e
  <1>3. Signed(IF e >= Half THEN Base - 1 ELSE 0) * Base + e = Signed(e)
    <2>1. CASE e >= Half
      <3>1. Signed(Base - 1) = -1
        BY <1>1 DEF Signed
      <3>2. (-1) * Base + e = e - Base
        BY <1>1
      <3> QED
        BY <2>1, <3>1, <3>2 DEF Signed
    <2>2. CASE ~(e >= Half)
      <3>1. Signed(0) = 0 /\ 0 * Base + e = e
        BY <1>1 DEF Signed
      <3> QED
        BY <2>2, <3>1 DEF Signed
    <2> QED
      BY <2>1, <2>2
  <1>4. /\ meaning'.kind # "divided" /\ meaning'.kind = "extended" /\ meaning'.kind # "signed divided"
        /\ meaning'.x = Signed(e)
    BY <1>2 DEF Means
  <1>5. ASSUME IntHalf = Half \/ meaning'.x >= 0
        PROVE  Signed(regs'["edx"]) * Base + regs'["eax"] = meaning'.x
    <2>1. IntHalf \in Nat /\ IntHalf >= Half
      <3> DEFINE q == IntHalf \div Half
      <3>1. IntHalf \in Nat \ {0} /\ q \in Int /\ IntHalf = Half * q + 0
        <4>1. IntHalf \in Int /\ IntHalf % Half = 0 /\ Half \in Nat \ {0} /\ IntHalf \in Nat \ {0}
          BY SizeAssumption
        <4> QED
          BY <4>1, DivisionFacts
      <3> HIDE DEF q
      <3>2. q >= 1
        BY <1>1, <3>1
      <3> QED
        BY <1>1, <3>1, <3>2
    <2>2. e >= IntHalf <=> e >= Half
      BY <1>1, <1>4, <1>5, <2>1 DEF Signed
    <2> QED
      BY <1>2, <1>3, <1>4, <2>2
  <1> QED
    BY <1>4, <1>5, Zenon DEF QuotientsAreExact, SignedPair, Signed

LEMMA SignedQuotient ==
  ASSUME TypeOK, NEW s \in Word, Idiv(s)
  PROVE  QuotientsAreExact'
  <1> DEFINE x == SignedPair  y == Signed(s)  Q == Quotient(x, y)  R == Remainder(x, y)
             a == Magnitude(x)  b == Magnitude(y)  q == a \div b  r == a % b
  <1>1. /\ x \in Int /\ y \in Int /\ -Half <= y /\ y < Half /\ y # 0
        /\ Half \in Nat \ {0} /\ Base = 2 * Half /\ Base \in Nat \ {0}
    <2>1. s # 0
      BY Zenon DEF Idiv
    <2>2. s \in Int /\ 0 <= s /\ s < Base
      BY WordFacts
    <2>3. /\ Half \in Nat \ {0} /\ Base = 2 * Half /\ Base \in Nat \ {0}
          /\ y \in Int /\ -Half <= y /\ y < Half /\ x \in Int
      BY RegFacts, WordFacts, SizeFacts
    <2>4. y # 0
      BY <2>1, <2>2, <2>3 DEF Signed
    <2> QED
      BY <2>3, <2>4
  <1>2. /\ regs'["eax"] = Q % Base /\ regs'["edx"] = R % Base /\ meaning' = Means("signed divided", x, y)
    BY DEF Idiv
  <1> HIDE DEF x, y
  <1>3. /\ a \in Nat /\ a \in Int /\ a >= 0 /\ b \in Nat \ {0} /\ b <= Half
        /\ (x < 0 => a = -x) /\ (~(x < 0) => a = x) /\ (y < 0 => b = -y) /\ (~(y < 0) => b = y)
    BY <1>1 DEF Magnitude
  <1> HIDE DEF a, b
  <1>4. q \in Int /\ r \in 0 .. b - 1 /\ a = b * q + r /\ (a >= 0 => q \in Nat)
    BY <1>3, DivisionFacts, Zenon
  <1>5. Q = IF (x < 0) = (y < 0) THEN q ELSE -q
    BY DEF Quotient, a, b
  <1>6. R = x - y * Q
    BY DEF Remainder
  <1> HIDE DEF q, r, Q, R
  <1> DEFINE m == b * q
  <1>7. m \in Int /\ a = m + r
    BY <1>3, <1>4
  <1>8. y * Q = IF x < 0 THEN -m ELSE m
    <2>1. CASE x < 0 /\ y < 0
      <3>1. Q = q /\ y = -b
        BY <1>1, <1>3, <1>5, <2>1
      <3>2. (-b) * q = -(b * q)
        BY <1>3, <1>4
      <3> QED
        BY <2>1, <3>1, <3>2
    <2>2. CASE x < 0 /\ ~(y < 0)
      <3>1. Q = -q /\ y = b
        BY <1>3, <1>5, <2>2
      <3>2. b * (-q) = -(b * q)
        BY <1>3, <1>4
      <3> QED
        BY <2>2, <3>1, <3>2
    <2>3. CASE ~(x < 0) /\ y < 0
      <3>1. Q = -q /\ y = -b
        BY <1>1, <1>3, <1>5, <2>3
      <3>2. (-b) * (-q) = b * q
        BY <1>3, <1>4
      <3> QED
        BY <2>3, <3>1, <3>2
    <2>4. CASE ~(x < 0) /\ ~(y < 0)
      <3>1. Q = q /\ y = b
        BY <1>3, <1>5, <2>4
      <3> QED
        BY <2>4, <3>1
    <2> QED
      BY <2>1, <2>2, <2>3, <2>4
  <1> HIDE DEF m
  <1>9. R = IF x < 0 THEN -r ELSE r
    BY <1>1, <1>3, <1>4, <1>6, <1>7, <1>8
  <1>10. R \in Int /\ Magnitude(R) = r /\ r < b /\ (R = 0 \/ ((R < 0) = (x < 0))) /\ -Half <= R /\ R < Half
    <2>1. R \in Int /\ r \in Int /\ 0 <= r /\ r < b /\ b <= Half
      BY <1>3, <1>4, <1>9
    <2> QED
      BY <1>1, <1>3, <1>9, <2>1 DEF Magnitude
  <1>11. Signed(R % Base) = R
    BY <1>10, SignedOfWord
  <1>12. Q \in Int /\ Q * y + R = x
    <2>1. Q \in Int
      BY <1>4, <1>5
    <2>2. Q * y = y * Q /\ y * Q \in Int
      BY <1>1, <2>1
    <2> QED
      BY <1>1, <1>6, <1>10, <2>1, <2>2
  <1>13. ASSUME a < b * Half PROVE Signed(Q % Base) = Q
    <2>1. b * q < b * Half
      <3> DEFINE c == b * Half
      <3>1. c \in Int /\ a < c
        BY <1>1, <1>3, <1>13
      <3> HIDE DEF c
      <3>2. m < c
        BY <1>4, <1>7, <3>1
      <3> QED
        BY <3>2 DEF m, c
    <2>2. q < Half /\ q >= 0
      BY <1>1, <1>3, <1>4, <2>1
    <2>3. -Half <= Q /\ Q < Half
      BY <1>1, <1>4, <1>5, <2>2
    <2> QED
      BY <1>12, <2>3, SignedOfWord
  <1>14. /\ meaning'.kind # "divided" /\ meaning'.kind # "extended" /\ meaning'.kind = "signed divided"
         /\ meaning'.x = x /\ meaning'.y = y
    BY <1>2 DEF Means
  <1>15. Signed(regs'["edx"]) = R /\ (a < b * Half => Signed(regs'["eax"]) = Q)
    BY <1>2, <1>11, <1>13, Zenon
  <1>16. a = Magnitude(x) /\ b = Magnitude(y)
    BY DEF a, b
  <1>17. Magnitude(meaning'.x) < Magnitude(meaning'.y) * Half =>
           /\ Signed(regs'["eax"]) * meaning'.y + Signed(regs'["edx"]) = meaning'.x
           /\ Magnitude(Signed(regs'["edx"])) < Magnitude(meaning'.y)
           /\ Signed(regs'["edx"]) = 0 \/ ((Signed(regs'["edx"]) < 0) = (meaning'.x < 0))
    BY <1>10, <1>12, <1>14, <1>15, <1>16, Zenon
  <1> QED
    BY <1>14, <1>17, Zenon DEF QuotientsAreExact, Signed, Magnitude

LEMMA ResultsKept ==
  ASSUME TypeOK, ResultsAreExact, [Next]_vars
  PROVE  ResultsAreExact'
  <1> DEFINE Goal == ResultsAreExact'
  <1>1. ASSUME meaning'.kind \notin {"shl", "shr", "sar"} PROVE ShiftsAreExact'
    BY <1>1 DEF ShiftsAreExact
  <1>2. ASSUME meaning'.kind \notin {"product", "signed product"} PROVE ProductsAreExact'
    BY <1>2 DEF ProductsAreExact
  <1>3. ASSUME meaning'.kind \notin {"divided", "extended", "signed divided"} PROVE QuotientsAreExact'
    BY <1>3 DEF QuotientsAreExact
  <1>4. ASSUME meaning'.kind \in {"nothing", "compared", "adding", "added", "subtracting", "subtracted"}
        PROVE  Goal
    BY <1>1, <1>2, <1>3, <1>4 DEF ResultsAreExact
  <1>5. ASSUME Shifting PROVE Goal
    <2>1. ShiftsAreExact'
      BY <1>5, ShiftIsExact DEF Shifting
    <2> QED
      BY <1>2, <1>3, <1>5, <2>1 DEF ResultsAreExact, Shifting
  <1>6. ASSUME NEW r \in Regs, NEW s \in Word,
               Add(r, s) \/ Adc(r, s) \/ Sub(r, s) \/ Sbb(r, s) \/ Cmp(r, s) \/ Test(r, s)
        PROVE  Goal
    <2>1. meaning'.kind \in {"nothing", "compared", "adding", "added", "subtracting", "subtracted"}
      BY <1>6 DEF Add, Adc, Sub, Sbb, Cmp, Test, Nothing, Means
    <2> QED
      BY <1>4, <2>1
  <1>7. ASSUME NEW s \in Word, Mul(s) \/ Imul(s) PROVE Goal
    <2>1. meaning' = Means("product", regs["eax"], s) \/ meaning' = Means("signed product", Signed(regs["eax"]), Signed(s))
      BY <1>7, Zenon DEF Mul, Imul
    <2>2. meaning'.kind \in {"product", "signed product"}
      <3>1. meaning'.kind = "product" \/ meaning'.kind = "signed product"
        BY <2>1, KindOfMeaning, Zenon
      <3> QED
        BY <3>1
    <2> QED
      BY <1>1, <1>3, <1>7, <2>2, ProductIsExact DEF ResultsAreExact
  <1>8. ASSUME NEW s \in Word, Div(s) \/ Idiv(s) \/ Cltd PROVE Goal
    <2>1. \/ meaning' = Means("divided", Pair, s)
          \/ meaning' = Means("signed divided", SignedPair, Signed(s))
          \/ meaning' = Means("extended", Signed(regs["eax"]), 0)
      BY <1>8, Zenon DEF Div, Idiv, Cltd
    <2>2. meaning'.kind \in {"divided", "signed divided", "extended"}
      <3>1. meaning'.kind = "divided" \/ meaning'.kind = "signed divided" \/ meaning'.kind = "extended"
        BY <2>1, KindOfMeaning, Zenon
      <3> QED
        BY <3>1
    <2>3. QuotientsAreExact'
      BY <1>8, UnsignedQuotient, SignedQuotient, ExtensionIsExact
    <2> QED
      BY <1>1, <1>2, <2>2, <2>3 DEF ResultsAreExact
  <1>9. ASSUME UNCHANGED vars PROVE Goal
    BY <1>9 DEF vars, ResultsAreExact, ShiftsAreExact, ProductsAreExact, QuotientsAreExact,
                Pair, SignedPair, Signed, Magnitude
  <1> HIDE DEF Goal
  <1>10. ASSUME Meaningful PROVE Goal
    BY <1>6, <1>7, <1>8, <1>9, <1>10, Zenon DEF Meaningful
  <1>11. ASSUME meaning'.kind = "nothing" \/ meaning'.kind = "compared" PROVE Goal
    BY <1>4, <1>11
  <1>12. Goal
    BY <1>5, <1>10, <1>11, Steps
  <1> QED
    BY <1>12 DEF Goal

-----------------------------------------------------------------------------
(* The integer instructions as they are specified in Alu. *)

LEMMA AluConditions == Spec => []ComparisonsDecide
  <1> DEFINE Inv == TypeOK /\ ComparisonsDecide
  <1>1. Init => Inv
    <2>1. ASSUME Init PROVE TypeOK
      BY <2>1, SizeFacts DEF Init, TypeOK, Nothing, Means, Regs, Word, Flag, Kinds
    <2>2. ASSUME Init PROVE ComparisonsDecide
      BY <2>2 DEF Init, ComparisonsDecide, Nothing, Means
    <2> QED
      BY <2>1, <2>2
  <1>2. Inv /\ [Next]_vars => Inv'
    <2> SUFFICES ASSUME Inv, [Next]_vars PROVE Inv'
      OBVIOUS
    <2> QED
      BY Steps, ComparisonsKept
  <1> QED
    BY <1>1, <1>2, PTL DEF Spec

LEMMA AluLongNumbers == Spec => []LongArithmetic
  <1> DEFINE Inv == TypeOK /\ LowInv /\ LongArithmetic
  <1>1. Init => Inv
    <2>1. ASSUME Init PROVE TypeOK
      BY <2>1, SizeFacts DEF Init, TypeOK, Nothing, Means, Regs, Word, Flag, Kinds
    <2>2. ASSUME Init PROVE LowInv /\ LongArithmetic
      BY <2>2 DEF Init, LowInv, LongArithmetic, AddsLow, AddsLong, SubtractsLow, SubtractsLong, Nothing, Means
    <2> QED
      BY <2>1, <2>2
  <1>2. Inv /\ [Next]_vars => Inv'
    <2> SUFFICES ASSUME Inv, [Next]_vars PROVE Inv'
      OBVIOUS
    <2> QED
      BY Steps, LongKept
  <1> QED
    BY <1>1, <1>2, PTL DEF Spec

LEMMA AluResults == Spec => []ResultsAreExact
  <1> DEFINE Inv == TypeOK /\ ResultsAreExact
  <1>1. Init => Inv
    <2>1. ASSUME Init PROVE TypeOK
      BY <2>1, SizeFacts DEF Init, TypeOK, Nothing, Means, Regs, Word, Flag, Kinds
    <2>2. ASSUME Init PROVE ResultsAreExact
      BY <2>2 DEF Init, ResultsAreExact, ShiftsAreExact, ProductsAreExact, QuotientsAreExact, Nothing, Means
    <2> QED
      BY <2>1, <2>2
  <1>2. Inv /\ [Next]_vars => Inv'
    <2> SUFFICES ASSUME Inv, [Next]_vars PROVE Inv'
      OBVIOUS
    <2> QED
      BY Steps, ResultsKept
  <1> QED
    BY <1>1, <1>2, PTL DEF Spec

(* The integer unit of the CPU is that of Alu.                             *)
LEMMA CpuIsAlu == CpuSpec => Spec
  <1>1. CpuInit => Init
    BY DEF CpuInit
  <1>2. [AluStep \/ FpuStep]_<<alu, fpu, unit>> => [Next]_vars
    BY DEF AluStep, FpuStep, alu, vars
  <1> QED
    BY <1>1, <1>2, PTL DEF CpuSpec, Spec

(* After a comparison, and any moves since, the conditions of Jcc, SETcc   *)
(* and CMOVcc decide what they are named for, in words of every width, and *)
(* of bytes that are compared at data_size (alu_sub(), TEST,               *)
(* instr_helper.h).                                                        *)
THEOREM ConditionsDecide == CpuSpec => []ComparisonsDecide
  BY CpuIsAlu, AluConditions, PTL

(* ADD and ADC, SUB and SBB compute with numbers of two words or of two    *)
(* bytes: result, CF and the sign that SF and OF have together are exact.  *)
(* OF alone speaks of the size at which the code adds: that of the words in*)
(* the v forms, data_size in the b forms, where it is never set (alu_add() *)
(* to alu_sbb(), adc.c, sbb.c).                                            *)
THEOREM LongNumbers == CpuSpec => []LongArithmetic
  BY CpuIsAlu, AluLongNumbers, PTL

(* Shifts, products and quotients are exact in words of every width        *)
(* (alu_shl() to alu_idiv(), mul.c); CLTD is exact in its form of 32 bits, *)
(* and of 16 bits of words that are not negative (cltd.c).                 *)
THEOREM ResultsExact == CpuSpec => []ResultsAreExact
  BY CpuIsAlu, AluResults, PTL

-----------------------------------------------------------------------------
(* Products and powers.                                                    *)

LEMMA Scaling ==
  ASSUME NEW a \in Int, NEW b \in Int, NEW c \in Nat \ {0}
  PROVE  /\ a * c \in Int /\ b * c \in Int
         /\ a < b <=> a * c < b * c
         /\ a <= b <=> a * c <= b * c
         /\ a = b <=> a * c = b * c
  <1>1. ASSUME NEW x \in Int, NEW y \in Int, x < y PROVE x * c < y * c
    <2>1. (y - x) * c >= c
      BY <1>1
    <2>2. (y - x) * c = y * c - x * c
      OBVIOUS
    <2> QED
      BY <2>1, <2>2
  <1>2. a < b => a * c < b * c
    BY <1>1
  <1>3. b < a => b * c < a * c
    BY <1>1
  <1>4. a * c \in Int /\ b * c \in Int
    OBVIOUS
  <1>5. a = b => a * c = b * c
    OBVIOUS
  <1> QED
    BY <1>2, <1>3, <1>4, <1>5

LEMMA PowerOrder ==
  ASSUME NEW m \in Nat, NEW n \in Nat
  PROVE  /\ m <= n => 2 ^ m <= 2 ^ n
         /\ m < n => 2 * 2 ^ m <= 2 ^ n
  <1>1. ASSUME NEW i \in Nat, NEW j \in Nat, i <= j PROVE 2 ^ i <= 2 ^ j
    <2>1. PICK k \in Nat : j = i + k
      <3>1. j - i \in Nat /\ j = i + (j - i)
        BY <1>1
      <3> QED
        BY <3>1
    <2>2. 2 ^ j = 2 ^ i * 2 ^ k
      BY <2>1, PowerOfSum
    <2>3. PICK p \in Nat \ {0} : p = 2 ^ i
      BY PowerFacts
    <2>4. PICK q \in Nat \ {0} : q = 2 ^ k
      BY PowerFacts
    <2>5. p * q >= p
      OBVIOUS
    <2> QED
      BY <2>2, <2>3, <2>4, <2>5
  <1>2. ASSUME m < n PROVE 2 * 2 ^ m <= 2 ^ n
    <2>1. m + 1 \in Nat /\ m + 1 <= n
      BY <1>2
    <2>2. 2 ^ (m + 1) <= 2 ^ n
      BY <1>1, <2>1
    <2> QED
      BY <2>2, PowerFacts
  <1> QED
    BY <1>1, <1>2

LEMMA PowerExceeds ==
  ASSUME NEW n \in Nat
  PROVE  n < 2 ^ n
  <1> DEFINE T == {k \in Nat : 2 ^ k <= k}
  <1>1. T = {}
    <2> SUFFICES ASSUME T # {} PROVE FALSE
      OBVIOUS
    <2>1. T \in SUBSET Nat
      OBVIOUS
    <2>2. PICK k \in T : \A j \in T : ~(j < k)
      BY <2>1, LeastNumber
    <2>3. k \in Nat /\ 2 ^ k <= k
      OBVIOUS
    <2>4. k # 0
      <3>1. k = 0 => 2 ^ k = 1
        BY PowerOfZero, Zenon
      <3> QED
        BY <2>3, <3>1
    <2>5. PICK j \in Nat : k = j + 1
      <3>1. k - 1 \in Nat /\ k = (k - 1) + 1
        BY <2>3, <2>4
      <3> QED
        BY <3>1
    <2>6. j < 2 ^ j
      <3>1. j \notin T
        BY <2>2, <2>5
      <3>2. 2 ^ j \in Nat
        BY PowerFacts
      <3> QED
        BY <3>1, <3>2
    <2>7. 2 ^ k = 2 * 2 ^ j /\ 2 ^ j \in Nat
      BY <2>5, PowerFacts
    <2> QED
      BY <2>3, <2>5, <2>6, <2>7
  <1>2. n \notin T /\ 2 ^ n \in Nat
    BY <1>1, PowerFacts
  <1> QED
    BY <1>2

(* The power of two by which a number exceeds another.                     *)
LEMMA Leading ==
  ASSUME NEW m \in Nat \ {0}, NEW sig \in Nat, sig >= m
  PROVE  \E r \in Nat : m * 2 ^ r <= sig /\ sig < 2 * (m * 2 ^ r)
  <1> DEFINE T == {r \in Nat : sig < 2 * (m * 2 ^ r)}
  <1>1. sig \in T
    <2>1. PICK p \in Nat : p = 2 ^ sig /\ sig < p
      BY PowerFacts, PowerExceeds
    <2>2. p <= m * p
      OBVIOUS
    <2>3. m * p \in Nat
      OBVIOUS
    <2>4. sig < 2 * (m * p)
      BY <2>1, <2>2, <2>3
    <2> QED
      BY <2>1, <2>4
  <1>2. PICK r \in T : \A j \in T : ~(j < r)
    <2>1. T \in SUBSET Nat /\ T # {}
      BY <1>1
    <2> QED
      BY <2>1, LeastNumber
  <1>3. r \in Nat /\ sig < 2 * (m * 2 ^ r)
    OBVIOUS
  <1>4. m * 2 ^ r <= sig
    <2>1. CASE r = 0
      BY <2>1, PowerOfZero
    <2>2. CASE r # 0
      <3>1. PICK j \in Nat : r = j + 1
        <4>1. r - 1 \in Nat /\ r = (r - 1) + 1
          BY <1>3, <2>2
        <4> QED
          BY <4>1
      <3>2. ~(sig < 2 * (m * 2 ^ j))
        <4>1. j \notin T
          BY <1>2, <3>1
        <4> QED
          BY <4>1
      <3>3. PICK p \in Nat : p = 2 ^ j /\ 2 ^ r = 2 * p
        BY <3>1, PowerFacts
      <3>4. m * (2 * p) = 2 * (m * p) /\ m * p \in Nat
        OBVIOUS
      <3> QED
        BY <3>2, <3>3, <3>4
    <2> QED
      BY <2>1, <2>2
  <1> QED
    BY <1>3, <1>4

-----------------------------------------------------------------------------
(* The format.                                                             *)

LEMMA FormatFacts ==
  /\ ExpBits \in Nat /\ FracBits \in Nat \ {0} /\ NR_REG \in Nat \ {0}
  /\ Hidden \in Nat \ {0} /\ Hidden = 2 ^ FracBits /\ Hidden >= 2 /\ Hidden = 2 * (Hidden \div 2)
  /\ Hidden \div 2 \in 1 .. Hidden - 1
  /\ Bias \in Nat \ {0} /\ MaxExp \in Nat /\ MaxExp = 2 * Bias + 1
  /\ Normal = 8 * Hidden /\ Normal \in Nat \ {0}
  <1>1. ExpBits \in Nat /\ ExpBits >= 2 /\ FracBits \in Nat \ {0} /\ NR_REG \in Nat \ {0}
    BY FormatAssumption
  <1>2. PICK h \in Nat \ {0} : Hidden = 2 * h
    <2>1. FracBits - 1 \in Nat /\ (FracBits - 1) + 1 = FracBits
      BY <1>1
    <2>2. 2 ^ ((FracBits - 1) + 1) = 2 * 2 ^ (FracBits - 1) /\ 2 ^ (FracBits - 1) \in Nat \ {0}
      BY <2>1, PowerFacts
    <2>3. Hidden = 2 * 2 ^ (FracBits - 1)
      BY <2>1, <2>2 DEF Hidden
    <2> QED
      BY <2>2, <2>3
  <1>3. Hidden \div 2 = h
    BY <1>2
  <1>4. PICK b \in Nat : 2 ^ (ExpBits - 1) = b /\ b >= 2 /\ 2 ^ ExpBits = 2 * b
    <2>1. ExpBits - 1 \in Nat /\ (ExpBits - 1) + 1 = ExpBits /\ 1 <= ExpBits - 1
      BY <1>1
    <2>2. 2 ^ ((ExpBits - 1) + 1) = 2 * 2 ^ (ExpBits - 1) /\ 2 ^ (ExpBits - 1) \in Nat
      BY <2>1, PowerFacts
    <2>3. ExpBits - 1 < 2 ^ (ExpBits - 1)
      BY <2>1, PowerExceeds
    <2> QED
      BY <2>1, <2>2, <2>3
  <1>5. Bias = b - 1 /\ MaxExp = 2 * b - 1
    BY <1>4 DEF Bias, MaxExp
  <1>6. Normal = 8 * Hidden
    BY DEF Normal
  <1>7. Hidden = 2 ^ FracBits
    BY DEF Hidden
  <1> QED
    BY <1>1, <1>2, <1>3, <1>4, <1>5, <1>6, <1>7

-----------------------------------------------------------------------------
(* Rounding.  A significand s and a number v of eighths of a unit u stand  *)
(* for each other: v is s units, or, where a 1 was lost, it lies within    *)
(* one unit of an odd s; a truncated s leaves v to the next one.           *)
Near(s, v, u) == IF s % 2 = 0 THEN v = s * u ELSE (s - 1) * u < v /\ v < (s + 1) * u
Truncated(s, v, u) == IF s % 2 = 0 THEN s * u <= v /\ v < (s + 1) * u
                      ELSE (s - 1) * u < v /\ v < (s + 1) * u

LEMMA SqueezeParts ==
  ASSUME NEW sig \in Nat, NEW n \in Nat
  PROVE  \E q \in Nat, r \in Nat :
           /\ r < 2 ^ n /\ sig = q * 2 ^ n + r
           /\ Squeeze(sig, n) = IF r # 0 /\ q % 2 = 0 THEN q + 1 ELSE q
  <1>1. PICK p \in Nat \ {0} : p = 2 ^ n
    BY PowerFacts
  <1>2. PICK q \in Nat : q = sig \div p
    BY <1>1, DivisionFacts
  <1>3. PICK r \in 0 .. p - 1 : r = sig % p
    BY <1>1, DivisionFacts
  <1>4. sig = p * (sig \div p) + (sig % p)
    <2>1. sig \in Int
      OBVIOUS
    <2> QED
      BY <2>1, DivisionFacts, Zenon
  <1>5. sig = q * p + r
    <2>1. sig = p * q + r
      BY <1>2, <1>3, <1>4, Zenon
    <2> QED
      BY <2>1
  <1>6. Squeeze(sig, n) = IF r # 0 /\ q % 2 = 0 THEN q + 1 ELSE q
    BY <1>1, <1>2, <1>3 DEF Squeeze
  <1>7. r \in Nat /\ r < 2 ^ n /\ sig = q * 2 ^ n + r
    BY <1>1, <1>3, <1>5
  <1> QED
    BY <1>6, <1>7

LEMMA SqueezeBound ==
  ASSUME NEW sig \in Nat, NEW n \in Nat, NEW c \in Nat
  PROVE  /\ Squeeze(sig, n) \in Nat
         /\ Squeeze(sig, n) < 2 * c <=> sig < (2 * c) * 2 ^ n
  <1>1. PICK q \in Nat, r \in Nat :
           /\ r < 2 ^ n /\ sig = q * 2 ^ n + r
           /\ Squeeze(sig, n) = IF r # 0 /\ q % 2 = 0 THEN q + 1 ELSE q
    BY SqueezeParts
  <1>2. PICK p \in Nat \ {0} : p = 2 ^ n
    BY PowerFacts
  <1>3. Squeeze(sig, n) \in Nat
    BY <1>1
  <1>4. CASE q < 2 * c
    <2>1. Squeeze(sig, n) < 2 * c
      BY <1>1, <1>4
    <2>2. q + 1 <= 2 * c
      BY <1>4
    <2>3. (q + 1) * p <= (2 * c) * p
      BY <2>2, Scaling
    <2>4. (q + 1) * p = q * p + p
      OBVIOUS
    <2>5. q * p \in Nat /\ (2 * c) * p \in Nat
      OBVIOUS
    <2>6. sig < (2 * c) * p
      BY <1>1, <1>2, <2>3, <2>4, <2>5
    <2> QED
      BY <1>2, <1>3, <2>1, <2>6
  <1>5. CASE ~(q < 2 * c)
    <2>1. ~(Squeeze(sig, n) < 2 * c)
      BY <1>1, <1>5
    <2>2. (2 * c) * p <= q * p
      BY <1>5, Scaling
    <2>3. q * p \in Nat /\ (2 * c) * p \in Nat
      OBVIOUS
    <2>4. ~(sig < (2 * c) * p)
      BY <1>1, <1>2, <2>2, <2>3
    <2> QED
      BY <1>2, <1>3, <2>1, <2>4
  <1> QED
    BY <1>4, <1>5

(* What is squeezed still stands for the same number, of larger units.     *)
LEMMA SqueezeKeeps ==
  ASSUME NEW sig \in Nat, NEW n \in Nat, NEW c \in Nat \ {0}, NEW v \in Nat
  PROVE  /\ v = sig * c => Near(Squeeze(sig, n), v, c * 2 ^ n)
         /\ sig * c <= v /\ v < (sig + 1) * c => Truncated(Squeeze(sig, n), v, c * 2 ^ n)
  <1>1. PICK q \in Nat, r \in Nat :
           /\ r < 2 ^ n /\ sig = q * 2 ^ n + r
           /\ Squeeze(sig, n) = IF r # 0 /\ q % 2 = 0 THEN q + 1 ELSE q
    BY SqueezeParts
  <1>2. PICK p \in Nat \ {0} : p = 2 ^ n
    BY PowerFacts
  <1>3. PICK u \in Nat \ {0} : u = c * p
    <2>1. c * p \in Nat \ {0}
      OBVIOUS
    <2> QED
      BY <2>1
  <1>4. PICK a \in Nat : a = q * u
    <2>1. q * u \in Nat
      OBVIOUS
    <2> QED
      BY <2>1
  <1>5. PICK b \in Nat : b = r * c
    <2>1. r * c \in Nat
      OBVIOUS
    <2> QED
      BY <2>1
  <1>6. sig * c = a + b
    <2>1. (q * p + r) * c = q * (c * p) + r * c
      OBVIOUS
    <2> QED
      BY <1>1, <1>2, <1>3, <1>4, <1>5, <2>1
  <1>7. (sig + 1) * c = a + b + c
    <2>1. (sig + 1) * c = sig * c + c
      OBVIOUS
    <2> QED
      BY <1>6, <2>1
  <1>8. b + c <= u /\ (r # 0 => b > 0) /\ (r = 0 => b = 0)
    <2>1. (r + 1) * c <= p * c
      <3>1. r + 1 <= p
        BY <1>1, <1>2
      <3> QED
        BY <3>1, Scaling
    <2>2. (r + 1) * c = r * c + c /\ p * c = c * p
      OBVIOUS
    <2>3. r # 0 => r * c > 0
      OBVIOUS
    <2>4. r = 0 => r * c = 0
      OBVIOUS
    <2> QED
      BY <1>3, <1>5, <2>1, <2>2, <2>3, <2>4
  <1>9. PICK s \in Nat : s = Squeeze(sig, n)
    BY SqueezeBound
  <1>10. /\ (q + 1) * u = a + u /\ q * u = a
         /\ (q - 1) * u = a - u /\ (q + 2) * u = a + 2 * u
    <2>1. (q + 1) * u = q * u + u /\ (q - 1) * u = q * u - u /\ (q + 2) * u = q * u + 2 * u
      OBVIOUS
    <2> QED
      BY <1>4, <2>1
  <1>11. ASSUME a + b <= v, v < a + b + c PROVE Truncated(s, v, u)
    <2>1. CASE r # 0 /\ q % 2 = 0
      <3>1. s = q + 1 /\ s % 2 = 1 /\ s - 1 = q /\ s + 1 = q + 2
        BY <1>1, <1>9, <2>1
      <3>2. a < v /\ v < a + 2 * u
        BY <1>8, <1>11, <2>1
      <3> QED
        BY <1>10, <3>1, <3>2 DEF Truncated
    <2>2. CASE ~(r # 0 /\ q % 2 = 0) /\ q % 2 = 0
      <3>1. s = q /\ s % 2 = 0 /\ r = 0
        BY <1>1, <1>9, <2>2
      <3>2. a <= v /\ v < a + u
        BY <1>8, <1>11
      <3> QED
        BY <1>10, <3>1, <3>2 DEF Truncated
    <2>3. CASE q % 2 # 0
      <3>1. s = q /\ s % 2 # 0
        BY <1>1, <1>9, <2>3
      <3>2. a - u < v /\ v < a + u
        BY <1>8, <1>11
      <3> QED
        BY <1>10, <3>1, <3>2 DEF Truncated
    <2> QED
      BY <2>1, <2>2, <2>3
  <1>12. ASSUME v = a + b PROVE Near(s, v, u)
    <2>1. Truncated(s, v, u)
      BY <1>11, <1>12
    <2>2. CASE s % 2 # 0
      BY <2>1, <2>2 DEF Truncated, Near
    <2>3. CASE s % 2 = 0
      <3>1. s = q /\ r = 0
        BY <1>1, <1>9, <2>3
      <3>2. v = a
        BY <1>8, <1>12, <3>1
      <3> QED
        BY <1>10, <2>3, <3>1, <3>2 DEF Near
    <2> QED
      BY <2>2, <2>3
  <1> QED
    BY <1>2, <1>3, <1>6, <1>7, <1>9, <1>11, <1>12

-----------------------------------------------------------------------------
(* The weights of the numbers, in their order.                             *)
W(k) == Weight(Rank(k))

\* a rank is a scale e and a significand m, and one more than 2 * Hidden - 1
\* begins the next scale
Place(e, m) == (e - 1) * Hidden + m
Placed(e, m) == e \in Nat \ {0} /\ m \in 0 .. 2 * Hidden /\ (m >= Hidden \/ e = 1)

LEMMA RankParts ==
  ASSUME NEW k \in Nat
  PROVE  k \div Hidden \in Nat /\ k % Hidden \in 0 .. Hidden - 1
         /\ k = Hidden * (k \div Hidden) + (k % Hidden)
  <1>1. k \in Int /\ Hidden \in Nat \ {0}
    BY FormatFacts
  <1>2. k >= 0
    OBVIOUS
  <1>3. /\ k \div Hidden \in Int /\ k % Hidden \in 0 .. Hidden - 1
        /\ k = Hidden * (k \div Hidden) + (k % Hidden)
        /\ k >= 0 => k \div Hidden \in Nat
    BY <1>1, DivisionFacts
  <1> QED
    BY <1>2, <1>3, Zenon

LEMMA RankOfParts ==
  ASSUME NEW q \in Nat, NEW r \in 0 .. Hidden - 1
  PROVE  (q * Hidden + r) \div Hidden = q /\ (q * Hidden + r) % Hidden = r
  <1>1. q \in Int /\ Hidden \in Nat \ {0}
    BY FormatFacts
  <1>2. (Hidden * q + r) \div Hidden = q /\ (Hidden * q + r) % Hidden = r
    BY <1>1, DivisionIsUnique
  <1>3. Hidden * q = q * Hidden
    BY <1>1
  <1> QED
    BY <1>2, <1>3

LEMMA WeightOfParts ==
  ASSUME NEW q \in Nat, NEW r \in 0 .. Hidden - 1
  PROVE  W(q * Hidden + r) = IF q = 0 THEN r ELSE (Hidden + r) * 2 ^ (q - 1)
  <1>1. Rank(q * Hidden + r) = Float(0, q, r)
    BY RankOfParts DEF Rank
  <1>2. Float(0, q, r).exp = q /\ Float(0, q, r).frac = r
    BY DEF Float
  <1> QED
    BY <1>1, <1>2, Zenon DEF W, Weight

LEMMA WeightOfPlace ==
  ASSUME NEW e \in Int, NEW m \in Int, Placed(e, m)
  PROVE  Place(e, m) \in Nat /\ W(Place(e, m)) = m * 2 ^ (e - 1)
  <1>1. PICK h \in Nat \ {0} : h = Hidden
    BY FormatFacts
  <1>2. e \in Nat \ {0} /\ m \in 0 .. 2 * h /\ (m >= h \/ e = 1) /\ e - 1 \in Nat
    BY <1>1 DEF Placed
  <1>3. CASE m < h
    <2>1. e = 1 /\ Place(e, m) = 0 * Hidden + m /\ m \in 0 .. Hidden - 1
      BY <1>1, <1>2, <1>3 DEF Place
    <2>2. W(0 * Hidden + m) = m
      BY <2>1, WeightOfParts
    <2>3. 2 ^ (e - 1) = 1
      <3>1. e - 1 = 0
        BY <2>1
      <3> QED
        BY <3>1, PowerOfZero, Zenon
    <2>4. 0 * Hidden + m \in Nat
      BY <2>1, <1>1
    <2> QED
      BY <2>1, <2>2, <2>3, <2>4
  <1>4. CASE h <= m /\ m < 2 * h
    <2>1. Place(e, m) = e * Hidden + (m - Hidden)
      <3>1. (e - 1) * h = e * h - h
        BY <1>2
      <3>2. e * h \in Int
        BY <1>2
      <3> QED
        BY <1>1, <1>2, <3>1, <3>2 DEF Place
    <2>2. m - Hidden \in 0 .. Hidden - 1 /\ e \in Nat /\ e # 0 /\ Hidden + (m - Hidden) = m
      BY <1>1, <1>2, <1>4
    <2>3. W(e * Hidden + (m - Hidden)) = (Hidden + (m - Hidden)) * 2 ^ (e - 1)
      BY <2>2, WeightOfParts
    <2>4. e * Hidden + (m - Hidden) \in Nat
      <3>1. e * h \in Nat
        BY <1>2
      <3> QED
        BY <1>1, <2>2, <3>1
    <2> QED
      BY <2>1, <2>2, <2>3, <2>4, Zenon
  <1>5. CASE m = 2 * h
    <2>1. Place(e, m) = (e + 1) * Hidden + 0
      <3>1. (e - 1) * h = e * h - h /\ (e + 1) * h = e * h + h
        BY <1>2
      <3>2. e * h \in Int
        BY <1>2
      <3> QED
        BY <1>1, <1>5, <3>1, <3>2 DEF Place
    <2>2. e + 1 \in Nat /\ e + 1 # 0 /\ 0 \in 0 .. Hidden - 1 /\ (e + 1) - 1 = (e - 1) + 1
      BY <1>1, <1>2
    <2>3. W((e + 1) * Hidden + 0) = (Hidden + 0) * 2 ^ ((e + 1) - 1)
      BY <2>2, WeightOfParts
    <2>4. PICK p \in Nat : p = 2 ^ (e - 1) /\ 2 ^ ((e - 1) + 1) = 2 * p
      BY <1>2, PowerFacts
    <2>5. (Hidden + 0) * 2 ^ ((e + 1) - 1) = h * (2 * p)
      BY <1>1, <2>2, <2>4
    <2>6. h * (2 * p) = m * p
      BY <1>5
    <2>7. (e + 1) * Hidden + 0 \in Nat
      <3>1. (e + 1) * h \in Nat
        BY <1>2
      <3> QED
        BY <1>1, <3>1
    <2> QED
      BY <2>1, <2>3, <2>4, <2>5, <2>6, <2>7
  <1> QED
    BY <1>2, <1>3, <1>4, <1>5

LEMMA PlaceOf ==
  ASSUME NEW k \in Nat
  PROVE  \E e \in Nat \ {0}, m \in 0 .. 2 * Hidden - 1 : k = Place(e, m) /\ Placed(e, m)
  <1>1. PICK h \in Nat \ {0} : h = Hidden
    BY FormatFacts
  <1>2. PICK q \in Nat, r \in 0 .. h - 1 : k = h * q + r
    BY <1>1, RankParts
  <1>3. CASE q = 0
    <2>1. k = Place(1, r) /\ Placed(1, r) /\ r \in 0 .. 2 * Hidden - 1
      BY <1>1, <1>2, <1>3 DEF Place, Placed
    <2> QED
      BY <2>1
  <1>4. CASE q # 0
    <2>1. (q - 1) * h + (h + r) = h * q + r
      OBVIOUS
    <2>2. k = Place(q, h + r)
      BY <1>1, <1>2, <2>1 DEF Place
    <2>3. Placed(q, h + r) /\ h + r \in 0 .. 2 * Hidden - 1 /\ q \in Nat \ {0}
      BY <1>1, <1>2, <1>4 DEF Placed
    <2> QED
      BY <2>2, <2>3
  <1> QED
    BY <1>3, <1>4

LEMMA WeightRises ==
  ASSUME NEW j \in Nat, NEW k \in Nat
  PROVE  W(j) \in Nat /\ (j < k => W(j) < W(k))
  <1>1. PICK h \in Nat \ {0} : h = Hidden
    BY FormatFacts
  <1>2. PICK e \in Nat \ {0}, m \in 0 .. 2 * h - 1 : j = Place(e, m) /\ Placed(e, m)
    BY <1>1, PlaceOf
  <1>3. PICK f \in Nat \ {0}, n \in 0 .. 2 * h - 1 : k = Place(f, n) /\ Placed(f, n)
    BY <1>1, PlaceOf
  <1>4. e - 1 \in Nat /\ f - 1 \in Nat /\ e \in Int /\ f \in Int /\ m \in Int /\ n \in Int
    OBVIOUS
  <1>5. PICK p \in Nat \ {0} : p = 2 ^ (e - 1)
    BY <1>4, PowerFacts
  <1>6. PICK q \in Nat \ {0} : q = 2 ^ (f - 1)
    BY <1>4, PowerFacts
  <1>7. W(j) = m * p /\ W(k) = n * q
    BY <1>2, <1>3, <1>4, <1>5, <1>6, WeightOfPlace
  <1>8. m * p \in Nat
    OBVIOUS
  <1>9. ASSUME j < k PROVE m * p < n * q
    <2>1. (e - 1) * h + m < (f - 1) * h + n
      BY <1>1, <1>2, <1>3, <1>9 DEF Place
    <2>2. CASE e = f
      <3>1. m < n
        BY <2>1, <2>2
      <3>2. p = q
        BY <1>5, <1>6, <2>2
      <3> QED
        BY <3>1, <3>2, <1>4, Scaling
    <2>3. CASE e < f
      <3>1. 2 * p <= q
        <4>1. e - 1 < f - 1
          BY <2>3
        <4> QED
          BY <1>4, <1>5, <1>6, <4>1, PowerOrder
      <3>2. n >= h
        BY <1>1, <1>3, <2>3 DEF Placed
      <3>3. m * p < (2 * h) * p
        BY <1>4, Scaling
      <3>4. (2 * h) * p = (2 * p) * h /\ (2 * p) * h <= q * h
        BY <3>1, Scaling
      <3>5. h * q <= n * q
        BY <3>2, <1>4, Scaling
      <3>6. q * h = h * q /\ (2 * h) * p \in Nat /\ q * h \in Nat /\ n * q \in Nat
        BY <1>4
      <3> QED
        BY <1>8, <3>3, <3>4, <3>5, <3>6
    <2>4. CASE f < e
      <3>1. f * h <= (e - 1) * h
        <4>1. f <= e - 1
          BY <2>4
        <4> QED
          BY <1>4, <4>1, Scaling
      <3>2. (f - 1) * h = f * h - h /\ f * h \in Nat /\ (e - 1) * h \in Nat
        BY <1>4
      <3>3. n >= h + m
        BY <2>1, <3>1, <3>2
      <3>4. m < h
        BY <3>3
      <3> QED
        BY <1>1, <1>2, <2>4, <3>4 DEF Placed
    <2> QED
      BY <2>2, <2>3, <2>4
  <1> QED
    BY <1>7, <1>8, <1>9

(* Nearest(), when it is known between which numbers n / d lies.           *)
LEMMA LastRank == MaxExp * Hidden \in Nat \ {0} /\ Ranks = 1 .. MaxExp * Hidden
  <1>1. PICK h \in Nat \ {0} : h = Hidden
    BY FormatFacts
  <1>2. PICK m \in Nat \ {0} : m = MaxExp
    BY FormatFacts
  <1>3. m * h \in Nat \ {0}
    OBVIOUS
  <1> QED
    BY <1>1, <1>2, <1>3 DEF Ranks

LEMMA NearestBetween ==
  ASSUME NEW n \in Nat, NEW d \in Nat \ {0}, NEW k \in Nat, k < MaxExp * Hidden,
         d * W(k) <= n, n < d * W(k + 1)
  PROVE  Nearest(n, d) =
           IF 2 * n > d * (W(k) + W(k + 1)) \/ (2 * n = d * (W(k) + W(k + 1)) /\ k % 2 = 1)
           THEN k + 1 ELSE k
  <1> DEFINE S == {j \in Ranks : d * W(j) <= n}
  <1>1. PICK last \in Nat : last = MaxExp * Hidden /\ Ranks = 1 .. last
    BY LastRank
  <1>2. ASSUME NEW j \in Nat PROVE d * W(j) <= n <=> j <= k
    <2>1. j \in Nat /\ k \in Nat /\ k + 1 \in Nat
      OBVIOUS
    <2>2. W(j) \in Nat /\ W(k) \in Nat /\ W(k + 1) \in Nat
      BY <2>1, WeightRises
    <2>3. PICK a \in Nat, b \in Nat, c \in Nat : a = W(j) /\ b = W(k) /\ c = W(k + 1)
      BY <2>2
    <2>4. d * b <= n /\ n < d * c
      BY <2>3
    <2>5. CASE j <= k
      <3>1. a <= b
        BY <2>1, <2>3, <2>5, WeightRises
      <3>2. a * d <= b * d
        BY <3>1, Scaling
      <3>3. a * d = d * a /\ b * d = d * b /\ d * a \in Nat /\ d * b \in Nat
        OBVIOUS
      <3> QED
        BY <2>3, <2>4, <2>5, <3>2, <3>3
    <2>6. CASE ~(j <= k)
      <3>1. c <= a
        <4>1. k + 1 = j \/ k + 1 < j
          BY <2>6
        <4> QED
          BY <2>1, <2>3, <4>1, WeightRises
      <3>2. c * d <= a * d
        BY <3>1, Scaling
      <3>3. a * d = d * a /\ c * d = d * c /\ d * a \in Nat /\ d * c \in Nat
        OBVIOUS
      <3> QED
        BY <2>3, <2>4, <2>6, <3>2, <3>3
    <2> QED
      BY <2>5, <2>6
  <1>3. S = 1 .. k
    <2>1. \A j \in Ranks : j \in Nat
      BY <1>1
    <2>2. \A j \in 1 .. k : j \in Ranks /\ j \in Nat /\ j <= k
      BY <1>1
    <2>3. \A j \in Ranks : j \in 1 .. k <=> j <= k
      BY <1>1
    <2>4. ASSUME NEW j \in S PROVE j \in 1 .. k
      BY <1>2, <2>1, <2>3
    <2>5. ASSUME NEW j \in 1 .. k PROVE j \in S
      <3>1. d * W(j) <= n
        BY <1>2, <2>2
      <3> QED
        BY <2>2, <3>1
    <2> HIDE DEF S
    <2> QED
      BY <2>4, <2>5
  <1>4. Cardinality(S) = k
    <2>1. Cardinality(1 .. k) = k
      BY FS_Interval
    <2> QED
      BY <1>3, <2>1
  <1> HIDE DEF S
  <1>5. k + 1 \in Ranks
    BY <1>1
  <1>6. Cardinality({j \in Ranks : d * Weight(Rank(j)) <= n}) = k
    BY <1>4 DEF S, W
  <1> QED
    BY <1>5, <1>6 DEF Nearest, W

LEMMA NearestInfinity ==
  ASSUME NEW n \in Nat, NEW d \in Nat \ {0}, d * W(MaxExp * Hidden) <= n
  PROVE  Nearest(n, d) = MaxExp * Hidden
  <1> DEFINE S == {j \in Ranks : d * W(j) <= n}
  <1>1. PICK last \in Nat \ {0} : last = MaxExp * Hidden /\ Ranks = 1 .. last
    BY LastRank
  <1>2. ASSUME NEW j \in Ranks PROVE d * W(j) <= n
    <2>1. j \in Nat /\ j <= last
      BY <1>1
    <2>2. PICK a \in Nat, b \in Nat : a = W(j) /\ b = W(last)
      BY <1>1, <2>1, WeightRises
    <2>3. a <= b
      <3>1. j = last \/ j < last
        BY <2>1
      <3>2. j < last => W(j) < W(last)
        BY <2>1, WeightRises
      <3>3. j = last => W(j) = W(last)
        OBVIOUS
      <3> QED
        BY <2>2, <3>1, <3>2, <3>3
    <2>4. a * d <= b * d
      BY <2>3, Scaling
    <2>5. a * d = d * a /\ b * d = d * b /\ d * a \in Nat /\ d * b \in Nat
      OBVIOUS
    <2>6. d * b <= n
      BY <1>1, <2>2
    <2>7. d * a <= n
      BY <2>4, <2>5, <2>6
    <2> QED
      BY <2>2, <2>7
  <1>3. S = 1 .. last
    BY <1>1, <1>2
  <1>4. Cardinality(S) = last
    <2>1. Cardinality(1 .. last) = last
      BY FS_Interval
    <2> QED
      BY <1>3, <2>1
  <1> HIDE DEF S
  <1>5. last \in Ranks /\ last + 1 \notin Ranks
    BY <1>1
  <1>6. Cardinality({j \in Ranks : d * Weight(Rank(j)) <= n}) = last
    BY <1>4 DEF S, W
  <1> QED
    BY <1>1, <1>5, <1>6 DEF Nearest

-----------------------------------------------------------------------------
(* Round() finds the rank of the nearest number.                           *)
Up(s) == s % 8 > 4 \/ (s % 8 = 4 /\ (s \div 8) % 2 = 1)
RankOf(out) == out[1] * Hidden + out[2]

LEMMA EighthFacts ==
  ASSUME NEW s \in Nat
  PROVE  \E m \in Nat, g \in 0 .. 7 : m = s \div 8 /\ g = s % 8 /\ s = 8 * m + g
  OBVIOUS

LEMMA RoundFacts ==
  ASSUME NEW e \in Int, NEW s \in Nat, s < 2 * Normal
  PROVE  /\ Round(e, s)[1] \in {e, e + 1} /\ Round(e, s)[2] \in 0 .. Hidden - 1
         /\ s < Normal => Round(e, s)[1] = e
         /\ s >= Normal => RankOf(Round(e, s)) = Place(e, s \div 8) + Bit(Up(s))
         /\ s < Normal /\ s % 8 = 0 => Round(e, s) = <<e, s \div 8>>
  <1>1. PICK h \in Nat \ {0} : h = Hidden /\ Normal = 8 * h /\ h >= 2
    BY FormatFacts
  <1>2. PICK m \in Nat, g \in 0 .. 7 : m = s \div 8 /\ g = s % 8 /\ s = 8 * m + g
    BY EighthFacts
  <1>3. m < 2 * h /\ (s >= Normal <=> m >= h)
    BY <1>1, <1>2
  <1>4. PICK b \in {0, 1} : b = Bit(Up(s))
    BY DEF Bit
  <1>5. b = 1 <=> Up(s)
    BY <1>4 DEF Bit
  <1>6. PICK n \in Nat : n = m + b
    BY <1>2, <1>4
  <1>7. Round(e, s) = IF b = 1 /\ n \div h > 1
                      THEN <<e + 1, IF e + 1 = MaxExp THEN 0 ELSE (n \div 2) % h>>
                      ELSE <<e, n % h>>
    <2>1. m + (IF Up(s) THEN 1 ELSE 0) = n
      BY <1>4, <1>5, <1>6
    <2> QED
      BY <1>1, <1>2, <1>5, <2>1, Zenon DEF Round, Up
  <1>8. CASE n < h
    <2>1. n \div h = 0 /\ n % h = n
      <3>1. h * 0 + n = n /\ 0 \in Int /\ n \in 0 .. h - 1
        BY <1>8
      <3> QED
        BY <3>1, DivisionIsUnique
    <2>2. Round(e, s) = <<e, n>>
      BY <1>7, <2>1
    <2>3. m < h /\ (g = 0 => n = m)
      <3>1. g = 0 => ~Up(s)
        BY <1>2 DEF Up
      <3> QED
        BY <1>4, <1>5, <1>6, <1>8, <3>1
    <2> QED
      BY <1>1, <1>2, <1>3, <1>8, <2>2, <2>3
  <1>9. CASE h <= n /\ n < 2 * h
    <2>1. n \div h = 1 /\ n % h = n - h
      <3>1. h * 1 + (n - h) = n /\ 1 \in Int /\ n - h \in 0 .. h - 1
        BY <1>9
      <3> QED
        BY <3>1, DivisionIsUnique
    <2>2. Round(e, s) = <<e, n - h>>
      BY <1>7, <2>1
    <2>3. m < h => g # 0
      <3>1. g = 0 => ~Up(s)
        BY <1>2 DEF Up
      <3> QED
        BY <1>4, <1>5, <1>6, <1>9, <3>1
    <2>4. RankOf(Round(e, s)) = e * h + (n - h)
      BY <1>1, <2>2 DEF RankOf
    <2>5. (e - 1) * h = e * h - h /\ e * h \in Int
      OBVIOUS
    <2>6. RankOf(Round(e, s)) = Place(e, m) + b
      BY <1>1, <1>6, <2>4, <2>5 DEF Place
    <2> QED
      BY <1>1, <1>2, <1>3, <1>4, <1>9, <2>2, <2>3, <2>6
  <1>10. CASE n >= 2 * h
    <2>1. n = 2 * h /\ b = 1 /\ m >= h
      BY <1>1, <1>3, <1>6, <1>10
    <2>2. n \div h = 2
      <3>1. h * 2 + 0 = n /\ 2 \in Int /\ 0 \in 0 .. h - 1
        BY <2>1
      <3> QED
        BY <3>1, DivisionIsUnique
    <2>3. (n \div 2) % h = 0
      <3>1. n \div 2 = h /\ h * 1 + 0 = h /\ 1 \in Int /\ 0 \in 0 .. h - 1
        BY <2>1
      <3> QED
        BY <3>1, DivisionIsUnique
    <2>4. Round(e, s) = <<e + 1, 0>>
      BY <1>7, <2>1, <2>2, <2>3
    <2>5. RankOf(Round(e, s)) = (e + 1) * h + 0
      BY <1>1, <2>4 DEF RankOf
    <2>6. (e + 1) * h = e * h + h /\ (e - 1) * h = e * h - h /\ e * h \in Int
      OBVIOUS
    <2>7. RankOf(Round(e, s)) = Place(e, m) + b
      BY <1>1, <1>6, <2>1, <2>5, <2>6 DEF Place
    <2> QED
      BY <1>1, <1>2, <1>3, <1>4, <2>1, <2>4, <2>7
  <1> QED
    BY <1>8, <1>9, <1>10

(* What the guard bit and the two below it together must tell of a number. *)
Rounds(s, v, u) == IF s % 4 = 0 THEN v = s * u
                   ELSE (s - (s % 4)) * u < v /\ v < (s - (s % 4) + 4) * u

LEMMA NearRounds ==
  ASSUME NEW s \in Nat, NEW v \in Nat, NEW u \in Nat \ {0}
  PROVE  /\ Near(s, v, u) => Rounds(s, v, u)
         /\ Near(s, v, 2 * u) => Rounds(2 * s, v, u)
  <1>1. PICK m \in Nat, g \in 0 .. 3 : s = 4 * m + g /\ g = s % 4 /\ s % 2 = g % 2
    <2>1. s \div 4 \in Nat /\ s % 4 \in 0 .. 3 /\ s = 4 * (s \div 4) + (s % 4)
      OBVIOUS
    <2>2. PICK m \in Nat, g \in 0 .. 3 : s = 4 * m + g /\ g = s % 4
      BY <2>1
    <2>3. s % 2 = g % 2
      BY <2>2
    <2> QED
      BY <2>2, <2>3
  <1>2. PICK a \in Nat : a = m * u
    <2>1. m * u \in Nat
      OBVIOUS
    <2> QED
      BY <2>1
  <1>3. /\ (4 * m) * u = 4 * a /\ (4 * m + 1) * u = 4 * a + u /\ (4 * m + 2) * u = 4 * a + 2 * u
        /\ (4 * m + 3) * u = 4 * a + 3 * u /\ (4 * m + 4) * u = 4 * a + 4 * u
        /\ (4 * m - 1) * u = 4 * a - u
    BY <1>2
  <1>4. ASSUME Near(s, v, u) PROVE Rounds(s, v, u)
    <2>1. CASE g = 0
      <3>1. s = 4 * m /\ s % 2 = 0
        BY <1>1, <2>1
      <3> QED
        BY <1>1, <1>4, <2>1, <3>1 DEF Near, Rounds
    <2>2. CASE g = 1
      <3>1. s = 4 * m + 1 /\ s % 2 # 0 /\ s - 1 = 4 * m /\ s + 1 = 4 * m + 2 /\ s - g = 4 * m /\ s - g + 4 = 4 * m + 4
        BY <1>1, <2>2
      <3>2. 4 * a < v /\ v < 4 * a + 2 * u
        BY <1>3, <1>4, <3>1 DEF Near
      <3> QED
        <4>1. s % 4 # 0 /\ s - (s % 4) = 4 * m /\ s - (s % 4) + 4 = 4 * m + 4
          BY <1>1, <2>2, <3>1
        <4>2. (4 * m) * u < v /\ v < (4 * m + 4) * u
          BY <1>3, <3>2
        <4> QED
          BY <4>1, <4>2, Zenon DEF Rounds
    <2>3. CASE g = 2
      <3>1. s = 4 * m + 2 /\ s % 2 = 0 /\ s - g = 4 * m /\ s - g + 4 = 4 * m + 4
        BY <1>1, <2>3
      <3>2. v = 4 * a + 2 * u
        BY <1>3, <1>4, <3>1 DEF Near
      <3> QED
        <4>1. s % 4 # 0 /\ s - (s % 4) = 4 * m /\ s - (s % 4) + 4 = 4 * m + 4
          BY <1>1, <2>3, <3>1
        <4>2. (4 * m) * u < v /\ v < (4 * m + 4) * u
          BY <1>3, <3>2
        <4> QED
          BY <4>1, <4>2, Zenon DEF Rounds
    <2>4. CASE g = 3
      <3>1. s = 4 * m + 3 /\ s % 2 # 0 /\ s - 1 = 4 * m + 2 /\ s + 1 = 4 * m + 4 /\ s - g = 4 * m /\ s - g + 4 = 4 * m + 4
        BY <1>1, <2>4
      <3>2. 4 * a + 2 * u < v /\ v < 4 * a + 4 * u
        BY <1>3, <1>4, <3>1 DEF Near
      <3> QED
        <4>1. s % 4 # 0 /\ s - (s % 4) = 4 * m /\ s - (s % 4) + 4 = 4 * m + 4
          BY <1>1, <2>4, <3>1
        <4>2. (4 * m) * u < v /\ v < (4 * m + 4) * u
          BY <1>3, <3>2
        <4> QED
          BY <4>1, <4>2, Zenon DEF Rounds
    <2> QED
      BY <2>1, <2>2, <2>3, <2>4
  <1>5. ASSUME Near(s, v, 2 * u) PROVE Rounds(2 * s, v, u)
    <2>1. s * (2 * u) = (2 * s) * u /\ (s - 1) * (2 * u) = (2 * s - 2) * u /\ (s + 1) * (2 * u) = (2 * s + 2) * u
      OBVIOUS
    <2>2. CASE s % 2 = 0
      <3>1. (2 * s) % 4 = 0
        BY <2>2
      <3>2. v = (2 * s) * u
        BY <1>5, <2>1, <2>2 DEF Near
      <3> QED
        BY <3>1, <3>2 DEF Rounds
    <2>3. CASE s % 2 # 0
      <3>1. (2 * s) % 4 # 0 /\ 2 * s - ((2 * s) % 4) = 2 * s - 2 /\ 2 * s - ((2 * s) % 4) + 4 = 2 * s + 2
        <4>1. (2 * s) % 4 = 2
          BY <2>3
        <4> QED
          BY <4>1
      <3>2. (2 * s - 2) * u < v /\ v < (2 * s + 2) * u
        BY <1>5, <2>1, <2>3 DEF Near
      <3> QED
        BY <3>1, <3>2, Zenon DEF Rounds
    <2> QED
      BY <2>2, <2>3
  <1> QED
    BY <1>4, <1>5

(* Between which numbers n / d lies, and on which side of the middle.      *)
Carry(n, a, u, m) == IF 2 * n > 2 * a + u THEN 1 ELSE IF 2 * n < 2 * a + u THEN 0 ELSE m % 2

Between(n, d, e, m, u, a) ==
  /\ e < MaxExp /\ m < 2 * Hidden /\ (m >= Hidden \/ e = 1)
  /\ u = d * 2 ^ (e - 1) /\ a = m * u /\ a <= n /\ n < a + u

LEMMA NearestAtPlace ==
  ASSUME NEW n \in Nat, NEW d \in Nat \ {0}, NEW e \in Nat \ {0}, NEW m \in Nat,
         NEW u \in Nat \ {0}, NEW a \in Nat, Between(n, d, e, m, u, a)
  PROVE  Nearest(n, d) = Place(e, m) + Carry(n, a, u, m)
  <1> e < MaxExp /\ m < 2 * Hidden /\ (m >= Hidden \/ e = 1)
    BY DEF Between
  <1> u = d * 2 ^ (e - 1) /\ a = m * u /\ a <= n /\ n < a + u
    BY DEF Between
  <1>1. PICK h \in Nat \ {0}, hh \in Nat : h = Hidden /\ h = 2 * hh
    BY FormatFacts
  <1>2. e - 1 \in Nat /\ e \in Int /\ m \in Int /\ m + 1 \in Int
    OBVIOUS
  <1>3. PICK p \in Nat \ {0} : p = 2 ^ (e - 1)
    BY <1>2, PowerFacts
  <1>4. Placed(e, m) /\ Placed(e, m + 1)
    BY <1>1 DEF Placed
  <1>5. PICK k \in Nat : k = Place(e, m)
    BY <1>2, <1>4, WeightOfPlace
  <1>6. Place(e, m + 1) = k + 1
    <2>1. PICK x \in Nat : x = (e - 1) * h
      <3>1. (e - 1) * h \in Nat
        BY <1>2
      <3> QED
        BY <3>1
    <2>2. k = x + m
      BY <1>1, <1>5, <2>1 DEF Place
    <2>3. Place(e, m + 1) = x + (m + 1)
      BY <1>1, <2>1 DEF Place
    <2> QED
      BY <2>2, <2>3
  <1>7. W(k) = m * p /\ W(k + 1) = (m + 1) * p
    BY <1>2, <1>3, <1>4, <1>5, <1>6, WeightOfPlace
  <1>9. d * (m * p) = a /\ d * ((m + 1) * p) = a + u /\ d * (m * p + (m + 1) * p) = 2 * a + u
    <2>1. d * (m * p) = m * (d * p)
      OBVIOUS
    <2>2. d * ((m + 1) * p) = m * (d * p) + d * p
      OBVIOUS
    <2>3. d * (m * p + (m + 1) * p) = d * (m * p) + d * ((m + 1) * p)
      OBVIOUS
    <2> QED
      BY <1>3, <2>1, <2>2, <2>3
  <1>12. d * W(k) = a /\ d * W(k + 1) = a + u /\ d * (W(k) + W(k + 1)) = 2 * a + u
    BY <1>7, <1>9
  <1>13. k < MaxExp * Hidden
    <2>1. PICK x \in Nat : x = MaxExp /\ e + 1 <= x
      BY FormatFacts
    <2>2. (e + 1) * h <= x * h
      BY <2>1, Scaling
    <2>3. (e + 1) * h = (e - 1) * h + 2 * h /\ (e - 1) * h \in Nat /\ x * h \in Nat
      BY <1>2
    <2>4. k = (e - 1) * h + m
      BY <1>1, <1>5 DEF Place
    <2> QED
      BY <1>1, <2>1, <2>2, <2>3, <2>4
  <1>14. k % 2 = m % 2
    <2>1. k = 2 * ((e - 1) * hh) + m
      <3>1. (e - 1) * (2 * hh) = 2 * ((e - 1) * hh)
        OBVIOUS
      <3> QED
        BY <1>1, <1>5, <3>1 DEF Place
    <2>2. PICK y \in Nat : y = (e - 1) * hh
      <3>1. (e - 1) * hh \in Nat
        BY <1>2
      <3> QED
        BY <3>1
    <2> QED
      BY <2>1, <2>2
  <1>15. Nearest(n, d) = IF 2 * n > 2 * a + u \/ (2 * n = 2 * a + u /\ k % 2 = 1) THEN k + 1 ELSE k
    <2>1. d * W(k) <= n /\ n < d * W(k + 1)
      BY <1>12
    <2>2. Nearest(n, d) =
            IF 2 * n > d * (W(k) + W(k + 1)) \/ (2 * n = d * (W(k) + W(k + 1)) /\ k % 2 = 1)
            THEN k + 1 ELSE k
      BY <1>13, <2>1, NearestBetween, Zenon
    <2> QED
      BY <1>12, <2>2, Zenon
  <1>16. (m % 2) = IF k % 2 = 1 THEN 1 ELSE 0
    BY <1>14
  <1>17. Carry(n, a, u, m) = IF 2 * n > 2 * a + u \/ (2 * n = 2 * a + u /\ k % 2 = 1) THEN 1 ELSE 0
    BY <1>16 DEF Carry
  <1> QED
    BY <1>5, <1>15, <1>17

LEMMA RoundingIsNearest ==
  ASSUME NEW n \in Nat, NEW d \in Nat \ {0}, NEW e \in Nat \ {0}, NEW s \in Nat, e < MaxExp,
         s < 2 * Normal, s >= Normal \/ e = 1,
         Rounds(s, 8 * n, d * 2 ^ (e - 1))
  PROVE  Nearest(n, d) = Place(e, s \div 8) + Bit(Up(s))
  <1>1. PICK m \in Nat, g \in 0 .. 7 : m = s \div 8 /\ g = s % 8 /\ s = 8 * m + g
    BY EighthFacts
  <1>2. PICK p \in Nat \ {0} : p = 2 ^ (e - 1)
    <2>1. e - 1 \in Nat
      OBVIOUS
    <2> QED
      BY <2>1, PowerFacts
  <1>3. PICK u \in Nat \ {0} : u = d * p
    <2>1. d * p \in Nat \ {0}
      OBVIOUS
    <2> QED
      BY <2>1
  <1>4. m < 2 * Hidden /\ (m >= Hidden \/ e = 1)
    BY <1>1, FormatFacts
  <1>5. Rounds(s, 8 * n, u)
    BY <1>2, <1>3
  <1>6. PICK a \in Nat : a = m * u
    <2>1. m * u \in Nat
      OBVIOUS
    <2> QED
      BY <2>1
  <1>7. (8 * m) * u = 8 * a /\ (8 * m + 4) * u = 8 * a + 4 * u /\ (8 * m + 8) * u = 8 * a + 8 * u
    BY <1>6
  <1>8. Place(e, m) \in Int
    <2>1. PICK h \in Nat : h = Hidden
      BY FormatFacts
    <2>2. (e - 1) * h + m \in Int
      OBVIOUS
    <2> QED
      BY <2>1, <2>2 DEF Place
  <1>0. u = d * 2 ^ (e - 1)
    BY <1>2, <1>3
  <1>9. CASE g = 0 \/ g = 4
    <2>1. s % 4 = 0
      BY <1>1, <1>9
    <2>2. 8 * n = s * u
      BY <1>5, <2>1 DEF Rounds
    <2>3. 8 * n = IF g = 0 THEN 8 * a ELSE 8 * a + 4 * u
      BY <1>1, <1>7, <1>9, <2>2
    <2>4. Nearest(n, d) = IF g = 0 THEN Place(e, m) ELSE Place(e, m) + (m % 2)
      <3>1. a <= n /\ n < a + u
        BY <1>9, <2>3
      <3>2. Nearest(n, d) = Place(e, m) + Carry(n, a, u, m)
        <4>1. Between(n, d, e, m, u, a)
          BY <1>4, <1>6, <1>0, <3>1 DEF Between
        <4> QED
          BY <4>1, NearestAtPlace
      <3>3. Carry(n, a, u, m) = IF g = 0 THEN 0 ELSE m % 2
        BY <1>9, <2>3 DEF Carry
      <3> QED
        BY <1>8, <3>2, <3>3
    <2>5. Bit(Up(s)) = IF g = 0 THEN 0 ELSE (m % 2)
      BY <1>1, <1>9 DEF Up, Bit
    <2> QED
      BY <1>1, <1>8, <2>4, <2>5
  <1>10. CASE g \in 1 .. 3
    <2>1. s % 4 # 0 /\ s - (s % 4) = 8 * m /\ s - (s % 4) + 4 = 8 * m + 4
      <3>1. s % 4 = g
        BY <1>1, <1>10
      <3> QED
        BY <1>1, <1>10, <3>1
    <2>2. (8 * m) * u < 8 * n /\ 8 * n < (8 * m + 4) * u
      BY <1>5, <2>1, Zenon DEF Rounds
    <2>3. a <= n /\ n < a + u /\ 2 * n < 2 * a + u
      BY <1>7, <2>2
    <2>4. Nearest(n, d) = Place(e, m)
      <3>1. Nearest(n, d) = Place(e, m) + Carry(n, a, u, m)
        <4>1. Between(n, d, e, m, u, a)
          BY <1>4, <1>6, <1>0, <2>3 DEF Between
        <4> QED
          BY <4>1, NearestAtPlace
      <3>2. Carry(n, a, u, m) = 0
        BY <2>3 DEF Carry
      <3> QED
        BY <1>8, <3>1, <3>2
    <2>5. Bit(Up(s)) = 0
      BY <1>1, <1>10 DEF Up, Bit
    <2> QED
      BY <1>1, <1>8, <2>4, <2>5
  <1>11. CASE g \in 5 .. 7
    <2>1. s % 4 # 0 /\ s - (s % 4) = 8 * m + 4 /\ s - (s % 4) + 4 = 8 * m + 8
      <3>1. s % 4 = g - 4
        BY <1>1, <1>11
      <3> QED
        BY <1>1, <1>11, <3>1
    <2>2. (8 * m + 4) * u < 8 * n /\ 8 * n < (8 * m + 8) * u
      BY <1>5, <2>1, Zenon DEF Rounds
    <2>3. a <= n /\ n < a + u /\ 2 * n > 2 * a + u
      BY <1>7, <2>2
    <2>4. Nearest(n, d) = Place(e, m) + 1
      <3>1. Nearest(n, d) = Place(e, m) + Carry(n, a, u, m)
        <4>1. Between(n, d, e, m, u, a)
          BY <1>4, <1>6, <1>0, <2>3 DEF Between
        <4> QED
          BY <4>1, NearestAtPlace
      <3>2. Carry(n, a, u, m) = 1
        BY <2>3 DEF Carry
      <3> QED
        BY <1>8, <3>1, <3>2
    <2>5. Bit(Up(s)) = 1
      BY <1>1, <1>11 DEF Up, Bit
    <2> QED
      BY <1>1, <1>8, <2>4, <2>5
  <1> QED
    BY <1>9, <1>10, <1>11

(* A truncated significand may miss the nearest number by one.             *)
LEMMA TruncatedIsNearby ==
  ASSUME NEW n \in Nat, NEW d \in Nat \ {0}, NEW e \in Nat \ {0}, NEW s \in Nat, e < MaxExp,
         s < 2 * Normal, s >= Normal \/ e = 1,
         Truncated(s, 8 * n, d * 2 ^ (e - 1))
  PROVE  Place(e, s \div 8) + Bit(Up(s)) \in {Nearest(n, d), Nearest(n, d) - 1}
  <1>1. PICK m \in Nat, g \in 0 .. 7 : m = s \div 8 /\ g = s % 8 /\ s = 8 * m + g
    BY EighthFacts
  <1>2. PICK p \in Nat \ {0} : p = 2 ^ (e - 1)
    <2>1. e - 1 \in Nat
      OBVIOUS
    <2> QED
      BY <2>1, PowerFacts
  <1>3. PICK u \in Nat \ {0} : u = d * p
    <2>1. d * p \in Nat \ {0}
      OBVIOUS
    <2> QED
      BY <2>1
  <1>4. m < 2 * Hidden /\ (m >= Hidden \/ e = 1)
    BY <1>1, FormatFacts
  <1>5. Truncated(s, 8 * n, u)
    BY <1>2, <1>3
  <1>6. PICK a \in Nat : a = m * u
    <2>1. m * u \in Nat
      OBVIOUS
    <2> QED
      BY <2>1
  <1>8. PICK k \in Int : k = Place(e, m)
    <2>1. PICK h \in Nat : h = Hidden
      BY FormatFacts
    <2>2. (e - 1) * h + m \in Int
      OBVIOUS
    <2> QED
      BY <2>1, <2>2 DEF Place
  <1>9. /\ g \in 0 .. 3 => 8 * a <= 8 * n /\ 8 * n < 8 * a + 4 * u
        /\ g \in 4 .. 7 => 8 * a + 4 * u <= 8 * n /\ 8 * n < 8 * a + 8 * u
        /\ g \in 5 .. 7 => 8 * a + 4 * u < 8 * n
    <2>1. \A i \in 0 .. 8 : (8 * m + i) * u = 8 * a + i * u
      BY <1>6
    <2>2. CASE g \in {0, 2, 4, 6}
      <3>1. s % 2 = 0
        BY <1>1, <2>2
      <3>2. (8 * m + g) * u <= 8 * n /\ 8 * n < (8 * m + (g + 1)) * u
        BY <1>1, <1>5, <3>1 DEF Truncated
      <3>3. 8 * a + g * u <= 8 * n /\ 8 * n < 8 * a + (g + 1) * u
        BY <2>1, <2>2, <3>2
      <3> QED
        BY <2>2, <3>3
    <2>3. CASE g \in {1, 3, 5, 7}
      <3>1. s % 2 # 0 /\ s - 1 = 8 * m + (g - 1) /\ s + 1 = 8 * m + (g + 1)
        BY <1>1, <2>3
      <3>2. (8 * m + (g - 1)) * u < 8 * n /\ 8 * n < (8 * m + (g + 1)) * u
        BY <1>1, <1>5, <3>1 DEF Truncated
      <3>3. 8 * a + (g - 1) * u < 8 * n /\ 8 * n < 8 * a + (g + 1) * u
        BY <2>1, <2>3, <3>2
      <3> QED
        BY <2>3, <3>3
    <2> QED
      BY <2>2, <2>3
  <1>10. a <= n /\ n < a + u
    BY <1>9
  <1>11. /\ 2 * n > 2 * a + u => Nearest(n, d) = k + 1
         /\ 2 * n < 2 * a + u => Nearest(n, d) = k
         /\ 2 * n = 2 * a + u => Nearest(n, d) = k + (m % 2)
    <2>1. u = d * 2 ^ (e - 1)
      BY <1>2, <1>3
    <2>2. Nearest(n, d) = Place(e, m) + Carry(n, a, u, m)
      <3>1. Between(n, d, e, m, u, a)
        BY <1>4, <1>6, <1>10, <2>1 DEF Between
      <3> QED
        BY <3>1, NearestAtPlace
    <2>3. Nearest(n, d) = k + Carry(n, a, u, m)
      BY <1>8, <2>2, Zenon
    <2>4. m % 2 \in {0, 1}
      OBVIOUS
    <2> QED
      BY <2>3, <2>4 DEF Carry
  <1>12. CASE g \in 0 .. 3
    <2>1. Nearest(n, d) = k
      BY <1>9, <1>11, <1>12
    <2>2. Bit(Up(s)) = 0
      BY <1>1, <1>12 DEF Up, Bit
    <2> QED
      BY <1>1, <1>8, <2>1, <2>2
  <1>13. CASE g \in 5 .. 7
    <2>1. Nearest(n, d) = k + 1
      BY <1>9, <1>11, <1>13
    <2>2. Bit(Up(s)) = 1
      BY <1>1, <1>13 DEF Up, Bit
    <2> QED
      BY <1>1, <1>8, <2>1, <2>2
  <1>14. CASE g = 4
    <2>1. Bit(Up(s)) = (m % 2) /\ (m % 2) \in {0, 1}
      BY <1>1, <1>14 DEF Up, Bit
    <2>2. Nearest(n, d) = k + 1 \/ Nearest(n, d) = k + (m % 2)
      BY <1>9, <1>11, <1>14
    <2> QED
      BY <1>1, <1>8, <2>1, <2>2
  <1> QED
    BY <1>12, <1>13, <1>14

-----------------------------------------------------------------------------
(* The loops of internal_normalize().                                      *)

LEMMA RightStops ==
  ASSUME NEW exp \in Int, NEW sig \in Nat
  PROVE  \E n \in 0 .. sig :
           /\ Right(exp, sig) = <<exp + n, Squeeze(sig, n)>>
           /\ ~TooLong(exp + n, Squeeze(sig, n))
           /\ \A k \in 0 .. n - 1 : TooLong(exp + k, Squeeze(sig, k))
  <1> DEFINE Ends == {n \in Nat : ~TooLong(exp + n, Squeeze(sig, n))}
             First(n) == /\ ~TooLong(exp + n, Squeeze(sig, n))
                         /\ \A k \in 0 .. n - 1 : TooLong(exp + k, Squeeze(sig, k))
  <1>1. sig \in Ends
    <2>1. Squeeze(sig, sig) \in Nat /\ Squeeze(sig, sig) < 2
      <3>1. PICK p \in Nat : p = 2 ^ sig /\ sig < p
        BY PowerFacts, PowerExceeds
      <3>2. sig < (2 * 1) * 2 ^ sig
        BY <3>1
      <3>3. 1 \in Nat
        OBVIOUS
      <3>4. Squeeze(sig, sig) \in Nat /\ (Squeeze(sig, sig) < 2 * 1 <=> sig < (2 * 1) * 2 ^ sig)
        BY <3>3, SqueezeBound
      <3> QED
        BY <3>2, <3>4
    <2>2. PICK s \in 0 .. 1 : s = Squeeze(sig, sig)
      BY <2>1
    <2>3. PICK m \in Nat : m = Normal /\ m >= 16
      BY FormatFacts
    <2>4. s \div m = 0
      BY <2>3
    <2>5. ~TooLong(exp + sig, s)
      BY <2>3, <2>4 DEF TooLong
    <2> QED
      BY <2>2, <2>5
  <1>2. PICK n \in Ends : \A k \in Ends : ~(k < n)
    <2>1. Ends \in SUBSET Nat /\ Ends # {}
      BY <1>1
    <2> QED
      BY <2>1, LeastNumber
  <1>3. n \in 0 .. sig
    <2>1. n \in Nat /\ ~(sig < n)
      BY <1>1, <1>2
    <2> QED
      BY <2>1
  <1>4. First(n)
    <2>1. \A k \in 0 .. n - 1 : k \in Nat /\ k < n
      BY <1>3
    <2>2. \A k \in 0 .. n - 1 : k \notin Ends
      BY <1>2, <2>1
    <2> QED
      BY <2>1, <2>2
  <1> DEFINE turns == CHOOSE i \in 0 .. sig : First(i)
  <1>5. turns \in 0 .. sig /\ First(turns)
    <2> HIDE DEF First
    <2> QED
      BY <1>3, <1>4
  <1>6. Right(exp, sig) = <<exp + turns, Squeeze(sig, turns)>>
    BY DEF Right
  <1> HIDE DEF turns
  <1> QED
    BY <1>5, <1>6

LEMMA LeftStops ==
  ASSUME NEW exp \in Nat, NEW sig \in Nat
  PROVE  \E n \in 0 .. exp :
           /\ Left(exp, sig) = <<exp - n, sig * 2 ^ n>>
           /\ ~TooShort(exp - n, sig * 2 ^ n)
           /\ \A k \in 0 .. n - 1 : TooShort(exp - k, sig * 2 ^ k)
  <1> DEFINE Ends == {n \in Nat : ~TooShort(exp - n, sig * 2 ^ n)}
             First(n) == /\ ~TooShort(exp - n, sig * 2 ^ n)
                         /\ \A k \in 0 .. n - 1 : TooShort(exp - k, sig * 2 ^ k)
  <1>1. exp \in Ends
    BY DEF TooShort
  <1>2. PICK n \in Ends : \A k \in Ends : ~(k < n)
    <2>1. Ends \in SUBSET Nat /\ Ends # {}
      BY <1>1
    <2> QED
      BY <2>1, LeastNumber
  <1>3. n \in 0 .. exp
    <2>1. n \in Nat
      OBVIOUS
    <2>2. ~(exp < n)
      BY <1>1, <1>2
    <2> HIDE DEF Ends
    <2> QED
      BY <2>1, <2>2
  <1>4. First(n)
    <2>1. \A k \in 0 .. n - 1 : k \in Nat /\ k < n
      BY <1>3
    <2>2. \A k \in 0 .. n - 1 : k \notin Ends
      BY <1>2, <2>1
    <2> QED
      BY <2>1, <2>2
  <1> DEFINE turns == CHOOSE i \in 0 .. exp : First(i)
  <1>5. turns \in 0 .. exp /\ First(turns)
    <2> HIDE DEF First
    <2> QED
      BY <1>3, <1>4
  <1>6. Left(exp, sig) = <<exp - turns, sig * 2 ^ turns>>
    BY DEF Left
  <1> HIDE DEF turns
  <1> QED
    BY <1>5, <1>6

LEMMA LongFacts ==
  ASSUME NEW sig \in Nat
  PROVE  /\ sig \div Normal > 1 <=> sig >= 2 * Normal
         /\ sig \div Normal = 1 <=> Normal <= sig /\ sig < 2 * Normal
         /\ \A exp \in Int :
              TooLong(exp, sig) <=> (sig >= 2 * Normal /\ exp < MaxExp) \/ (sig > 4 /\ exp < 0)
  <1>1. PICK n \in Nat \ {0} : n = Normal
    BY FormatFacts
  <1>2. PICK q \in Nat, r \in 0 .. n - 1 : q = sig \div n /\ sig = n * q + r
    <2>1. sig \in Int /\ sig >= 0
      OBVIOUS
    <2>2. /\ sig \div n \in Int /\ sig % n \in 0 .. n - 1 /\ sig = n * (sig \div n) + (sig % n)
          /\ sig >= 0 => sig \div n \in Nat
      BY <2>1, DivisionFacts, Zenon
    <2> QED
      BY <2>1, <2>2
  <1>3. /\ q = 0 => n * q = 0
        /\ q = 1 => n * q = n
        /\ q > 1 => n * q >= 2 * n
    <2>1. ASSUME q > 1 PROVE n * q >= 2 * n
      <3>1. 2 * n <= q * n
        BY <2>1, Scaling
      <3> QED
        BY <3>1
    <2> QED
      BY <2>1
  <1>4. PICK nq \in Nat : nq = n * q
    <2>1. n * q \in Nat
      OBVIOUS
    <2> QED
      BY <2>1
  <1>5. /\ sig \div Normal > 1 <=> sig >= 2 * Normal
        /\ sig \div Normal = 1 <=> Normal <= sig /\ sig < 2 * Normal
    BY <1>1, <1>2, <1>3, <1>4
  <1> QED
    BY <1>5, Zenon DEF TooLong

(* Right() of a number that is 2 ^ r times too long.                       *)
LongBy(sig, r) == Normal * 2 ^ r <= sig /\ sig < 2 * (Normal * 2 ^ r)

LEMMA RightTurns ==
  ASSUME NEW exp \in Int, NEW sig \in Nat, NEW r \in Nat, LongBy(sig, r)
  PROVE  /\ exp + r >= MaxExp => Right(exp, sig)[1] >= MaxExp
         /\ 1 <= exp + r /\ exp + r < MaxExp => Right(exp, sig) = <<exp + r, Squeeze(sig, r)>>
         /\ Normal <= Squeeze(sig, r) /\ Squeeze(sig, r) < 2 * Normal
  <1>1. PICK m \in Nat : m = MaxExp /\ m >= 3
    BY FormatFacts
  <1>2. PICK h \in Nat \ {0} : Normal = 2 * (4 * h)
    BY FormatFacts
  <1>3. PICK n \in 0 .. sig : /\ Right(exp, sig) = <<exp + n, Squeeze(sig, n)>>
                              /\ ~TooLong(exp + n, Squeeze(sig, n))
                              /\ \A k \in 0 .. n - 1 : TooLong(exp + k, Squeeze(sig, k))
    BY RightStops
  <1>4. \A k \in Nat : Squeeze(sig, k) \in Nat
    BY SqueezeBound
  <1>5. ASSUME NEW k \in Nat
        PROVE  /\ k < r => Squeeze(sig, k) >= 2 * Normal
               /\ k >= r => Squeeze(sig, k) < 2 * Normal
    <2>1. 8 * h \in Nat
      OBVIOUS
    <2>2. Squeeze(sig, k) \in Nat /\ (Squeeze(sig, k) < 2 * (8 * h) <=> sig < (2 * (8 * h)) * 2 ^ k)
      BY <2>1, SqueezeBound
    <2>3. PICK p \in Nat \ {0} : p = 2 ^ k
      BY PowerFacts
    <2>4. PICK q \in Nat \ {0} : q = 2 ^ r
      BY PowerFacts
    <2>5. (8 * h) * q <= sig /\ sig < 2 * ((8 * h) * q)
      BY <1>2, <2>4 DEF LongBy
    <2>6. PICK a \in Nat : a = h * q
      <3>1. h * q \in Nat
        OBVIOUS
      <3> QED
        BY <3>1
    <2>7. PICK b \in Nat : b = h * p
      <3>1. h * p \in Nat
        OBVIOUS
      <3> QED
        BY <3>1
    <2>8. 8 * a <= sig /\ sig < 16 * a /\ (2 * (8 * h)) * p = 16 * b
      BY <2>5, <2>6, <2>7
    <2>9. ASSUME k < r PROVE 2 * b <= a
      <3>1. 2 * p <= q
        BY <2>3, <2>4, <2>9, PowerOrder
      <3>2. (2 * p) * h <= q * h
        BY <3>1, Scaling
      <3> QED
        BY <2>6, <2>7, <3>2
    <2>10. ASSUME k >= r PROVE a <= b
      <3>1. q <= p
        BY <2>3, <2>4, <2>10, PowerOrder
      <3>2. q * h <= p * h
        BY <3>1, Scaling
      <3> QED
        BY <2>6, <2>7, <3>2
    <2>11. PICK s \in Nat : s = Squeeze(sig, k)
      BY <2>2
    <2>12. s < 2 * (8 * h) <=> sig < 16 * b
      BY <2>2, <2>3, <2>8, <2>11
    <2>13. Normal = 8 * h
      BY <1>2
    <2>14. k < r => s >= 2 * Normal
      BY <2>8, <2>9, <2>12, <2>13
    <2>15. k >= r => s < 2 * Normal
      BY <2>8, <2>10, <2>12, <2>13
    <2> QED
      BY <2>11, <2>14, <2>15
  <1>6. Squeeze(sig, r) < 2 * Normal
    BY <1>5
  <1>7. Normal <= Squeeze(sig, r)
    <2>1. PICK q \in Nat \ {0} : q = 2 ^ r
      BY PowerFacts
    <2>2. 4 * h \in Nat
      OBVIOUS
    <2>3. Squeeze(sig, r) \in Nat /\ (Squeeze(sig, r) < 2 * (4 * h) <=> sig < (2 * (4 * h)) * 2 ^ r)
      BY <2>2, SqueezeBound
    <2>4. ~(sig < (2 * (4 * h)) * q)
      <3>1. (2 * (4 * h)) * q <= sig
        BY <1>2, <2>1 DEF LongBy
      <3>2. (2 * (4 * h)) * q \in Nat
        OBVIOUS
      <3> QED
        BY <3>1, <3>2
    <2> QED
      BY <1>2, <2>1, <2>3, <2>4
  <1>8. ASSUME NEW k \in Nat
        PROVE  TooLong(exp + k, Squeeze(sig, k)) <=>
                 (k < r /\ exp + k < m) \/ (Squeeze(sig, k) > 4 /\ exp + k < 0)
    <2>1. PICK s \in Nat : s = Squeeze(sig, k)
      BY <1>4
    <2>2. exp + k \in Int
      OBVIOUS
    <2>3. TooLong(exp + k, s) <=> (s >= 2 * Normal /\ exp + k < m) \/ (s > 4 /\ exp + k < 0)
      BY <1>1, <2>2, LongFacts, Zenon
    <2>4. PICK x \in Nat : x = 2 * Normal
      BY <1>2
    <2>5. (k < r => s >= x) /\ (k >= r => s < x)
      BY <1>5, <2>1, <2>4
    <2>6. s >= x <=> k < r
      BY <2>5
    <2> QED
      BY <2>1, <2>3, <2>4, <2>6
  <1>9. n \in Nat
    OBVIOUS
  <1>10. ~(n < r /\ exp + n < m)
    BY <1>3, <1>8, <1>9
  <1>11. ASSUME NEW k \in Nat, k < n
         PROVE  (k < r /\ exp + k < m) \/ exp + k < 0
    <2>1. k \in 0 .. n - 1
      BY <1>9, <1>11
    <2>2. TooLong(exp + k, Squeeze(sig, k))
      BY <1>3, <2>1
    <2> QED
      BY <1>8, <2>2
  <1>12. ASSUME exp + r >= m PROVE exp + n >= m
    BY <1>9, <1>10, <1>12
  <1>13. ASSUME 1 <= exp + r, exp + r < m PROVE n = r
    <2>1. ~(n < r)
      BY <1>9, <1>10, <1>13
    <2>2. ~(r < n)
      <3>1. r < n => (r < r /\ exp + r < m) \/ exp + r < 0
        BY <1>11
      <3> QED
        BY <1>13, <3>1
    <2> QED
      BY <1>9, <2>1, <2>2
  <1>14. exp + r >= MaxExp => Right(exp, sig)[1] >= MaxExp
    BY <1>1, <1>3, <1>12
  <1>15. 1 <= exp + r /\ exp + r < MaxExp => Right(exp, sig) = <<exp + r, Squeeze(sig, r)>>
    BY <1>1, <1>3, <1>13
  <1> QED
    BY <1>6, <1>7, <1>14, <1>15

-----------------------------------------------------------------------------
(* What internal_normalize() makes of a significand, as a rank.            *)
RoundedRank(e, s) == Place(e, s \div 8) + Bit(Up(s))

LEMMA RankedParts ==
  ASSUME NEW sign \in Signs, NEW e \in Nat, NEW f \in 0 .. Hidden - 1
  PROVE  Ranked(sign, e * Hidden + f) = Float(sign, e, f)
  <1>1. Rank(e * Hidden + f) = Float(0, e, f)
    BY RankOfParts DEF Rank
  <1>2. [Float(0, e, f) EXCEPT !.sign = sign] = Float(sign, e, f)
    BY DEF Float
  <1> QED
    BY <1>1, <1>2, Zenon DEF Ranked

LEMMA RoundRanked ==
  ASSUME NEW sign \in Signs, NEW e \in Nat, NEW s \in Nat, Normal <= s, s < 2 * Normal
  PROVE  Float(sign, Round(e, s)[1], Round(e, s)[2]) = Ranked(sign, RoundedRank(e, s))
  <1>1. e \in Int /\ s >= Normal /\ Normal \in Nat
    BY FormatFacts
  <1>2. PICK o \in Int, f \in 0 .. Hidden - 1 :
          o = Round(e, s)[1] /\ f = Round(e, s)[2] /\ o \in {e, e + 1}
    BY <1>1, RoundFacts
  <1>3. o * Hidden + f = RoundedRank(e, s)
    BY <1>1, <1>2, RoundFacts DEF RankOf, RoundedRank
  <1>4. o \in Nat
    BY <1>2
  <1> QED
    BY <1>2, <1>3, <1>4, RankedParts

LEMMA NormalizeRight ==
  ASSUME NEW sign, NEW exp \in Int, NEW sig \in Nat, sig >= 2 * Normal \/ exp < 0,
         NEW e \in Int, NEW s, Right(exp, sig) = <<e, s>>
  PROVE  /\ e >= MaxExp => Normalize(sign, exp, sig) = Float(sign, MaxExp, 0)
         /\ ~(e >= MaxExp) /\ e < 0 => Normalize(sign, exp, sig) = Float(sign, 0, 0)
         /\ ~(e >= MaxExp) /\ ~(e < 0) =>
              Normalize(sign, exp, sig) =
                Float(sign, Round(e, Denormal(e, s))[1], Round(e, Denormal(e, s))[2])
  <1> DEFINE first == IF Right(exp, sig)[1] >= MaxExp THEN <<MaxExp, 0>>
                      ELSE IF Right(exp, sig)[1] < 0 THEN <<0, 0>>
                      ELSE Round(Right(exp, sig)[1], Denormal(Right(exp, sig)[1], Right(exp, sig)[2]))
             second == Round(Left(exp, sig)[1], Denormal(Left(exp, sig)[1], Left(exp, sig)[2]))
             A == sig \div Normal > 1 \/ exp < 0
             B == sig < Normal /\ exp > 0
             C == sig \div Normal = 1 /\ exp = 0
             D == (sig \div Normal = 1 /\ exp > 0) \/ (sig < Normal /\ exp = 0)
             out == CASE A -> first [] B -> second [] C -> Round(1, sig) [] D -> Round(exp, sig)
  <1>1. Normalize(sign, exp, sig) = Float(sign, out[1], out[2])
    BY Zenon DEF Normalize
  <1>2. A /\ ~B /\ ~C /\ ~D
    <2>1. PICK n \in Nat : n = Normal
      BY FormatFacts
    <2> QED
      BY <2>1, LongFacts
  <1>3. out = first
    <2> HIDE DEF A, B, C, D, first, second
    <2> QED
      BY <1>2
  <1>4. first = IF e >= MaxExp THEN <<MaxExp, 0>> ELSE IF e < 0 THEN <<0, 0>>
                ELSE Round(e, Denormal(e, s))
    OBVIOUS
  <1> HIDE DEF out, first
  <1>5. Normalize(sign, exp, sig) = Float(sign, first[1], first[2])
    BY <1>1, <1>3
  <1> QED
    BY <1>4, <1>5

LEMMA NormalizeLeft ==
  ASSUME NEW sign, NEW exp \in Nat \ {0}, NEW sig \in Nat, sig < Normal,
         NEW e \in Int, NEW s, Left(exp, sig) = <<e, s>>
  PROVE  Normalize(sign, exp, sig) =
           Float(sign, Round(e, Denormal(e, s))[1], Round(e, Denormal(e, s))[2])
  <1> DEFINE first == IF Right(exp, sig)[1] >= MaxExp THEN <<MaxExp, 0>>
                      ELSE IF Right(exp, sig)[1] < 0 THEN <<0, 0>>
                      ELSE Round(Right(exp, sig)[1], Denormal(Right(exp, sig)[1], Right(exp, sig)[2]))
             second == Round(Left(exp, sig)[1], Denormal(Left(exp, sig)[1], Left(exp, sig)[2]))
             A == sig \div Normal > 1 \/ exp < 0
             B == sig < Normal /\ exp > 0
             C == sig \div Normal = 1 /\ exp = 0
             D == (sig \div Normal = 1 /\ exp > 0) \/ (sig < Normal /\ exp = 0)
             out == CASE A -> first [] B -> second [] C -> Round(1, sig) [] D -> Round(exp, sig)
  <1>1. Normalize(sign, exp, sig) = Float(sign, out[1], out[2])
    BY Zenon DEF Normalize
  <1>2. ~A /\ B /\ ~C /\ ~D
    <2>1. PICK n \in Nat : n = Normal
      BY FormatFacts
    <2> QED
      BY <2>1, LongFacts
  <1>3. out = second
    <2> HIDE DEF A, B, C, D, first, second
    <2> QED
      BY <1>2
  <1>4. second = Round(e, Denormal(e, s))
    OBVIOUS
  <1> HIDE DEF out, second
  <1> QED
    BY <1>1, <1>3, <1>4

LEMMA NormalizeLong ==
  ASSUME NEW sign \in Signs, NEW exp \in Int, NEW sig \in Nat, NEW r \in Nat, LongBy(sig, r),
         sig >= 2 * Normal
  PROVE  /\ exp + r >= MaxExp => Normalize(sign, exp, sig) = Ranked(sign, MaxExp * Hidden)
         /\ 1 <= exp + r /\ exp + r < MaxExp =>
              Normalize(sign, exp, sig) = Ranked(sign, RoundedRank(exp + r, Squeeze(sig, r)))
  <1>3. ASSUME exp + r >= MaxExp
        PROVE  Normalize(sign, exp, sig) = Ranked(sign, MaxExp * Hidden)
    <2>1. Right(exp, sig)[1] >= MaxExp
      BY <1>3, RightTurns
    <2>2. Normalize(sign, exp, sig) = Float(sign, MaxExp, 0)
      <3>1. PICK n \in 0 .. sig : Right(exp, sig) = <<exp + n, Squeeze(sig, n)>>
        BY RightStops, Zenon
      <3>2. exp + n \in Int /\ exp + n >= MaxExp
        BY <2>1, <3>1
      <3> QED
        BY <3>1, <3>2, NormalizeRight
    <2>3. 0 \in 0 .. Hidden - 1 /\ MaxExp \in Nat /\ MaxExp * Hidden + 0 = MaxExp * Hidden
      <3>1. PICK m \in Nat, h \in Nat \ {0} : m = MaxExp /\ h = Hidden
        BY FormatFacts
      <3>2. m * h + 0 = m * h /\ 0 \in 0 .. h - 1
        OBVIOUS
      <3> QED
        BY <3>1, <3>2
    <2> QED
      BY <2>2, <2>3, RankedParts
  <1>4. ASSUME 1 <= exp + r, exp + r < MaxExp
        PROVE  Normalize(sign, exp, sig) = Ranked(sign, RoundedRank(exp + r, Squeeze(sig, r)))
    <2>1. PICK e \in Nat \ {0} : e = exp + r /\ e < MaxExp
      BY <1>4
    <2>2. PICK s \in Nat : s = Squeeze(sig, r) /\ Normal <= s /\ s < 2 * Normal
      BY SqueezeBound, RightTurns
    <2>3. Right(exp, sig) = <<e, s>>
      BY <1>4, <2>1, <2>2, RightTurns
    <2>4. Denormal(e, s) = s
      BY <2>1 DEF Denormal
    <2>5. ~(e >= MaxExp) /\ ~(e < 0)
      <3>1. PICK m \in Nat : m = MaxExp
        BY FormatFacts
      <3> QED
        BY <2>1, <3>1
    <2>6. Normalize(sign, exp, sig) = Float(sign, Round(e, s)[1], Round(e, s)[2])
      BY <2>3, <2>4, <2>5, NormalizeRight
    <2> QED
      BY <2>1, <2>2, <2>6, RoundRanked
  <1> QED
    BY <1>3, <1>4

LEMMA NormalizeFit ==
  ASSUME NEW sign \in Signs, NEW exp \in Nat, NEW sig \in Nat, Normal <= sig, sig < 2 * Normal
  PROVE  Normalize(sign, exp, sig) = Ranked(sign, RoundedRank(IF exp = 0 THEN 1 ELSE exp, sig))
  <1>1. sig \div Normal = 1 /\ ~(sig \div Normal > 1) /\ ~(sig < Normal) /\ ~(exp < 0)
    <2>1. PICK n \in Nat : n = Normal
      BY FormatFacts
    <2>2. sig \div Normal = 1
      BY LongFacts
    <2> QED
      BY <2>1, <2>2
  <1> DEFINE e == IF exp = 0 THEN 1 ELSE exp
  <1>2. Normalize(sign, exp, sig) = Float(sign, Round(e, sig)[1], Round(e, sig)[2])
    BY <1>1 DEF Normalize
  <1>3. e \in Nat
    OBVIOUS
  <1> HIDE DEF e
  <1>4. Normalize(sign, exp, sig) = Ranked(sign, RoundedRank(e, sig))
    BY <1>2, <1>3, RoundRanked
  <1> QED
    BY <1>4 DEF e

LEMMA NormalizeNothing ==
  ASSUME NEW sign \in Signs, NEW sig \in Nat, sig < Normal
  PROVE  /\ \E f \in 0 .. Hidden - 1 : Normalize(sign, 0, sig) = Ranked(sign, f)
         /\ sig % 8 = 0 => Normalize(sign, 0, sig) = Ranked(sign, sig \div 8)
  <1>1. ~(sig \div Normal = 1) /\ ~(sig \div Normal > 1)
    <2>1. PICK n \in Nat : n = Normal
      BY FormatFacts
    <2> QED
      BY <2>1, LongFacts
  <1>2. Normalize(sign, 0, sig) = Float(sign, Round(0, sig)[1], Round(0, sig)[2])
    BY <1>1 DEF Normalize
  <1>3. sig < 2 * Normal
    BY FormatFacts
  <1>4. PICK f \in 0 .. Hidden - 1 : f = Round(0, sig)[2] /\ Round(0, sig)[1] = 0
    BY <1>3, RoundFacts
  <1>5. Ranked(sign, f) = Float(sign, 0, f)
    <2>1. 0 * Hidden + f = f
      BY FormatFacts
    <2> QED
      BY <2>1, RankedParts
  <1>6. sig % 8 = 0 => f = sig \div 8
    <2>1. sig % 8 = 0 => Round(0, sig) = <<0, sig \div 8>>
      BY <1>3, RoundFacts
    <2> QED
      BY <1>4, <2>1
  <1> QED
    BY <1>2, <1>4, <1>5, <1>6

(* The turns to the left end at a normal number, or one too late at a      *)
(* denormal, which is turned back.                                         *)
LEMMA NormalizeShort ==
  ASSUME NEW sign \in Signs, NEW exp \in Nat \ {0}, NEW sig \in Nat, sig < Normal
  PROVE  \/ \E n \in Nat \ {0} :
              /\ n < exp /\ Normal <= sig * 2 ^ n /\ sig * 2 ^ n < 2 * Normal
              /\ Normalize(sign, exp, sig) = Ranked(sign, RoundedRank(exp - n, sig * 2 ^ n))
         \/ /\ sig * 2 ^ (exp - 1) < Normal
            /\ \E f \in 0 .. Hidden - 1 : Normalize(sign, exp, sig) = Ranked(sign, f)
            /\ (sig * 2 ^ (exp - 1)) % 8 = 0 =>
                 Normalize(sign, exp, sig) = Ranked(sign, (sig * 2 ^ (exp - 1)) \div 8)
  <1>1. exp > 0
    OBVIOUS
  <1>3. PICK n \in 0 .. exp : /\ Left(exp, sig) = <<exp - n, sig * 2 ^ n>>
                              /\ ~TooShort(exp - n, sig * 2 ^ n)
                              /\ \A k \in 0 .. n - 1 : TooShort(exp - k, sig * 2 ^ k)
    BY LeftStops
  <1>4. PICK p \in Nat : p = sig * 2 ^ n
    <2>1. PICK q \in Nat : q = 2 ^ n
      BY PowerFacts
    <2>2. sig * q \in Nat
      OBVIOUS
    <2> QED
      BY <2>1, <2>2
  <1>5. n # 0
    <2>1. ASSUME n = 0 PROVE FALSE
      <3>1. sig * 2 ^ n = sig
        <4>1. 2 ^ n = 1
          BY <2>1, PowerOfZero
        <4> QED
          BY <4>1
      <3>2. exp - n = exp
        BY <2>1
      <3> QED
        BY <1>1, <1>3, <3>1, <3>2 DEF TooShort
    <2> QED
      BY <2>1
  <1>6. PICK j \in Nat : n = j + 1
    <2>1. n - 1 \in Nat /\ n = (n - 1) + 1
      BY <1>5
    <2> QED
      BY <2>1
  <1>7. PICK t \in Nat : t = sig * 2 ^ j /\ p = 2 * t
    <2>1. PICK q \in Nat : q = 2 ^ j /\ 2 ^ n = 2 * q
      BY <1>6, PowerFacts
    <2>2. sig * q \in Nat /\ sig * (2 * q) = 2 * (sig * q)
      OBVIOUS
    <2> QED
      BY <1>4, <2>1, <2>2
  <1>8. t < Normal
    <2>1. j \in 0 .. n - 1
      BY <1>6
    <2> QED
      BY <1>3, <1>7, <2>1 DEF TooShort
  <1>9. CASE n < exp
    <2>1. exp - n \in Nat /\ exp - n # 0 /\ exp - n > 0
      BY <1>9
    <2>2. Normal <= p /\ p < 2 * Normal
      <3>1. ~(p < Normal)
        BY <1>3, <1>4, <2>1 DEF TooShort
      <3> QED
        BY <1>7, <1>8, <3>1, FormatFacts
    <2>3. PICK e \in Nat \ {0} : e = exp - n
      BY <2>1
    <2>4. Denormal(e, p) = p
      BY <2>3 DEF Denormal
    <2>5. Normalize(sign, exp, sig) = Float(sign, Round(e, p)[1], Round(e, p)[2])
      <3>1. Left(exp, sig) = <<e, p>>
        BY <1>3, <1>4, <2>3
      <3> QED
        BY <2>4, <3>1, NormalizeLeft
    <2>6. Normalize(sign, exp, sig) = Ranked(sign, RoundedRank(e, p))
      <3>1. e \in Nat /\ p \in Nat
        OBVIOUS
      <3>2. Float(sign, Round(e, p)[1], Round(e, p)[2]) = Ranked(sign, RoundedRank(e, p))
        BY <2>2, <3>1, RoundRanked
      <3> QED
        BY <2>5, <3>2, Zenon
    <2> QED
      <3>1. n \in Nat \ {0}
        BY <1>5
      <3>2. Normalize(sign, exp, sig) = Ranked(sign, RoundedRank(exp - n, sig * 2 ^ n))
        BY <1>4, <2>3, <2>6, Zenon
      <3>3. Normal <= sig * 2 ^ n /\ sig * 2 ^ n < 2 * Normal
        BY <1>4, <2>2, Zenon
      <3> QED
        BY <1>9, <3>1, <3>2, <3>3, Zenon
  <1>10. CASE n = exp
    <2>1. exp - n = 0 /\ j = exp - 1
      BY <1>6, <1>10
    <2>2. Squeeze(p, 1) = t
      <3>1. 2 ^ 1 = 2
        <4>1. 2 ^ (0 + 1) = 2 * 2 ^ 0
          BY PowerFacts
        <4> QED
          BY <4>1, PowerOfZero
      <3>2. p \div 2 = t /\ p % 2 = 0
        BY <1>7
      <3> QED
        BY <3>1, <3>2 DEF Squeeze
    <2>3. Denormal(0, p) = t
      BY <2>2 DEF Denormal
    <2>4. Normalize(sign, exp, sig) = Float(sign, Round(0, t)[1], Round(0, t)[2])
      <3>1. Left(exp, sig) = <<0, p>>
        BY <1>3, <1>4, <2>1
      <3> QED
        BY <2>3, <3>1, NormalizeLeft
    <2>5. Normalize(sign, 0, t) = Float(sign, Round(0, t)[1], Round(0, t)[2])
      <3>1. ~(t \div Normal = 1) /\ ~(t \div Normal > 1)
        <4>1. PICK m \in Nat : m = Normal
          BY FormatFacts
        <4> QED
          BY <1>8, <4>1, LongFacts
      <3> QED
        BY <1>8, <3>1 DEF Normalize
    <2>6. /\ \E f \in 0 .. Hidden - 1 : Normalize(sign, exp, sig) = Ranked(sign, f)
          /\ t % 8 = 0 => Normalize(sign, exp, sig) = Ranked(sign, t \div 8)
      BY <1>8, <2>4, <2>5, NormalizeNothing
    <2>7. t = sig * 2 ^ (exp - 1)
      BY <1>7, <2>1
    <2> QED
      BY <1>8, <2>6, <2>7
  <1>11. n < exp \/ n = exp
    OBVIOUS
  <1> QED
    BY <1>9, <1>10, <1>11

LEMMA RankedFraction ==
  ASSUME NEW sign \in Signs, NEW f \in 0 .. Hidden - 1
  PROVE  Ranked(sign, f) = Float(sign, 0, f)
  <1>1. 0 * Hidden + f = f /\ 0 \in Nat
    BY FormatFacts
  <1> QED
    BY <1>1, RankedParts

(* What stays below the hidden bit at exponent 0 has a fraction only.      *)
LEMMA NormalizeSmall ==
  ASSUME NEW sign \in Signs, NEW exp \in Int, NEW sig \in Nat, NEW n \in Nat \ {0}, exp = -n,
         sig < (2 * Normal) * 2 ^ n
  PROVE  \E f \in 0 .. Hidden - 1 : Normalize(sign, exp, sig) = Ranked(sign, f)
  <1>1. PICK h \in Nat \ {0} : Normal = 2 * (4 * h) /\ Hidden = h
    BY FormatFacts
  <1>2. PICK m \in Nat : m = MaxExp /\ m >= 3
    BY FormatFacts
  <1>3. PICK k \in 0 .. sig : /\ Right(exp, sig) = <<exp + k, Squeeze(sig, k)>>
                              /\ ~TooLong(exp + k, Squeeze(sig, k))
                              /\ \A j \in 0 .. k - 1 : TooLong(exp + j, Squeeze(sig, j))
    BY RightStops
  <1>4. \A j \in Nat : Squeeze(sig, j) \in Nat
    BY SqueezeBound
  <1>5. Squeeze(sig, n) < 2 * Normal
    <2>1. 8 * h \in Nat /\ Normal = 8 * h
      BY <1>1
    <2> QED
      BY <2>1, SqueezeBound
  <1>6. k <= n
    <2>1. ~TooLong(exp + n, Squeeze(sig, n))
      <3>1. PICK s \in Nat : s = Squeeze(sig, n)
        BY <1>4
      <3>2. exp + n = 0 /\ 0 \in Int
        OBVIOUS
      <3>3. TooLong(0, s) <=> (s >= 2 * Normal /\ 0 < MaxExp) \/ (s > 4 /\ 0 < 0)
        BY <3>2, LongFacts, Zenon
      <3>4. PICK x \in Nat : x = 2 * Normal
        BY <1>1
      <3>5. ~TooLong(0, s)
        BY <1>5, <3>1, <3>3, <3>4
      <3> QED
        BY <3>1, <3>2, <3>5, Zenon
    <2>2. n < k => n \in 0 .. k - 1
      OBVIOUS
    <2>3. ~(n < k)
      BY <1>3, <2>1, <2>2
    <2> QED
      BY <2>3
  <1>7. PICK e \in Int : e = exp + k
    OBVIOUS
  <1>8. PICK s \in Nat : s = Squeeze(sig, k)
    BY <1>4
  <1>9. e <= 0 /\ ~(e >= MaxExp)
    BY <1>2, <1>6, <1>7
  <1>10. sig >= 2 * Normal \/ exp < 0
    OBVIOUS
  <1>11. 0 \in 0 .. Hidden - 1
    BY <1>1
  <1>12. CASE e < 0
    <2>1. Normalize(sign, exp, sig) = Float(sign, 0, 0)
      BY <1>3, <1>7, <1>8, <1>9, <1>10, <1>12, NormalizeRight
    <2> QED
      BY <1>11, <2>1, RankedFraction
  <1>13. CASE e = 0
    <2>1. k = n
      BY <1>7, <1>13
    <2>2. s < Normal * 2 ^ 1
      <3>1. 2 ^ 1 = 2
        <4>1. 2 ^ (0 + 1) = 2 * 2 ^ 0
          BY PowerFacts
        <4> QED
          BY <4>1, PowerOfZero
      <3> QED
        BY <1>1, <1>5, <1>8, <2>1, <3>1
    <2>3. PICK t \in Nat : t = Squeeze(s, 1) /\ t < Normal
      <3>1. 4 * h \in Nat /\ Normal = 2 * (4 * h) /\ 1 \in Nat
        BY <1>1
      <3> QED
        BY <2>2, <3>1, SqueezeBound
    <2>4. Denormal(0, s) = t
      BY <2>3 DEF Denormal
    <2>5. Normalize(sign, exp, sig) = Float(sign, Round(0, t)[1], Round(0, t)[2])
      <3>1. Right(exp, sig) = <<0, s>> /\ ~(0 >= MaxExp) /\ ~(0 < 0) /\ 0 \in Int
        BY <1>3, <1>7, <1>8, <1>9, <1>13
      <3> QED
        BY <1>10, <2>4, <3>1, NormalizeRight
    <2>6. t < 2 * Normal /\ 0 \in Int
      BY <1>1, <2>3
    <2>7. PICK f \in 0 .. Hidden - 1 : f = Round(0, t)[2] /\ Round(0, t)[1] = 0
      BY <2>3, <2>6, RoundFacts
    <2> QED
      BY <2>5, <2>7, RankedFraction
  <1> QED
    BY <1>9, <1>12, <1>13

-----------------------------------------------------------------------------
(* One place more to the right keeps the sticky bit.                       *)
LEMMA SqueezeOnce ==
  ASSUME NEW s \in Nat
  PROVE  Squeeze(s, 1) = IF s % 4 = 1 THEN s \div 2 + 1 ELSE s \div 2
  <1>1. 2 ^ 1 = 2
    <2>1. 2 ^ (0 + 1) = 2 * 2 ^ 0
      BY PowerFacts
    <2> QED
      BY <2>1, PowerOfZero
  <1>2. Squeeze(s, 1) = IF s % 2 # 0 /\ (s \div 2) % 2 = 0 THEN s \div 2 + 1 ELSE s \div 2
    BY <1>1 DEF Squeeze
  <1>3. s % 4 = 1 <=> s % 2 # 0 /\ (s \div 2) % 2 = 0
    OBVIOUS
  <1> QED
    BY <1>2, <1>3

LEMMA NearSqueezed ==
  ASSUME NEW s \in Nat, NEW v \in Nat, NEW u \in Nat \ {0}, Near(s, v, u)
  PROVE  Near(Squeeze(s, 1), v, 2 * u)
  <1>1. PICK m \in Nat, g \in 0 .. 3 : s = 4 * m + g /\ g = s % 4 /\ s \div 2 = 2 * m + (g \div 2) /\ s % 2 = g % 2
    <2>1. s = 4 * (s \div 4) + (s % 4) /\ s \div 4 \in Nat /\ s % 4 \in 0 .. 3
      OBVIOUS
    <2>2. s \div 2 = 2 * (s \div 4) + ((s % 4) \div 2) /\ s % 2 = (s % 4) % 2
      OBVIOUS
    <2> QED
      BY <2>1, <2>2
  <1>2. PICK a \in Nat : a = m * u
    <2>1. m * u \in Nat
      OBVIOUS
    <2> QED
      BY <2>1
  <1> DEFINE t == IF g = 0 THEN 2 * m ELSE 2 * m + 1
  <1>8. Squeeze(s, 1) = t
    <2>1. g \div 2 = IF g >= 2 THEN 1 ELSE 0
      OBVIOUS
    <2>2. s \div 2 = IF g >= 2 THEN 2 * m + 1 ELSE 2 * m
      BY <1>1, <2>1
    <2>3. Squeeze(s, 1) = IF g = 1 THEN s \div 2 + 1 ELSE s \div 2
      BY <1>1, SqueezeOnce
    <2> HIDE <1>1
    <2> QED
      BY <2>2, <2>3
  <1>3. /\ (4 * m) * u = 4 * a /\ (4 * m + 1) * u = 4 * a + u /\ (4 * m + 2) * u = 4 * a + 2 * u
        /\ (4 * m + 3) * u = 4 * a + 3 * u /\ (4 * m + 4) * u = 4 * a + 4 * u
        /\ (2 * m) * (2 * u) = 4 * a /\ (2 * m + 1) * (2 * u) = 4 * a + 2 * u
        /\ (2 * m + 2) * (2 * u) = 4 * a + 4 * u
    BY <1>2
  <1>4. CASE g = 0
    <2>1. s = 4 * m /\ s % 2 = 0
      BY <1>1, <1>4
    <2>2. v = 4 * a
      BY <1>3, <2>1 DEF Near
    <2>3. Squeeze(s, 1) = 2 * m /\ (2 * m) % 2 = 0
      BY <1>4, <1>8
    <2> QED
      BY <1>3, <2>2, <2>3 DEF Near
  <1>5. CASE g = 1
    <2>1. s = 4 * m + 1 /\ s % 2 = 1 /\ s - 1 = 4 * m /\ s + 1 = 4 * m + 2
      BY <1>1, <1>5
    <2>2. 4 * a < v /\ v < 4 * a + 2 * u
      BY <1>3, <2>1 DEF Near
    <2>3. Squeeze(s, 1) = 2 * m + 1
      BY <1>5, <1>8
    <2>4. (2 * m + 1) % 2 = 1 /\ (2 * m + 1) - 1 = 2 * m /\ (2 * m + 1) + 1 = 2 * m + 2
      OBVIOUS
    <2>5. (2 * m) * (2 * u) < v /\ v < (2 * m + 2) * (2 * u)
      BY <1>3, <2>2
    <2> QED
      BY <2>3, <2>4, <2>5 DEF Near
  <1>6. CASE g = 2
    <2>1. s = 4 * m + 2 /\ s % 2 = 0
      BY <1>1, <1>6
    <2>2. v = 4 * a + 2 * u
      BY <1>3, <2>1 DEF Near
    <2>3. Squeeze(s, 1) = 2 * m + 1
      BY <1>6, <1>8
    <2>4. (2 * m + 1) % 2 = 1 /\ (2 * m + 1) - 1 = 2 * m /\ (2 * m + 1) + 1 = 2 * m + 2
      OBVIOUS
    <2>5. (2 * m) * (2 * u) < v /\ v < (2 * m + 2) * (2 * u)
      BY <1>3, <2>2
    <2> QED
      BY <2>3, <2>4, <2>5 DEF Near
  <1>7. CASE g = 3
    <2>1. s = 4 * m + 3 /\ s % 2 = 1 /\ s - 1 = 4 * m + 2 /\ s + 1 = 4 * m + 4
      BY <1>1, <1>7
    <2>2. 4 * a + 2 * u < v /\ v < 4 * a + 4 * u
      BY <1>3, <2>1 DEF Near
    <2>3. Squeeze(s, 1) = 2 * m + 1
      BY <1>7, <1>8
    <2>4. (2 * m + 1) % 2 = 1 /\ (2 * m + 1) - 1 = 2 * m /\ (2 * m + 1) + 1 = 2 * m + 2
      OBVIOUS
    <2>5. (2 * m) * (2 * u) < v /\ v < (2 * m + 2) * (2 * u)
      BY <1>3, <2>2
    <2> QED
      BY <2>3, <2>4, <2>5 DEF Near
  <1> QED
    BY <1>4, <1>5, <1>6, <1>7

LEMMA ExactRounds ==
  ASSUME NEW s \in Nat, NEW v \in Nat, NEW u \in Nat \ {0}, v = s * u
  PROVE  Rounds(s, v, u)
  <1>1. PICK m \in Nat, g \in 0 .. 3 : s = 4 * m + g /\ g = s % 4
    <2>1. s = 4 * (s \div 4) + (s % 4) /\ s \div 4 \in Nat /\ s % 4 \in 0 .. 3
      OBVIOUS
    <2> QED
      BY <2>1
  <1>2. PICK a \in Nat : a = m * u
    <2>1. m * u \in Nat
      OBVIOUS
    <2> QED
      BY <2>1
  <1>3. PICK b \in Nat : b = g * u
    <2>1. g * u \in Nat
      OBVIOUS
    <2> QED
      BY <2>1
  <1>4. v = 4 * a + b
    <2>1. (4 * m + g) * u = 4 * (m * u) + g * u
      OBVIOUS
    <2> QED
      BY <1>1, <1>2, <1>3, <2>1
  <1>5. (s - (s % 4)) * u = 4 * a /\ (s - (s % 4) + 4) * u = 4 * a + 4 * u
    <2>1. s - (s % 4) = 4 * m /\ s - (s % 4) + 4 = 4 * m + 4
      BY <1>1
    <2>2. (4 * m) * u = 4 * (m * u) /\ (4 * m + 4) * u = 4 * (m * u) + 4 * u
      OBVIOUS
    <2> QED
      BY <1>2, <2>1, <2>2
  <1>6. g # 0 => 0 < b /\ b < 4 * u
    <2>1. g \in 1 .. 3 => g * u = u \/ g * u = 2 * u \/ g * u = 3 * u
      OBVIOUS
    <2> QED
      BY <1>3, <2>1
  <1>7. CASE g = 0
    BY <1>1, <1>7 DEF Rounds
  <1>8. CASE g # 0
    <2>1. 4 * a < v /\ v < 4 * a + 4 * u
      BY <1>4, <1>6, <1>8
    <2>2. (s - (s % 4)) * u < v /\ v < (s - (s % 4) + 4) * u
      BY <1>5, <2>1, Zenon
    <2> QED
      BY <1>1, <1>8, <2>2 DEF Rounds
  <1> QED
    BY <1>7, <1>8

-----------------------------------------------------------------------------
(* A sum.  Its significand res stands for n units in the place of the      *)
(* larger exponent, and it is exact where it has to be moved far.          *)
Scaled(exp, e, u) == exp < MaxExp /\ e = (IF exp = 0 THEN 1 ELSE exp) /\ u = 2 ^ (e - 1)
Stands(exp, res, n, e, u) ==
  /\ Scaled(exp, e, u)
  /\ Near(res, 8 * n, u)
  /\ res < 4 * Normal /\ (exp = 0 => res < 2 * Normal)
  /\ (res < Normal => 8 * n = res * u \/ (2 * res >= Normal /\ exp >= 2))

LEMMA NearestOfUnits ==
  ASSUME NEW n \in Nat, NEW e \in Nat \ {0}, NEW s \in Nat, NEW u \in Nat \ {0},
         e < MaxExp, s < 2 * Normal, s >= Normal \/ e = 1, u = 2 ^ (e - 1), Rounds(s, 8 * n, u)
  PROVE  Nearest(n, 1) = RoundedRank(e, s)
  <1>1. 1 * 2 ^ (e - 1) = u /\ 1 \in Nat \ {0}
    OBVIOUS
  <1>2. Rounds(s, 8 * n, 1 * 2 ^ (e - 1))
    BY <1>1, Zenon
  <1> QED
    BY <1>1, <1>2, RoundingIsNearest DEF RoundedRank

LEMMA WeightOfInfinity == W(MaxExp * Hidden) = Hidden * 2 ^ (MaxExp - 1)
  <1>1. PICK m \in Nat, h \in Nat \ {0} : m = MaxExp /\ h = Hidden /\ m >= 3
    BY FormatFacts
  <1>2. 0 \in 0 .. h - 1 /\ m # 0 /\ m * h + 0 = m * h /\ h + 0 = h
    BY <1>1
  <1>3. W(m * h + 0) = (h + 0) * 2 ^ (m - 1)
    BY <1>1, <1>2, WeightOfParts
  <1> QED
    BY <1>1, <1>2, <1>3

LEMMA SumTooLong ==
  ASSUME NEW sign \in Signs, NEW exp \in Nat, NEW res \in Nat, NEW n \in Nat,
         NEW e \in Nat \ {0}, NEW u \in Nat \ {0}, Stands(exp, res, n, e, u), res >= 2 * Normal
  PROVE  Normalize(sign, exp, res) = Ranked(sign, Nearest(n, 1))
  <1>1. PICK h \in Nat \ {0} : Normal = 8 * h /\ Hidden = h
    BY FormatFacts
  <1>2. PICK m \in Nat : m = MaxExp /\ m >= 3
    BY FormatFacts
  <1>3. exp # 0 /\ e = exp /\ exp < m /\ u = 2 ^ (e - 1) /\ res < 4 * Normal /\ Near(res, 8 * n, u)
    <2>1. exp # 0
      <3>1. exp = 0 => res < 2 * Normal
        BY Zenon DEF Stands, Scaled
      <3>2. PICK x \in Nat : x = 2 * Normal
        BY <1>1
      <3> QED
        BY <3>1, <3>2
    <2> QED
      BY <1>2, <2>1, Zenon DEF Stands, Scaled
  <1>8. e = exp /\ exp < m /\ exp # 0
    BY <1>3
  <1>4. 2 ^ e = 2 * u
    <2>1. e - 1 \in Nat /\ (e - 1) + 1 = e
      OBVIOUS
    <2>2. 2 ^ ((e - 1) + 1) = 2 * 2 ^ (e - 1)
      BY <2>1, PowerFacts
    <2> QED
      BY <1>3, <2>1, <2>2
  <1>5. LongBy(res, 1) /\ 1 \in Nat
    <2>1. 2 ^ 1 = 2
      <3>1. 2 ^ (0 + 1) = 2 * 2 ^ 0
        BY PowerFacts
      <3> QED
        BY <3>1, PowerOfZero
    <2> QED
      BY <1>1, <1>3, <2>1 DEF LongBy
  <1>6. CASE exp + 1 >= m
    <2>1. Normalize(sign, exp, res) = Ranked(sign, MaxExp * Hidden)
      BY <1>2, <1>5, <1>6, NormalizeLong
    <2>2. W(MaxExp * Hidden) = h * (2 * u)
      <3>1. e = m - 1 /\ e - 1 = m - 2
        BY <1>2, <1>6, <1>8
      <3> QED
        BY <1>1, <1>2, <1>4, <3>1, WeightOfInfinity
    <2>3. (16 * h) * u <= 8 * n
      <3>1. (16 * h) * u <= res * u
        BY <1>1, Scaling
      <3>2. CASE res % 2 = 0
        BY <1>3, <3>1, <3>2 DEF Near
      <3>3. CASE res % 2 # 0
        <4>1. 16 * h <= res - 1
          BY <1>1, <3>3
        <4>2. (16 * h) * u <= (res - 1) * u
          BY <4>1, Scaling
        <4>3. (res - 1) * u < 8 * n
          BY <1>3, <3>3 DEF Near
        <4>4. (res - 1) * u \in Int /\ (16 * h) * u \in Int
          OBVIOUS
        <4> QED
          BY <4>2, <4>3, <4>4
      <3> QED
        BY <3>2, <3>3
    <2>4. 1 * W(MaxExp * Hidden) <= n
      <3>1. PICK a \in Nat : a = h * u
        <4>1. h * u \in Nat
          OBVIOUS
        <4> QED
          BY <4>1
      <3>2. (16 * h) * u = 16 * a /\ h * (2 * u) = 2 * a
        BY <3>1
      <3> QED
        BY <2>2, <2>3, <3>1, <3>2
    <2>5. Nearest(n, 1) = MaxExp * Hidden
      BY <2>4, NearestInfinity
    <2> QED
      BY <2>1, <2>5
  <1>7. CASE exp + 1 < m
    <2>1. Normalize(sign, exp, res) = Ranked(sign, RoundedRank(exp + 1, Squeeze(res, 1)))
      BY <1>2, <1>5, <1>7, NormalizeLong
    <2>2. PICK s \in Nat : s = Squeeze(res, 1)
      BY SqueezeBound
    <2>3. Normal <= s /\ s < 2 * Normal
      BY <1>5, <2>2, RightTurns
    <2>4. Near(s, 8 * n, 2 * u)
      <3>1. 8 * n \in Nat
        OBVIOUS
      <3>2. Near(Squeeze(res, 1), 8 * n, 2 * u)
        BY <1>3, <3>1, NearSqueezed
      <3> QED
        BY <2>2, <3>2, Zenon
    <2>5. PICK w \in Nat \ {0} : w = 2 * u
      OBVIOUS
    <2>6. Rounds(s, 8 * n, w)
      BY <2>4, <2>5, NearRounds
    <2>7. PICK f \in Nat \ {0} : f = exp + 1 /\ f < MaxExp /\ f - 1 = e
      BY <1>2, <1>7, <1>8
    <2>8. w = 2 ^ (f - 1)
      BY <1>4, <2>5, <2>7
    <2>9. Nearest(n, 1) = RoundedRank(f, s)
      BY <2>3, <2>6, <2>7, <2>8, NearestOfUnits
    <2> QED
      BY <2>1, <2>2, <2>7, <2>9
  <1> QED
    BY <1>6, <1>7

LEMMA SumFits ==
  ASSUME NEW sign \in Signs, NEW exp \in Nat, NEW res \in Nat, NEW n \in Nat,
         NEW e \in Nat \ {0}, NEW u \in Nat \ {0}, Stands(exp, res, n, e, u),
         Normal <= res, res < 2 * Normal
  PROVE  Normalize(sign, exp, res) = Ranked(sign, Nearest(n, 1))
  <1>1. Normalize(sign, exp, res) = Ranked(sign, RoundedRank(IF exp = 0 THEN 1 ELSE exp, res))
    BY NormalizeFit, Zenon
  <1>2. e = (IF exp = 0 THEN 1 ELSE exp) /\ u = 2 ^ (e - 1) /\ Near(res, 8 * n, u) /\ exp < MaxExp
    BY Zenon DEF Stands, Scaled
  <1>3. e < MaxExp
    <2>1. PICK m \in Nat : m = MaxExp /\ m >= 3
      BY FormatFacts
    <2>2. e = (IF exp = 0 THEN 1 ELSE exp) /\ exp < m
      BY <1>2, <2>1
    <2> QED
      BY <2>1, <2>2
  <1>4. Rounds(res, 8 * n, u)
    <2>1. 8 * n \in Nat
      OBVIOUS
    <2> QED
      BY <1>2, <2>1, NearRounds, Zenon
  <1>5. res >= Normal
    BY FormatFacts
  <1>6. Nearest(n, 1) = RoundedRank(e, res)
    BY <1>2, <1>3, <1>4, <1>5, NearestOfUnits
  <1> QED
    BY <1>1, <1>2, <1>6, Zenon

\* at exponent 1 a number below the hidden bit is its own nearest
LEMMA NearestOfFraction ==
  ASSUME NEW n \in Nat, NEW p \in Nat, p = 8 * n, p < Normal
  PROVE  Nearest(n, 1) = n /\ p % 8 = 0 /\ p \div 8 = n
  <1>1. PICK h \in Nat \ {0} : Normal = 8 * h /\ Hidden = h
    BY FormatFacts
  <1>2. PICK m \in Nat : m = MaxExp /\ m >= 3
    BY FormatFacts
  <1>3. p % 8 = 0 /\ p \div 8 = n /\ p < 2 * Normal /\ 1 < MaxExp
    BY <1>1, <1>2
  <1>4. 1 = 2 ^ (1 - 1)
    <2>1. 1 - 1 = 0
      OBVIOUS
    <2> QED
      BY <2>1, PowerOfZero, Zenon
  <1>5. Rounds(p, 8 * n, 1)
    <2>1. 8 * n = p * 1 /\ 8 * n \in Nat /\ 1 \in Nat \ {0}
      OBVIOUS
    <2> QED
      BY <2>1, ExactRounds
  <1>6. Nearest(n, 1) = RoundedRank(1, p)
    <2>1. PICK e \in Nat \ {0} : e = 1
      OBVIOUS
    <2>2. e < MaxExp /\ 1 = 2 ^ (e - 1) /\ 1 \in Nat \ {0} /\ (p >= Normal \/ e = 1)
      BY <1>3, <1>4, <2>1, Zenon
    <2>3. Nearest(n, 1) = RoundedRank(e, p)
      BY <1>3, <1>5, <2>2, NearestOfUnits
    <2> QED
      BY <2>1, <2>3, Zenon
  <1>7. RoundedRank(1, p) = n
    <2>1. Place(1, n) = n
      <3>1. (1 - 1) * h = 0
        OBVIOUS
      <3> QED
        BY <1>1, <3>1 DEF Place
    <2>2. ~Up(p)
      BY <1>3 DEF Up
    <2>3. Bit(Up(p)) = 0
      BY <2>2, Zenon DEF Bit
    <2> QED
      BY <1>3, <2>1, <2>3 DEF RoundedRank
  <1> QED
    BY <1>3, <1>6, <1>7

LEMMA SumShort ==
  ASSUME NEW sign \in Signs, NEW exp \in Nat, NEW res \in Nat, NEW n \in Nat,
         NEW e \in Nat \ {0}, NEW u \in Nat \ {0}, Stands(exp, res, n, e, u), res < Normal
  PROVE  Normalize(sign, exp, res) = Ranked(sign, Nearest(n, 1))
  <1>1. PICK h \in Nat \ {0} : Normal = 8 * h /\ Hidden = h
    BY FormatFacts
  <1>2. PICK m \in Nat : m = MaxExp /\ m >= 3
    BY FormatFacts
  <1>3. /\ e = (IF exp = 0 THEN 1 ELSE exp) /\ u = 2 ^ (e - 1) /\ Near(res, 8 * n, u) /\ exp < MaxExp
        /\ 8 * n = res * u \/ (2 * res >= Normal /\ exp >= 2)
    BY Zenon DEF Stands, Scaled
  <1>4. CASE exp = 0
    <2>1. u = 1
      <3>1. e = 1 /\ 1 - 1 = 0
        BY <1>3, <1>4
      <3> QED
        BY <1>3, <3>1, PowerOfZero, Zenon
    <2>2. res = 8 * n
      BY <1>3, <1>4, <2>1
    <2>3. Nearest(n, 1) = n /\ res % 8 = 0 /\ res \div 8 = n
      BY <2>2, NearestOfFraction
    <2> QED
      BY <1>4, <2>3, NormalizeNothing
  <1>5. CASE exp # 0
    <2>1. e = exp /\ exp \in Nat \ {0} /\ exp < m
      BY <1>2, <1>3, <1>5
    <2>2. CASE \E j \in Nat \ {0} :
                 /\ j < exp /\ Normal <= res * 2 ^ j /\ res * 2 ^ j < 2 * Normal
                 /\ Normalize(sign, exp, res) = Ranked(sign, RoundedRank(exp - j, res * 2 ^ j))
      <3>1. PICK j \in Nat \ {0} :
                 /\ j < exp /\ Normal <= res * 2 ^ j /\ res * 2 ^ j < 2 * Normal
                 /\ Normalize(sign, exp, res) = Ranked(sign, RoundedRank(exp - j, res * 2 ^ j))
        BY <2>2
      <3>2. PICK q \in Nat \ {0} : q = 2 ^ j
        BY PowerFacts
      <3>3. PICK f \in Nat \ {0} : f = exp - j /\ exp = f + j
        <4>1. j < exp
          BY <3>1, Zenon
        <4>2. exp - j \in Nat \ {0} /\ exp = (exp - j) + j
          BY <4>1
        <4> QED
          BY <4>2, Zenon
      <3>4. PICK w \in Nat \ {0} : w = 2 ^ (f - 1)
        BY PowerFacts
      <3>5. u = w * q
        <4>1. f - 1 \in Nat /\ e - 1 = (f - 1) + j
          BY <2>1, <3>3
        <4> QED
          BY <1>3, <3>2, <3>4, <4>1, PowerOfSum
      <3>6. PICK p \in Nat : p = res * q
        <4>1. res * q \in Nat
          OBVIOUS
        <4> QED
          BY <4>1
      <3>7. Rounds(p, 8 * n, w)
        <4>1. CASE 8 * n = res * u
          <5>1. res * (w * q) = (res * q) * w /\ 8 * n \in Nat
            OBVIOUS
          <5>2. 8 * n = p * w
            BY <3>5, <3>6, <4>1, <5>1
          <5> QED
            BY <5>1, <5>2, ExactRounds
        <4>2. CASE 2 * res >= Normal
          <5>1. j = 1
            <6>1. PICK i \in Nat : j = i + 1
              <7>1. j - 1 \in Nat /\ j = (j - 1) + 1
                OBVIOUS
              <7> QED
                BY <7>1
            <6>2. i # 0 => 4 <= q
              <7>1. ASSUME i # 0 PROVE 4 <= q
                <8>1. PICK k \in Nat : i = k + 1
                  <9>1. i - 1 \in Nat /\ i = (i - 1) + 1
                    BY <7>1
                  <9> QED
                    BY <9>1
                <8>2. PICK z \in Nat \ {0} : z = 2 ^ k /\ 2 ^ (k + 1) = 2 * z
                  BY PowerFacts
                <8>3. 2 ^ (i + 1) = 2 * 2 ^ i
                  BY PowerFacts
                <8> QED
                  BY <3>2, <6>1, <8>1, <8>2, <8>3
              <7> QED
                BY <7>1
            <6>3. ASSUME 4 <= q PROVE FALSE
              <7>1. 4 * res <= q * res
                <8>1. res = 0 => 4 * res = 0 /\ q * res = 0
                  OBVIOUS
                <8>2. res # 0 => 4 * res <= q * res
                  BY <6>3, Scaling
                <8> QED
                  BY <8>1, <8>2
              <7>2. q * res = p
                BY <3>6
              <7>3. p < 16 * h /\ 2 * res >= 8 * h
                BY <1>1, <3>1, <3>2, <3>6, <4>2
              <7> QED
                BY <7>1, <7>2, <7>3
            <6> QED
              BY <6>1, <6>2, <6>3
          <5>2. q = 2
            <6>1. 2 ^ (0 + 1) = 2 * 2 ^ 0
              BY PowerFacts
            <6> QED
              BY <3>2, <5>1, <6>1, PowerOfZero
          <5>3. p = 2 * res /\ u = 2 * w /\ 8 * n \in Nat
            BY <3>5, <3>6, <5>2
          <5>4. Near(res, 8 * n, 2 * w)
            BY <1>3, <5>3, Zenon
          <5> QED
            BY <5>3, <5>4, NearRounds
        <4> QED
          BY <1>3, <4>1, <4>2
      <3>8. Normal <= p /\ p < 2 * Normal
        BY <3>1, <3>2, <3>6, Zenon
      <3>9. f < MaxExp /\ p >= Normal
        BY <1>1, <1>2, <2>1, <3>3, <3>8
      <3>10. Nearest(n, 1) = RoundedRank(f, p)
        BY <3>4, <3>7, <3>8, <3>9, NearestOfUnits
      <3>11. Normalize(sign, exp, res) = Ranked(sign, RoundedRank(f, p))
        BY <3>1, <3>2, <3>3, <3>6, Zenon
      <3> QED
        BY <3>10, <3>11, Zenon
    <2>3. CASE /\ res * 2 ^ (exp - 1) < Normal
               /\ (res * 2 ^ (exp - 1)) % 8 = 0 =>
                    Normalize(sign, exp, res) = Ranked(sign, (res * 2 ^ (exp - 1)) \div 8)
      <3>1. res * u < Normal
            /\ ((res * u) % 8 = 0 => Normalize(sign, exp, res) = Ranked(sign, (res * u) \div 8))
        BY <1>3, <2>1, <2>3, Zenon
      <3>2. PICK p \in Nat : p = res * u
        <4>1. res * u \in Nat
          OBVIOUS
        <4> QED
          BY <4>1
      <3>3. ASSUME 2 * res >= Normal, exp >= 2 PROVE FALSE
        <4>1. u >= 2
          <5>1. PICK i \in Nat : e - 1 = i + 1
            <6>1. e - 2 \in Nat /\ e - 1 = (e - 2) + 1
              BY <2>1, <3>3
            <6> QED
              BY <6>1
          <5>2. 2 ^ (i + 1) = 2 * 2 ^ i /\ 2 ^ i \in Nat \ {0}
            BY PowerFacts
          <5>3. u = 2 ^ (i + 1)
            BY <1>3, <5>1, Zenon
          <5> QED
            BY <5>2, <5>3
        <4>2. 2 * res <= u * res
          <5>1. res # 0
            BY <1>1, <3>3
          <5> QED
            BY <4>1, <5>1, Scaling
        <4>3. u * res = p
          BY <3>2
        <4> QED
          BY <1>1, <3>1, <3>2, <3>3, <4>2, <4>3
      <3>4. p = 8 * n
        BY <1>3, <3>2, <3>3
      <3>5. Nearest(n, 1) = n /\ p % 8 = 0 /\ p \div 8 = n
        BY <3>1, <3>2, <3>4, NearestOfFraction
      <3> QED
        BY <3>1, <3>2, <3>5
    <2> QED
      BY <2>1, <2>2, <2>3, NormalizeShort
  <1> QED
    BY <1>4, <1>5

LEMMA SumIsNearest ==
  ASSUME NEW sign \in Signs, NEW exp \in Nat, NEW res \in Nat, NEW n \in Nat,
         NEW e \in Nat \ {0}, NEW u \in Nat \ {0}, Stands(exp, res, n, e, u)
  PROVE  Normalize(sign, exp, res) = Ranked(sign, Nearest(n, 1))
  <1>1. PICK x \in Nat : Normal = x
    BY FormatFacts
  <1>2. res < x \/ (x <= res /\ res < 2 * x) \/ res >= 2 * x
    OBVIOUS
  <1>3. res < Normal \/ (Normal <= res /\ res < 2 * Normal) \/ res >= 2 * Normal
    BY <1>1, <1>2, Zenon
  <1>4. res < Normal => Normalize(sign, exp, res) = Ranked(sign, Nearest(n, 1))
    BY SumShort
  <1>5. Normal <= res /\ res < 2 * Normal => Normalize(sign, exp, res) = Ranked(sign, Nearest(n, 1))
    BY SumFits
  <1>6. res >= 2 * Normal => Normalize(sign, exp, res) = Ranked(sign, Nearest(n, 1))
    BY SumTooLong
  <1> QED
    BY <1>3, <1>4, <1>5, <1>6, Zenon

-----------------------------------------------------------------------------
(* Numbers.                                                                *)
FiniteNonzero == {x \in Numbers : x.exp # MaxExp /\ ~IsZero(x)}

LEMMA NumberFacts ==
  ASSUME NEW x \in FiniteNonzero
  PROVE  /\ x.sign \in {0, 1} /\ x.exp \in 0 .. MaxExp - 1 /\ x.frac \in 0 .. Hidden - 1
         /\ Significand(x) \in 1 .. 2 * Hidden - 1 /\ Scale(x) \in 1 .. MaxExp - 1
         /\ Scale(x) = IF x.exp = 0 THEN 1 ELSE x.exp
         /\ x.exp = 0 => Significand(x) < Hidden
         /\ x.exp # 0 => Significand(x) >= Hidden
         /\ Weight(x) = Significand(x) * 2 ^ (Scale(x) - 1) /\ Weight(x) \in Nat \ {0}
         /\ Units(x) = IF x.sign = 1 THEN -Weight(x) ELSE Weight(x)
  <1>1. PICK m \in Nat, h \in Nat \ {0} : m = MaxExp /\ h = Hidden /\ m >= 3
    BY FormatFacts
  <1>2. x.sign \in {0, 1} /\ x.exp \in 0 .. m /\ x.frac \in 0 .. h - 1 /\ x.exp # m /\ ~IsZero(x)
    BY <1>1 DEF FiniteNonzero, Numbers, Signs
  <1>3. PICK e \in 0 .. m - 1, f \in 0 .. h - 1 : e = x.exp /\ f = x.frac /\ (e = 0 => f # 0)
    BY <1>2 DEF IsZero
  <1>4. PICK s \in Nat, c \in Nat : s = Significand(x) /\ c = Scale(x)
          /\ s = (IF e = 0 THEN f ELSE h + f) /\ c = (IF e = 0 THEN 1 ELSE e)
    BY <1>1, <1>3 DEF Significand, Scale
  <1>5. /\ s \in 1 .. 2 * h - 1 /\ c \in 1 .. m - 1
        /\ e = 0 => s < h
        /\ e # 0 => s >= h
    BY <1>1, <1>3, <1>4
  <1>6. Weight(x) = s * 2 ^ (c - 1)
    <2>1. CASE e = 0
      <3>1. c - 1 = 0 /\ s = f
        BY <1>4, <2>1
      <3>2. s * 2 ^ (c - 1) = s
        <4>1. s * 1 = s
          OBVIOUS
        <4> QED
          BY <3>1, <4>1, PowerOfZero, Zenon
      <3> QED
        BY <1>3, <2>1, <3>1, <3>2 DEF Weight
    <2>2. CASE e # 0
      BY <1>1, <1>3, <1>4, <2>2 DEF Weight
    <2> QED
      BY <2>1, <2>2
  <1>7. Weight(x) \in Nat \ {0}
    <2>1. PICK p \in Nat \ {0} : p = 2 ^ (c - 1)
      <3>1. c - 1 \in Nat
        BY <1>5
      <3> QED
        BY <3>1, PowerFacts
    <2>2. 1 * p <= s * p /\ s * p \in Nat
      BY <1>5, Scaling
    <2> QED
      BY <1>6, <2>1, <2>2
  <1>8. Units(x) = IF x.sign = 1 THEN -Weight(x) ELSE Weight(x)
    BY DEF Units
  <1> QED
    BY <1>1, <1>2, <1>3, <1>4, <1>5, <1>6, <1>7, <1>8

-----------------------------------------------------------------------------
(* The smaller number is brought to the place of the larger one.  Only far *)
(* away, where it is small, it loses something.                            *)
Aligns(al, sh, v, w, u, exp) ==
  /\ Near(al, v, u) /\ 8 * w = sh * u
  /\ al < 2 * Normal /\ sh < 2 * Normal /\ sh % 8 = 0 /\ sh # 0
  /\ exp = 0 => al < Normal /\ sh < Normal
  /\ v = al * u \/ (2 * al < Normal /\ sh >= Normal /\ exp >= 2)

LEMMA ShortShift ==
  ASSUME NEW s \in Nat, NEW n \in 0 .. 3
  PROVE  8 * s = Squeeze(8 * s, n) * 2 ^ n
  <1>1. PICK p \in Nat \ {0}, q \in Nat \ {0} : p = 2 ^ n /\ q = 2 ^ (3 - n) /\ q * p = 8
    <2>1. n \in Nat /\ 3 - n \in Nat /\ (3 - n) + n = 3
      OBVIOUS
    <2>2. 2 ^ n \in Nat \ {0} /\ 2 ^ (3 - n) \in Nat \ {0}
      BY <2>1, PowerFacts
    <2>3. 2 ^ 3 = 2 ^ (3 - n) * 2 ^ n
      BY <2>1, PowerOfSum
    <2>4. 2 ^ 3 = 8
      <3>1. 2 ^ (0 + 1) = 2 * 2 ^ 0 /\ 2 ^ (1 + 1) = 2 * 2 ^ 1 /\ 2 ^ (2 + 1) = 2 * 2 ^ 2
        BY PowerFacts
      <3> QED
        BY <3>1, PowerOfZero
    <2> QED
      BY <2>2, <2>3, <2>4, Zenon
  <1>2. PICK k \in Nat : k = q * s
    <2>1. q * s \in Nat
      OBVIOUS
    <2> QED
      BY <2>1
  <1>3. 8 * s = p * k + 0
    <2>1. (q * p) * s = p * (q * s)
      OBVIOUS
    <2>2. p * k \in Nat
      OBVIOUS
    <2> QED
      BY <1>1, <1>2, <2>1, <2>2
  <1>4. (p * k + 0) \div p = k /\ (p * k + 0) % p = 0
    <2>1. 0 \in 0 .. p - 1 /\ k \in Int
      OBVIOUS
    <2> QED
      BY <2>1, DivisionIsUnique
  <1>5. Squeeze(8 * s, n) = k
    <2>1. (8 * s) \div 2 ^ n = k /\ (8 * s) % 2 ^ n = 0
      BY <1>1, <1>3, <1>4, Zenon
    <2> QED
      BY <2>1, Zenon DEF Squeeze
  <1>6. k * p = p * k + 0
    OBVIOUS
  <1> QED
    BY <1>1, <1>3, <1>5, <1>6, Zenon

LEMMA LongShift ==
  ASSUME NEW s \in Nat, s < 2 * Hidden, NEW n \in Nat, n >= 4
  PROVE  Squeeze(8 * s, n) < Hidden
  <1>1. PICK h \in Nat \ {0}, c \in Nat : Hidden = h /\ h = 2 * c
    BY FormatFacts
  <1>2. PICK p \in Nat \ {0} : p = 2 ^ n /\ p >= 16
    <2>1. 2 ^ 4 = 16
      <3>1. /\ 2 ^ (0 + 1) = 2 * 2 ^ 0 /\ 2 ^ (1 + 1) = 2 * 2 ^ 1 /\ 2 ^ (2 + 1) = 2 * 2 ^ 2
            /\ 2 ^ (3 + 1) = 2 * 2 ^ 3
        BY PowerFacts
      <3> QED
        BY <3>1, PowerOfZero
    <2>2. 2 ^ 4 <= 2 ^ n
      BY PowerOrder
    <2>3. 2 ^ n \in Nat \ {0}
      BY PowerFacts
    <2> QED
      BY <2>1, <2>2, <2>3
  <1>3. 8 * s < (2 * c) * p
    <2>1. 16 * h <= p * h
      BY <1>2, Scaling
    <2>2. (2 * c) * p = p * h
      BY <1>1
    <2>3. p * h \in Nat
      OBVIOUS
    <2> QED
      BY <1>1, <2>1, <2>2, <2>3
  <1>4. Squeeze(8 * s, n) < 2 * c <=> 8 * s < (2 * c) * 2 ^ n
    <2>1. 8 * s \in Nat
      OBVIOUS
    <2> QED
      BY <2>1, SqueezeBound
  <1> QED
    BY <1>1, <1>2, <1>3, <1>4, Zenon

LEMMA Alignment ==
  ASSUME NEW lo \in FiniteNonzero, NEW hi \in FiniteNonzero, lo.exp <= hi.exp,
         NEW n, n = Scale(hi) - Scale(lo), NEW u, u = 2 ^ (Scale(hi) - 1)
  PROVE  /\ n \in Nat /\ u \in Nat \ {0} /\ Squeeze(8 * Significand(lo), n) \in Nat
         /\ Aligns(Squeeze(8 * Significand(lo), n), 8 * Significand(hi), 8 * Weight(lo), Weight(hi),
                   u, hi.exp)
  <1>1. PICK m \in Nat, h \in Nat \ {0} :
          m = MaxExp /\ h = Hidden /\ m >= 3 /\ Normal = 8 * h
    BY FormatFacts
  <1>2. PICK el \in 0 .. m - 1, eh \in 0 .. m - 1 : el = lo.exp /\ eh = hi.exp /\ el <= eh
    BY <1>1, NumberFacts
  <1>3. PICK sl \in 1 .. 2 * h - 1, sh \in 1 .. 2 * h - 1 :
          /\ sl = Significand(lo) /\ sh = Significand(hi)
          /\ el = 0 => sl < h
          /\ eh = 0 => sh < h
          /\ eh # 0 => sh >= h
    BY <1>1, <1>2, NumberFacts
  <1>4. PICK cl \in 1 .. m - 1, ch \in 1 .. m - 1 :
          /\ cl = Scale(lo) /\ ch = Scale(hi)
          /\ cl = (IF el = 0 THEN 1 ELSE el) /\ ch = (IF eh = 0 THEN 1 ELSE eh)
    BY <1>1, <1>2, NumberFacts
  <1>5. n \in Nat /\ n = ch - cl /\ ch - 1 = (cl - 1) + n /\ cl - 1 \in Nat /\ ch - 1 \in Nat
    BY <1>2, <1>4
  <1>6. PICK p \in Nat \ {0}, q \in Nat \ {0} :
          p = 2 ^ (cl - 1) /\ q = 2 ^ n /\ u = p * q
    <2>1. 2 ^ (cl - 1) \in Nat \ {0} /\ 2 ^ n \in Nat \ {0}
      BY <1>5, PowerFacts
    <2>2. 2 ^ ((cl - 1) + n) = 2 ^ (cl - 1) * 2 ^ n
      BY <1>5, PowerOfSum
    <2> QED
      BY <1>4, <1>5, <2>1, <2>2, Zenon
  <1>7. u \in Nat \ {0}
    <2>1. 1 * q <= p * q /\ p * q \in Int
      BY Scaling
    <2> QED
      BY <1>6, <2>1
  <1>8. PICK al \in Nat : al = Squeeze(8 * sl, n)
    <2>1. 8 * sl \in Nat
      OBVIOUS
    <2> QED
      BY <1>5, <2>1, SqueezeBound
  <1>9. PICK v \in Nat : v = 8 * Weight(lo) /\ v = (8 * sl) * p
    <2>1. Weight(lo) = sl * p
      BY <1>3, <1>4, <1>6, NumberFacts, Zenon
    <2>2. (8 * sl) * p = 8 * (sl * p) /\ 8 * (sl * p) \in Nat
      OBVIOUS
    <2> QED
      BY <2>1, <2>2
  <1>10. 8 * Weight(hi) = (8 * sh) * u
    <2>1. Weight(hi) = sh * u
      BY <1>3, <1>4, NumberFacts, Zenon
    <2>2. (8 * sh) * u = 8 * (sh * u)
      BY <1>7
    <2> QED
      BY <2>1, <2>2
  <1>11. Near(al, v, u)
    <2>1. 8 * sl \in Nat
      OBVIOUS
    <2>2. Near(Squeeze(8 * sl, n), v, p * 2 ^ n)
      BY <1>5, <1>9, <2>1, SqueezeKeeps
    <2> QED
      BY <1>6, <1>8, <2>2, Zenon
  <1>12. al < 2 * Normal
    <2>1. 8 * sl < (2 * (8 * h)) * q
      <3>1. 1 <= q
        OBVIOUS
      <3>2. 1 * (16 * h) <= q * (16 * h)
        BY <3>1, Scaling
      <3>3. q * (16 * h) = (2 * (8 * h)) * q /\ q * (16 * h) \in Nat
        OBVIOUS
      <3> QED
        BY <3>2, <3>3
    <2>2. 8 * sl \in Nat /\ 8 * h \in Nat
      OBVIOUS
    <2>3. Squeeze(8 * sl, n) < 2 * (8 * h) <=> 8 * sl < (2 * (8 * h)) * 2 ^ n
      BY <1>5, <2>2, SqueezeBound
    <2> QED
      BY <1>1, <1>6, <1>8, <2>1, <2>3, Zenon
  <1>13. n <= 3 => 8 * sl = al * q
    <2>1. n <= 3 => n \in 0 .. 3
      BY <1>5
    <2>2. sl \in Nat
      OBVIOUS
    <2>3. n \in 0 .. 3 => 8 * sl = Squeeze(8 * sl, n) * 2 ^ n
      BY <2>2, ShortShift
    <2> QED
      BY <1>6, <1>8, <2>1, <2>3, Zenon
  <1>14. v = al * u \/ (2 * al < Normal /\ 8 * sh >= Normal /\ eh >= 2)
    <2>1. CASE n <= 3
      <3>1. (al * q) * p = al * (p * q)
        OBVIOUS
      <3> QED
        BY <1>6, <1>9, <1>13, <2>1, <3>1, Zenon
    <2>2. CASE n >= 4
      <3>1. eh >= 2 /\ eh # 0
        BY <1>4, <1>5, <2>2
      <3>2. 8 * sh >= Normal
        BY <1>1, <1>3, <3>1
      <3>3. al < h
        <4>1. sl \in Nat /\ sl < 2 * h
          BY <1>1
        <4>2. sl < 2 * Hidden
          BY <1>1, <4>1, Zenon
        <4>3. Squeeze(8 * sl, n) < Hidden
          BY <1>5, <2>2, <4>1, <4>2, LongShift
        <4> QED
          BY <1>1, <1>8, <4>3, Zenon
      <3> QED
        BY <1>1, <3>1, <3>2, <3>3
    <2> QED
      BY <1>5, <2>1, <2>2
  <1>15. eh = 0 => al < Normal /\ 8 * sh < Normal
    <2>1. ASSUME eh = 0 PROVE al < Normal /\ 8 * sh < Normal
      <3>1. n = 0 /\ n <= 3 /\ sl < h /\ sh < h
        BY <1>2, <1>3, <1>4, <1>5, <2>1
      <3>2. q = 1
        BY <1>6, <3>1, PowerOfZero, Zenon
      <3>3. 8 * sl = al
        BY <1>13, <3>1, <3>2
      <3> QED
        BY <1>1, <3>1, <3>3
    <2> QED
      BY <2>1
  <1>16. (8 * sh) % 8 = 0 /\ 8 * sh # 0 /\ 8 * sh < 2 * Normal
    BY <1>1
  <1>17. Aligns(al, 8 * sh, v, Weight(hi), u, eh)
    BY <1>10, <1>11, <1>12, <1>14, <1>15, <1>16, Zenon DEF Aligns
  <1> QED
    BY <1>2, <1>3, <1>5, <1>7, <1>8, <1>9, <1>17, Zenon

LEMMA SignsAgree ==
  ASSUME NEW al \in Nat, NEW sh \in Nat, NEW vl \in Nat, NEW w \in Nat, NEW u \in Nat \ {0},
         NEW exp \in Nat, NEW e \in Nat \ {0}, Scaled(exp, e, u), Aligns(al, sh, 8 * vl, w, u, exp)
  PROVE  Stands(exp, sh + al, w + vl, e, u)
  <1>1. PICK h \in Nat \ {0} : Normal = 8 * h
    BY FormatFacts
  <1>2. /\ Near(al, 8 * vl, u) /\ 8 * w = sh * u
        /\ al < 2 * Normal /\ sh < 2 * Normal /\ sh % 8 = 0 /\ sh # 0
        /\ exp = 0 => al < Normal /\ sh < Normal
        /\ 8 * vl = al * u \/ (2 * al < Normal /\ sh >= Normal /\ exp >= 2)
    BY Zenon DEF Aligns
  <1>3. al < 16 * h /\ sh < 16 * h /\ (exp = 0 => al < 8 * h /\ sh < 8 * h) /\ sh % 2 = 0
    BY <1>1, <1>2
  <1>4. PICK a \in Nat, b \in Nat, v \in Nat : a = al * u /\ b = sh * u /\ v = 8 * vl /\ 8 * w = b
    <2>1. al * u \in Nat /\ sh * u \in Nat /\ 8 * vl \in Nat
      OBVIOUS
    <2> QED
      BY <1>2, <2>1, Zenon
  <1>5. 8 * (w + vl) = b + v
    BY <1>4
  <1>6. Near(sh + al, 8 * (w + vl), u)
    <2>1. CASE al % 2 = 0
      <3>1. v = a
        BY <1>2, <1>4, <2>1, Zenon DEF Near
      <3>2. (sh + al) * u = b + a /\ (sh + al) % 2 = 0
        <4>1. (sh + al) * u = sh * u + al * u
          OBVIOUS
        <4>2. (sh + al) % 2 = 0
          BY <1>3, <2>1
        <4> QED
          BY <1>4, <4>1, <4>2
      <3> QED
        BY <1>5, <3>1, <3>2 DEF Near
    <2>2. CASE al % 2 # 0
      <3>1. (al - 1) * u < v /\ v < (al + 1) * u
        BY <1>2, <1>4, <2>2, Zenon DEF Near
      <3>2. a - u < v /\ v < a + u
        <4>1. (al - 1) * u = al * u - u /\ (al + 1) * u = al * u + u
          OBVIOUS
        <4> QED
          BY <1>4, <3>1, <4>1
      <3>3. ((sh + al) - 1) * u = b + a - u /\ ((sh + al) + 1) * u = b + a + u
        <4>1. ((sh + al) - 1) * u = sh * u + al * u - u /\ ((sh + al) + 1) * u = sh * u + al * u + u
          OBVIOUS
        <4> QED
          BY <1>4, <4>1
      <3>4. (sh + al) % 2 # 0
        BY <1>3, <2>2
      <3>5. ((sh + al) - 1) * u < 8 * (w + vl) /\ 8 * (w + vl) < ((sh + al) + 1) * u
        BY <1>5, <3>2, <3>3
      <3> QED
        BY <3>4, <3>5, Zenon DEF Near
    <2> QED
      BY <2>1, <2>2
  <1>7. sh + al < 4 * Normal /\ (exp = 0 => sh + al < 2 * Normal)
    BY <1>1, <1>3
  <1>8. sh + al < Normal => 8 * (w + vl) = (sh + al) * u
    <2>1. CASE v = a
      <3>1. (sh + al) * u = sh * u + al * u
        OBVIOUS
      <3> QED
        BY <1>4, <1>5, <2>1, <3>1
    <2>2. CASE sh >= Normal
      BY <1>1, <2>2
    <2> QED
      BY <1>2, <1>4, <2>1, <2>2, Zenon
  <1> QED
    BY <1>6, <1>7, <1>8, Zenon DEF Stands

Subtracts(al, sh, vl, w, exp, e, u) ==
  /\ al <= sh => vl <= w /\ Stands(exp, sh - al, w - vl, e, u)
  /\ al < sh => vl < w
  /\ al > sh => vl > w /\ Stands(exp, al - sh, vl - w, e, u)

LEMMA SignsDiffer ==
  ASSUME NEW al \in Nat, NEW sh \in Nat, NEW vl \in Nat, NEW w \in Nat, NEW u \in Nat \ {0},
         NEW exp \in Nat, NEW e \in Nat \ {0}, Scaled(exp, e, u), Aligns(al, sh, 8 * vl, w, u, exp)
  PROVE  Subtracts(al, sh, vl, w, exp, e, u)
  <1>1. PICK h \in Nat \ {0} : Normal = 8 * h
    BY FormatFacts
  <1>2. /\ Near(al, 8 * vl, u) /\ 8 * w = sh * u
        /\ al < 2 * Normal /\ sh < 2 * Normal /\ sh % 8 = 0 /\ sh # 0
        /\ exp = 0 => al < Normal /\ sh < Normal
        /\ 8 * vl = al * u \/ (2 * al < Normal /\ sh >= Normal /\ exp >= 2)
    BY Zenon DEF Aligns
  <1>3. al < 16 * h /\ sh < 16 * h /\ (exp = 0 => al < 8 * h /\ sh < 8 * h) /\ sh % 2 = 0
    BY <1>1, <1>2
  <1>4. PICK a \in Nat, b \in Nat, v \in Nat : a = al * u /\ b = sh * u /\ v = 8 * vl /\ 8 * w = b
    <2>1. al * u \in Nat /\ sh * u \in Nat /\ 8 * vl \in Nat
      OBVIOUS
    <2> QED
      BY <1>2, <2>1, Zenon
  <1>5. v = a \/ (2 * al < 8 * h /\ sh >= 8 * h /\ exp >= 2)
    BY <1>1, <1>2, <1>4
  <1>6. /\ al % 2 = 0 => v = a
        /\ al % 2 # 0 => a - u < v /\ v < a + u
    <2>1. al % 2 = 0 => v = a
      BY <1>2, <1>4, Zenon DEF Near
    <2>2. ASSUME al % 2 # 0 PROVE a - u < v /\ v < a + u
      <3>1. (al - 1) * u < v /\ v < (al + 1) * u
        BY <1>2, <1>4, <2>2, Zenon DEF Near
      <3>2. (al - 1) * u = al * u - u /\ (al + 1) * u = al * u + u
        OBVIOUS
      <3> QED
        BY <1>4, <3>1, <3>2
    <2> QED
      BY <2>1, <2>2
  <1>7. ASSUME al < sh PROVE v < b
    <2>1. al + 1 <= sh
      BY <1>7
    <2>2. (al + 1) * u <= sh * u
      BY <2>1, Scaling
    <2>3. (al + 1) * u = al * u + u
      OBVIOUS
    <2> QED
      BY <1>4, <1>6, <2>2, <2>3
  <1>8. ASSUME al <= sh PROVE v <= b
    <2>1. CASE al < sh
      BY <1>7, <2>1
    <2>2. CASE al = sh
      <3>1. a = b /\ v = a
        BY <1>3, <1>4, <1>6, <2>2
      <3> QED
        BY <3>1
    <2> QED
      BY <1>8, <2>1, <2>2
  <1>9. ASSUME al > sh PROVE v = a /\ b < a
    <2>1. sh * u < al * u
      BY <1>9, Scaling
    <2> QED
      BY <1>4, <1>5, <1>9, <2>1
  <1>10. (exp = 0 => v = a) /\ (2 * (sh - al) < 8 * h => v = a \/ al > sh)
    BY <1>5
  <1>11. ASSUME al <= sh PROVE vl <= w /\ Stands(exp, sh - al, w - vl, e, u)
    <2>1. v <= b
      BY <1>8, <1>11
    <2>2. PICK s \in Nat, d \in Nat : s = sh - al /\ d = w - vl /\ 8 * d = b - v
      <3>1. sh - al \in Nat /\ w - vl \in Nat /\ 8 * (w - vl) = b - v
        BY <1>4, <1>11, <2>1
      <3> QED
        BY <3>1, Zenon
    <2>3. s * u = b - a
      <3>1. (sh - al) * u = sh * u - al * u
        OBVIOUS
      <3> QED
        BY <1>4, <2>2, <3>1
    <2>4. s % 2 = al % 2
      BY <1>3, <2>2
    <2>5. Near(s, 8 * d, u)
      <3>1. CASE al % 2 = 0
        <4>1. 8 * d = s * u /\ s % 2 = 0
          BY <1>6, <2>2, <2>3, <2>4, <3>1
        <4> QED
          BY <4>1, Zenon DEF Near
      <3>2. CASE al % 2 # 0
        <4>1. (s - 1) * u = s * u - u /\ (s + 1) * u = s * u + u
          OBVIOUS
        <4>2. (s - 1) * u < 8 * d /\ 8 * d < (s + 1) * u
          BY <1>6, <2>2, <2>3, <3>2, <4>1
        <4>3. s % 2 # 0
          BY <2>4, <3>2
        <4> QED
          BY <4>2, <4>3, Zenon DEF Near
      <3> QED
        BY <3>1, <3>2
    <2>6. s < 4 * Normal /\ (exp = 0 => s < 2 * Normal)
      BY <1>1, <1>3, <2>2
    <2>7. s < Normal => 8 * d = s * u \/ (2 * s >= Normal /\ exp >= 2)
      <3>1. v = a => 8 * d = s * u
        BY <2>2, <2>3
      <3>2. 2 * al < 8 * h /\ sh >= 8 * h => 2 * s >= Normal
        BY <1>1, <2>2
      <3> QED
        BY <1>5, <3>1, <3>2
    <2>8. Stands(exp, s, d, e, u)
      BY <2>5, <2>6, <2>7, Zenon DEF Stands
    <2>9. vl <= w
      BY <1>4, <2>1
    <2> QED
      BY <2>2, <2>8, <2>9, Zenon
  <1>12. ASSUME al > sh PROVE vl > w /\ Stands(exp, al - sh, vl - w, e, u)
    <2>1. v = a /\ b < a
      BY <1>9, <1>12
    <2>2. PICK s \in Nat, d \in Nat : s = al - sh /\ d = vl - w /\ 8 * d = v - b
      <3>1. al - sh \in Nat /\ vl - w \in Nat /\ 8 * (vl - w) = v - b
        BY <1>4, <1>12, <2>1
      <3> QED
        BY <3>1, Zenon
    <2>3. s * u = a - b
      <3>1. (al - sh) * u = al * u - sh * u
        OBVIOUS
      <3> QED
        BY <1>4, <2>2, <3>1
    <2>4. 8 * d = s * u
      BY <2>1, <2>2, <2>3
    <2>5. Near(s, 8 * d, u)
      <3>1. (s - 1) * u = s * u - u /\ (s + 1) * u = s * u + u
        OBVIOUS
      <3>2. PICK z \in Nat : z = s * u
        <4>1. s * u \in Nat
          OBVIOUS
        <4> QED
          BY <4>1
      <3>3. (s - 1) * u < 8 * d /\ 8 * d < (s + 1) * u
        BY <2>4, <3>1, <3>2
      <3> QED
        BY <2>4, <3>3, Zenon DEF Near
    <2>6. s < 4 * Normal /\ (exp = 0 => s < 2 * Normal)
      BY <1>1, <1>3, <2>2
    <2>7. Stands(exp, s, d, e, u)
      BY <2>4, <2>5, <2>6, Zenon DEF Stands
    <2>8. vl > w
      BY <1>4, <2>1
    <2> QED
      BY <2>2, <2>7, <2>8, Zenon
  <1>13. ASSUME al < sh PROVE vl < w
    BY <1>4, <1>7, <1>13
  <1> QED
    BY <1>11, <1>12, <1>13, Zenon DEF Subtracts

-----------------------------------------------------------------------------
(* The signed sum of two significands, and what it is normalized to.       *)
Towards(x, n) == IF x.sign = 1 THEN -n ELSE n
Res(lo, hi) == Towards(lo, Squeeze(8 * Significand(lo), Scale(hi) - Scale(lo)))
               + Towards(hi, 8 * Significand(hi))
Added(lo, hi) == IF Res(lo, hi) < 0 THEN Normalize(1, hi.exp, -Res(lo, hi))
                 ELSE Normalize(0, hi.exp, Res(lo, hi))
NumberOf(n) == IF n = 0 THEN Zero(0) ELSE IF n > 0 THEN Ranked(0, Nearest(n, 1)) ELSE Ranked(1, Nearest(-n, 1))

LEMMA NearestOfNothing == Ranked(0, Nearest(0, 1)) = Zero(0)
  <1>1. PICK h \in Nat \ {0} : Normal = 8 * h /\ Hidden = h
    BY FormatFacts
  <1>2. 0 = 8 * 0 /\ 0 < Normal /\ 0 \in Nat /\ 0 \in 0 .. Hidden - 1
    BY <1>1
  <1>3. Nearest(0, 1) = 0
    BY <1>2, NearestOfFraction
  <1>4. 0 \in Signs
    BY DEF Signs
  <1>5. Ranked(0, 0) = Float(0, 0, 0)
    BY <1>2, <1>4, RankedFraction
  <1> QED
    BY <1>3, <1>5, Zenon DEF Zero

LEMMA AddedIsNearest ==
  ASSUME NEW lo \in FiniteNonzero, NEW hi \in FiniteNonzero, lo.exp <= hi.exp
  PROVE  /\ Added(lo, hi) = NumberOf(Units(lo) + Units(hi))
         /\ Units(lo) + Units(hi) = 0 => lo.sign # hi.sign
  <1>1. PICK m \in Nat : m = MaxExp /\ m >= 3
    BY FormatFacts
  <1>2. PICK exp \in Nat : exp = hi.exp /\ exp < MaxExp
    BY <1>1, NumberFacts
  <1>3. PICK e \in Nat \ {0} : e = Scale(hi) /\ e = (IF exp = 0 THEN 1 ELSE exp)
    BY <1>1, <1>2, NumberFacts
  <1>4. PICK u \in Nat \ {0} : u = 2 ^ (e - 1)
    <2>1. e - 1 \in Nat
      OBVIOUS
    <2> QED
      BY <2>1, PowerFacts
  <1>5. Scaled(exp, e, u)
    BY <1>2, <1>3, <1>4, Zenon DEF Scaled
  <1>6. PICK sh \in Nat : sh = 8 * Significand(hi) /\ sh # 0
    <2>1. PICK h \in Nat : h = Hidden
      BY FormatFacts
    <2>2. Significand(hi) \in 1 .. 2 * h - 1
      BY <2>1, NumberFacts
    <2> QED
      BY <2>2
  <1>7. PICK vl \in Nat \ {0}, w \in Nat \ {0} : vl = Weight(lo) /\ w = Weight(hi)
    BY NumberFacts
  <1>8. PICK al \in Nat : al = Squeeze(8 * Significand(lo), Scale(hi) - Scale(lo))
                          /\ Aligns(al, sh, 8 * vl, w, u, exp)
    <2>1. u = 2 ^ (Scale(hi) - 1)
      BY <1>3, <1>4, Zenon
    <2>2. /\ Squeeze(8 * Significand(lo), Scale(hi) - Scale(lo)) \in Nat
          /\ Aligns(Squeeze(8 * Significand(lo), Scale(hi) - Scale(lo)), 8 * Significand(hi),
                    8 * Weight(lo), Weight(hi), u, hi.exp)
      BY <2>1, Alignment
    <2> QED
      BY <1>2, <1>6, <1>7, <2>2, Zenon
  <1>9. Res(lo, hi) = (IF lo.sign = 1 THEN -al ELSE al) + (IF hi.sign = 1 THEN -sh ELSE sh)
    BY <1>6, <1>8, Zenon DEF Res, Towards
  <1>10. Units(lo) = (IF lo.sign = 1 THEN -vl ELSE vl) /\ Units(hi) = (IF hi.sign = 1 THEN -w ELSE w)
    BY <1>7, NumberFacts, Zenon
  <1>11. lo.sign \in {0, 1} /\ hi.sign \in {0, 1} /\ 0 \in Signs /\ 1 \in Signs
    BY NumberFacts DEF Signs
  <1>12. ASSUME NEW sign \in Signs, NEW s \in Nat, NEW n \in Nat, Stands(exp, s, n, e, u)
         PROVE  Normalize(sign, hi.exp, s) = Ranked(sign, Nearest(n, 1))
    <2>1. Normalize(sign, exp, s) = Ranked(sign, Nearest(n, 1))
      BY <1>12, SumIsNearest
    <2> QED
      BY <1>2, <2>1, Zenon
  <1> DEFINE n == Units(lo) + Units(hi)
             r == Res(lo, hi)
  <1>13. CASE lo.sign = hi.sign
    <2>1. PICK s \in Nat \ {0}, t \in Nat \ {0} : s = sh + al /\ t = w + vl
      <3>1. sh + al \in Nat \ {0} /\ w + vl \in Nat \ {0}
        BY <1>6
      <3> QED
        BY <3>1, Zenon
    <2>2. Stands(exp, s, t, e, u)
      BY <1>5, <1>8, <2>1, SignsAgree
    <2>3. CASE lo.sign = 1
      <3>1. r = -s /\ n = -t
        BY <1>9, <1>10, <1>13, <2>1, <2>3
      <3>2. r < 0 /\ -r = s /\ n # 0 /\ ~(n > 0) /\ -n = t
        BY <3>1
      <3>3. Normalize(1, hi.exp, s) = Ranked(1, Nearest(t, 1))
        BY <1>11, <1>12, <2>2
      <3> HIDE DEF n, r
      <3>4. Added(lo, hi) = NumberOf(n)
        BY <3>2, <3>3, Zenon DEF Added, NumberOf, r
      <3> QED
        BY <3>2, <3>4 DEF n
    <2>4. CASE lo.sign = 0
      <3>1. r = s /\ n = t
        BY <1>9, <1>10, <1>13, <2>1, <2>4
      <3>2. ~(r < 0) /\ r = s /\ n # 0 /\ n > 0 /\ n = t
        BY <3>1
      <3>3. Normalize(0, hi.exp, s) = Ranked(0, Nearest(t, 1))
        BY <1>11, <1>12, <2>2
      <3> HIDE DEF n, r
      <3>4. Added(lo, hi) = NumberOf(n)
        BY <3>2, <3>3, Zenon DEF Added, NumberOf, r
      <3> QED
        BY <3>2, <3>4 DEF n
    <2> QED
      BY <1>11, <2>3, <2>4
  <1>14. CASE lo.sign # hi.sign
    <2>1. /\ al <= sh => vl <= w /\ Stands(exp, sh - al, w - vl, e, u)
          /\ al < sh => vl < w
          /\ al > sh => vl > w /\ Stands(exp, al - sh, vl - w, e, u)
      <3>1. vl \in Nat /\ w \in Nat /\ Aligns(al, sh, 8 * vl, w, u, exp)
        BY <1>8
      <3>2. Subtracts(al, sh, vl, w, exp, e, u)
        BY <1>5, <3>1, SignsDiffer
      <3> QED
        BY <3>2, Zenon DEF Subtracts
    <2>2. \/ r = sh - al /\ n = w - vl
          \/ r = al - sh /\ n = vl - w
      BY <1>9, <1>10, <1>11, <1>14
    <2>3. CASE al = sh
      <3>1. PICK t \in Nat : t = w - vl
        <4>1. vl <= w
          BY <2>1, <2>3
        <4> QED
          BY <4>1
      <3>2. Stands(exp, 0, t, e, u)
        <4>1. sh - al = 0 /\ al <= sh
          BY <2>3
        <4> QED
          BY <2>1, <3>1, <4>1, Zenon
      <3>3. t = 0
        <4>1. Near(0, 8 * t, u)
          BY <3>2, Zenon DEF Stands
        <4>2. 0 * u = 0 /\ 0 % 2 = 0
          OBVIOUS
        <4>3. 8 * t = 0
          BY <4>1, <4>2, Zenon DEF Near
        <4> QED
          BY <4>3
      <3>4. r = 0 /\ ~(r < 0) /\ n = 0
        BY <2>2, <2>3, <3>1, <3>3
      <3>5. Normalize(0, hi.exp, 0) = Zero(0)
        <4>1. 0 \in Nat /\ Stands(exp, 0, 0, e, u)
          BY <3>2, <3>3
        <4>2. Normalize(0, hi.exp, 0) = Ranked(0, Nearest(0, 1))
          BY <1>11, <1>12, <4>1
        <4> QED
          BY <4>2, NearestOfNothing, Zenon
      <3> HIDE DEF n, r
      <3>6. Added(lo, hi) = NumberOf(n)
        BY <3>4, <3>5, Zenon DEF Added, NumberOf, r
      <3> QED
        BY <1>14, <3>6 DEF n
    <2>4. CASE al < sh
      <3>1. PICK s \in Nat \ {0}, t \in Nat \ {0} : s = sh - al /\ t = w - vl
        <4>1. sh - al \in Nat \ {0} /\ w - vl \in Nat \ {0}
          BY <2>1, <2>4
        <4> QED
          BY <4>1, Zenon
      <3>2. Stands(exp, s, t, e, u)
        <4>1. al <= sh
          BY <2>4
        <4> QED
          BY <2>1, <3>1, <4>1, Zenon
      <3>3. \/ r = s /\ n = t
            \/ r = -s /\ n = -t
        BY <2>2, <3>1
      <3>4. \/ ~(r < 0) /\ r = s /\ n # 0 /\ n > 0 /\ n = t
            \/ r < 0 /\ -r = s /\ n # 0 /\ ~(n > 0) /\ -n = t
        BY <3>3
      <3>5. Normalize(0, hi.exp, s) = Ranked(0, Nearest(t, 1)) /\ Normalize(1, hi.exp, s) = Ranked(1, Nearest(t, 1))
        BY <1>11, <1>12, <3>2
      <3> HIDE DEF n, r
      <3>6. Added(lo, hi) = NumberOf(n)
        BY <3>4, <3>5, Zenon DEF Added, NumberOf, r
      <3> QED
        BY <1>14, <3>6 DEF n
    <2>5. CASE al > sh
      <3>1. PICK s \in Nat \ {0}, t \in Nat \ {0} : s = al - sh /\ t = vl - w
        <4>1. al - sh \in Nat \ {0} /\ vl - w \in Nat \ {0}
          BY <2>1, <2>5
        <4> QED
          BY <4>1, Zenon
      <3>2. Stands(exp, s, t, e, u)
        BY <2>1, <2>5, <3>1, Zenon
      <3>3. \/ r = s /\ n = t
            \/ r = -s /\ n = -t
        BY <2>2, <3>1
      <3>4. \/ ~(r < 0) /\ r = s /\ n # 0 /\ n > 0 /\ n = t
            \/ r < 0 /\ -r = s /\ n # 0 /\ ~(n > 0) /\ -n = t
        BY <3>3
      <3>5. Normalize(0, hi.exp, s) = Ranked(0, Nearest(t, 1)) /\ Normalize(1, hi.exp, s) = Ranked(1, Nearest(t, 1))
        BY <1>11, <1>12, <3>2
      <3> HIDE DEF n, r
      <3>6. Added(lo, hi) = NumberOf(n)
        BY <3>4, <3>5, Zenon DEF Added, NumberOf, r
      <3> QED
        BY <1>14, <3>6 DEF n
    <2> QED
      BY <2>3, <2>4, <2>5
  <1> QED
    BY <1>13, <1>14

-----------------------------------------------------------------------------
(* Zeros, infinities and NaNs.                                             *)
LEMMA ZeroFacts ==
  ASSUME NEW x \in Numbers, IsZero(x)
  PROVE  /\ x.sign \in Signs /\ x = Zero(x.sign) /\ x \in Finite /\ x.exp # MaxExp
         /\ ~IsInf(x) /\ ~IsNaN(x) /\ ~IsDefaultNaN(x) /\ Canonical(x) = x
  <1>1. PICK m \in Nat, h \in Nat \ {0} : m = MaxExp /\ h = Hidden /\ m >= 3
    BY FormatFacts
  <1>2. x \in [sign : Signs, exp : 0 .. m, frac : 0 .. h - 1] /\ x.exp = 0 /\ x.frac = 0
    BY <1>1 DEF Numbers, IsZero
  <1>3. x = Zero(x.sign)
    BY <1>2 DEF Zero, Float
  <1>4. x \in Finite
    BY <1>1, <1>2 DEF Finite
  <1>5. ~IsInf(x) /\ ~IsNaN(x) /\ x.exp # MaxExp
    BY <1>1, <1>2 DEF IsInf, IsNaN
  <1>6. ~IsDefaultNaN(x)
    <2>1. NaN(0).exp = MaxExp /\ NaN(1).exp = MaxExp
      BY DEF NaN, Float
    <2> QED
      BY <1>5, <2>1 DEF IsDefaultNaN
  <1> QED
    BY <1>2, <1>3, <1>4, <1>5, <1>6 DEF Canonical

LEMMA FiniteFacts ==
  ASSUME NEW x \in FiniteNonzero
  PROVE  /\ x.sign \in Signs /\ x \in Finite /\ x.exp # MaxExp /\ x \in Numbers
         /\ ~IsZero(x) /\ ~IsInf(x) /\ ~IsNaN(x) /\ ~IsDefaultNaN(x) /\ Canonical(x) = x
  <1>1. PICK m \in Nat, h \in Nat \ {0} : m = MaxExp /\ h = Hidden /\ m >= 3
    BY FormatFacts
  <1>2. x \in [sign : Signs, exp : 0 .. m, frac : 0 .. h - 1] /\ x.exp # m /\ ~IsZero(x) /\ x \in Numbers
    BY <1>1 DEF Numbers, FiniteNonzero
  <1>3. x \in Finite
    BY <1>1, <1>2 DEF Finite
  <1>4. ~IsInf(x) /\ ~IsNaN(x)
    BY <1>1, <1>2 DEF IsInf, IsNaN
  <1>5. ~IsDefaultNaN(x)
    <2>1. NaN(0).exp = MaxExp /\ NaN(1).exp = MaxExp
      BY DEF NaN, Float
    <2> QED
      BY <1>1, <1>2, <2>1 DEF IsDefaultNaN
  <1> QED
    BY <1>1, <1>2, <1>3, <1>4, <1>5 DEF Canonical

LEMMA InfFacts ==
  ASSUME NEW x \in Numbers, IsInf(x)
  PROVE  /\ x.sign \in Signs /\ x = Inf(x.sign) /\ x \notin Finite /\ x.exp = MaxExp
         /\ x \in Infinities
         /\ ~IsZero(x) /\ ~IsNaN(x) /\ ~IsDefaultNaN(x) /\ Canonical(x) = x
  <1>1. PICK m \in Nat, h \in Nat \ {0} : m = MaxExp /\ h = Hidden /\ m >= 3 /\ h \div 2 # 0
    BY FormatFacts
  <1>2. x \in [sign : Signs, exp : 0 .. m, frac : 0 .. h - 1] /\ x.exp = m /\ x.frac = 0
    BY <1>1 DEF Numbers, IsInf
  <1>3. x = Inf(x.sign)
    BY <1>1, <1>2 DEF Inf, Float
  <1>4. x \notin Finite
    BY <1>1, <1>2 DEF Finite
  <1>5. ~IsZero(x) /\ ~IsNaN(x)
    BY <1>1, <1>2 DEF IsZero, IsNaN
  <1>6. ~IsDefaultNaN(x)
    <2>1. NaN(0).frac = h \div 2 /\ NaN(1).frac = h \div 2
      BY <1>1 DEF NaN, Float
    <2> QED
      BY <1>1, <1>2, <2>1 DEF IsDefaultNaN
  <1>7. x \in Infinities
    BY <1>2, <1>3 DEF Infinities
  <1> QED
    BY <1>1, <1>2, <1>3, <1>4, <1>5, <1>6, <1>7 DEF Canonical

LEMMA NaNFacts ==
  ASSUME NEW x, IsDefaultNaN(x)
  PROVE  /\ x \in Numbers /\ x.sign \in Signs /\ x = NaN(x.sign) /\ x \notin Finite /\ x.exp = MaxExp
         /\ ~IsZero(x) /\ ~IsInf(x) /\ IsNaN(x) /\ Canonical(x) = NaN(1) /\ IsNaN(NaN(1))
  <1>1. PICK m \in Nat, h \in Nat \ {0} :
          m = MaxExp /\ h = Hidden /\ m >= 3 /\ h \div 2 # 0 /\ h \div 2 \in 0 .. h - 1
    BY FormatFacts
  <1>2. PICK s \in Signs : x = NaN(s)
    BY DEF IsDefaultNaN, Signs
  <1>3. x = [sign |-> s, exp |-> m, frac |-> h \div 2]
    BY <1>1, <1>2 DEF NaN, Float
  <1>4. x.sign = s /\ x.exp = m /\ x.frac = h \div 2
    BY <1>3
  <1>5. IsNaN(x) /\ ~IsInf(x) /\ ~IsZero(x)
    BY <1>1, <1>4 DEF IsNaN, IsInf, IsZero
  <1>6. x \notin Finite
    BY <1>1, <1>4 DEF Finite
  <1>7. x \in Numbers
    <2>1. x \in [sign : Signs, exp : 0 .. m, frac : 0 .. h - 1]
      BY <1>1, <1>3
    <2> QED
      BY <1>1, <2>1 DEF Numbers
  <1>8. IsNaN(NaN(1))
    BY <1>1 DEF IsNaN, NaN, Float
  <1>9. Canonical(x) = NaN(1)
    BY DEF Canonical
  <1> QED
    BY <1>1, <1>2, <1>4, <1>5, <1>6, <1>7, <1>8, <1>9

LEMMA NumberKinds ==
  ASSUME NEW x \in Numbers
  PROVE  IsZero(x) \/ x \in FiniteNonzero \/ IsInf(x) \/ IsDefaultNaN(x)
  <1>1. IsNaN(x) => IsDefaultNaN(x)
    BY DEF Numbers
  <1>2. x.exp = MaxExp => IsInf(x) \/ IsNaN(x)
    BY DEF IsInf, IsNaN
  <1>3. x.exp # MaxExp /\ ~IsZero(x) => x \in FiniteNonzero
    BY Zenon DEF FiniteNonzero
  <1>4. CASE x.exp = MaxExp
    BY <1>1, <1>2, <1>4
  <1>5. CASE x.exp # MaxExp
    BY <1>3, <1>5
  <1> QED
    BY <1>4, <1>5

LEMMA NearestBound ==
  ASSUME NEW n \in Nat, NEW d \in Nat \ {0}
  PROVE  Nearest(n, d) \in 0 .. MaxExp * Hidden
  <1>1. PICK k \in Nat \ {0} : k = MaxExp * Hidden /\ Ranks = 1 .. k
    BY LastRank
  <1> DEFINE T == {i \in Ranks : d * Weight(Rank(i)) <= n}
             below == Cardinality(T)
  <1>2. below \in 0 .. k
    <2>1. IsFiniteSet(1 .. k) /\ Cardinality(1 .. k) = k
      BY FS_Interval
    <2>2. T \subseteq 1 .. k
      BY <1>1
    <2>3. IsFiniteSet(T) /\ Cardinality(T) <= k
      BY <2>1, <2>2, FS_Subset
    <2>4. Cardinality(T) \in Nat
      BY <2>3, FS_CardinalityType
    <2> HIDE DEF T
    <2> QED
      BY <2>3, <2>4
  <1> DEFINE twice == d * (Weight(Rank(below)) + Weight(Rank(below + 1)))
             up == 2 * n > twice \/ (2 * n = twice /\ below % 2 = 1)
  <1>3. Nearest(n, d) = IF below \in Ranks /\ below + 1 \notin Ranks THEN below
                        ELSE IF up THEN below + 1 ELSE below
    BY Zenon DEF Nearest
  <1> HIDE DEF below, up
  <1>4. Nearest(n, d) \in {below, below + 1}
        /\ (Nearest(n, d) = below + 1 /\ below \in Ranks => below + 1 \in Ranks)
    BY <1>2, <1>3
  <1>5. Nearest(n, d) \in 0 .. k
    BY <1>1, <1>2, <1>4
  <1> QED
    BY <1>1, <1>5

LEMMA RankedIsNumber ==
  ASSUME NEW s \in Signs, NEW k \in 0 .. MaxExp * Hidden
  PROVE  /\ Ranked(s, k) \in Numbers /\ ~IsNaN(Ranked(s, k)) /\ Canonical(Ranked(s, k)) = Ranked(s, k)
  <1>1. PICK m \in Nat, h \in Nat \ {0} : m = MaxExp /\ h = Hidden /\ m >= 3
    BY FormatFacts
  <1>2. k \in Nat /\ k <= m * h
    <2>1. PICK mh \in Nat : mh = MaxExp * Hidden
      BY LastRank
    <2> QED
      BY <1>1, <2>1
  <1>3. PICK q \in Nat, r \in 0 .. h - 1 : q = k \div h /\ r = k % h /\ k = h * q + r
    BY <1>1, <1>2, RankParts
  <1>4. q <= m /\ (q = m => r = 0)
    <2>1. ASSUME q > m PROVE FALSE
      <3>1. (m + 1) * h <= q * h
        BY <2>1, Scaling
      <3>2. (m + 1) * h = m * h + h /\ q * h = h * q
        OBVIOUS
      <3>3. m * h \in Nat /\ h * q \in Nat
        OBVIOUS
      <3> QED
        BY <1>2, <1>3, <3>1, <3>2, <3>3
    <2>2. ASSUME q = m PROVE r = 0
      <3>1. h * q = m * h /\ m * h \in Nat
        BY <2>2
      <3> QED
        BY <1>2, <1>3, <3>1
    <2> QED
      BY <2>1, <2>2
  <1>5. Ranked(s, k) = [sign |-> s, exp |-> q, frac |-> r]
    <2>1. Rank(k) = [sign |-> 0, exp |-> q, frac |-> r]
      BY <1>1, <1>3 DEF Rank, Float
    <2> QED
      BY <2>1 DEF Ranked
  <1>6. ~IsNaN(Ranked(s, k))
    BY <1>1, <1>4, <1>5 DEF IsNaN
  <1>7. Ranked(s, k) \in Numbers
    <2>1. Ranked(s, k) \in [sign : Signs, exp : 0 .. m, frac : 0 .. h - 1]
      BY <1>4, <1>5
    <2> QED
      BY <1>1, <1>6, <2>1 DEF Numbers
  <1>8. Canonical(Ranked(s, k)) = Ranked(s, k)
    <2>1. ~IsDefaultNaN(Ranked(s, k))
      BY <1>6, NaNFacts
    <2> QED
      BY <2>1 DEF Canonical
  <1> QED
    BY <1>6, <1>7, <1>8

LEMMA ConstantsAreNumbers ==
  ASSUME NEW s \in Signs
  PROVE  /\ Zero(s) \in Numbers /\ IsZero(Zero(s)) /\ Canonical(Zero(s)) = Zero(s)
         /\ Inf(s) \in Numbers /\ IsInf(Inf(s)) /\ Canonical(Inf(s)) = Inf(s)
         /\ NaN(s) \in Numbers /\ IsDefaultNaN(NaN(s)) /\ Canonical(NaN(s)) = NaN(1)
  <1>1. PICK m \in Nat, h \in Nat \ {0} : m = MaxExp /\ h = Hidden /\ m >= 3 /\ h - 1 >= 0
    BY FormatFacts
  <1>2. IsZero(Zero(s)) /\ IsInf(Inf(s))
    BY DEF IsZero, Zero, IsInf, Inf, Float
  <1>3. IsDefaultNaN(NaN(s))
    BY DEF IsDefaultNaN, Signs
  <1>4. Zero(s) \in Numbers /\ Inf(s) \in Numbers
    <2>1. /\ Zero(s) \in [sign : Signs, exp : 0 .. m, frac : 0 .. h - 1]
          /\ Inf(s) \in [sign : Signs, exp : 0 .. m, frac : 0 .. h - 1]
      BY <1>1 DEF Zero, Inf, Float
    <2>2. ~IsNaN(Zero(s)) /\ ~IsNaN(Inf(s))
      BY <1>1 DEF Zero, Inf, Float, IsNaN
    <2> QED
      BY <1>1, <2>1, <2>2 DEF Numbers
  <1> QED
    BY <1>2, <1>3, <1>4, ZeroFacts, InfFacts, NaNFacts

-----------------------------------------------------------------------------
(* fpu_add() and fpu_sub().                                                *)
AddedBy(lo, hi, shift) ==
  LET res == Towards(lo, Squeeze(8 * Significand(lo), shift)) + Towards(hi, 8 * Significand(hi))
  IN  IF res < 0 THEN Normalize(1, hi.exp, -res) ELSE Normalize(0, hi.exp, res)

LEMMA FloatAddOfFinite ==
  ASSUME NEW a \in FiniteNonzero, NEW b \in FiniteNonzero
  PROVE  FloatAdd(b, a) = IF a.exp > b.exp THEN Added(b, a) ELSE Added(a, b)
  <1> DEFINE lo == IF a.exp > b.exp THEN b ELSE a
             hi == IF a.exp > b.exp THEN a ELSE b
             shift == hi.exp - lo.exp - (IF lo.exp = 0 /\ hi.exp # 0 THEN 1 ELSE 0)
             sig(x, n) == IF x.sign = 1 THEN -n ELSE n
             res == sig(lo, Squeeze(8 * Significand(lo), shift)) + sig(hi, 8 * Significand(hi))
             sum == IF res < 0 THEN Normalize(1, hi.exp, -res) ELSE Normalize(0, hi.exp, res)
  <1>1. /\ ~(IsZero(a) /\ IsZero(b)) /\ ~(IsInf(a) /\ IsInf(b) /\ a.sign # b.sign)
        /\ ~(IsInf(a) /\ IsDefaultNaN(b)) /\ ~(a = NaN(1) /\ b = NaN(0))
        /\ ~IsZero(a) /\ ~IsZero(b) /\ a.exp # MaxExp /\ b.exp # MaxExp
    BY FiniteFacts, Zenon DEF IsDefaultNaN
  <1>2. FloatAdd(b, a) = sum
    BY <1>1, Zenon DEF FloatAdd
  <1>3. sum = AddedBy(lo, hi, shift)
    BY Zenon DEF AddedBy, Towards
  <1> HIDE DEF sum, sig, res
  <1>4. shift = Scale(hi) - Scale(lo)
    <2>1. PICK m \in Nat : m = MaxExp /\ m >= 3
      BY FormatFacts
    <2>2. PICK ea \in 0 .. m, eb \in 0 .. m : ea = a.exp /\ eb = b.exp
      BY <2>1, NumberFacts
    <2>3. /\ Scale(a) = (IF ea = 0 THEN 1 ELSE ea) /\ Scale(b) = (IF eb = 0 THEN 1 ELSE eb)
      BY <2>2 DEF Scale
    <2> QED
      BY <2>2, <2>3
  <1>5. AddedBy(lo, hi, Scale(hi) - Scale(lo)) = Added(lo, hi)
    BY Zenon DEF AddedBy, Added, Res
  <1>6. FloatAdd(b, a) = Added(lo, hi)
    <2> HIDE DEF lo, hi, shift
    <2> QED
      BY <1>2, <1>3, <1>4, <1>5, Zenon
  <1>7. a.exp > b.exp => lo = b /\ hi = a
    OBVIOUS
  <1>8. ~(a.exp > b.exp) => lo = a /\ hi = b
    OBVIOUS
  <1> HIDE DEF lo, hi
  <1> QED
    BY <1>6, <1>7, <1>8, Zenon

Answers(z, S) == z \in Numbers /\ Canonical(z) \in S

LEMMA SumCases ==
  ASSUME NEW x, NEW y
  PROVE  /\ IsNaN(x) /\ x \notin Finite /\ ~IsInf(x) => Sum(x, y) = {NaN(1)}
         /\ IsNaN(y) /\ y \notin Finite /\ ~IsInf(y) /\ y # x => Sum(x, y) = {NaN(1)}
         /\ IsInf(x) /\ IsInf(y) /\ x \notin Finite /\ y \notin Finite /\ y = Opposite(x) /\ y # x
              => Sum(x, y) = {NaN(1)}
         /\ ~IsNaN(x) /\ ~IsNaN(y) /\ IsInf(x) /\ x \notin Finite /\ y = x /\ y # Opposite(x)
              => Sum(x, y) = {x}
         /\ ~IsNaN(x) /\ ~IsNaN(y) /\ IsInf(x) /\ x \notin Finite /\ y \in Finite /\ ~IsInf(y) /\ y # Opposite(x)
              => Sum(x, y) = {x}
         /\ ~IsNaN(x) /\ ~IsNaN(y) /\ ~IsInf(x) /\ x \in Finite /\ IsInf(y) /\ y \notin Finite
              => Sum(x, y) = {y}
         /\ ~IsNaN(x) /\ ~IsNaN(y) /\ ~IsInf(x) /\ ~IsInf(y) /\ x \in Finite /\ y \in Finite
              => Sum(x, y) =
                   IF Units(x) + Units(y) = 0 THEN {Zero(IF x.sign = y.sign THEN x.sign ELSE 0)}
                   ELSE {NumberOf(Units(x) + Units(y))}
  <1> DEFINE NaNs == IsNaN(x) \/ IsNaN(y) \/ (IsInf(x) /\ y = Opposite(x))
             First == IsInf(x) /\ y \in Finite \cup {x}
             Second == x \in Finite /\ IsInf(y)
             Both == x \in Finite /\ y \in Finite
             n == Units(x) + Units(y)
             exact == IF n = 0 THEN {Zero(IF x.sign = y.sign THEN x.sign ELSE 0)}
                      ELSE IF n > 0 THEN {Ranked(0, Nearest(n, 1))} ELSE {Ranked(1, Nearest(-n, 1))}
             cases == CASE NaNs -> {NaN(1)} [] First -> {x} [] Second -> {y} [] Both -> exact
  <1>1. Sum(x, y) = cases
    BY Zenon DEF Sum
  <1>2. /\ NaNs /\ ~First /\ ~Second /\ ~Both => Sum(x, y) = {NaN(1)}
        /\ ~NaNs /\ First /\ ~Second /\ ~Both => Sum(x, y) = {x}
        /\ ~NaNs /\ ~First /\ Second /\ ~Both => Sum(x, y) = {y}
        /\ ~NaNs /\ ~First /\ ~Second /\ Both => Sum(x, y) = exact
    <2> HIDE DEF NaNs, First, Second, Both, exact
    <2> QED
      BY <1>1
  <1>3. exact = IF n = 0 THEN {Zero(IF x.sign = y.sign THEN x.sign ELSE 0)} ELSE {NumberOf(n)}
    <2> HIDE DEF n
    <2> QED
      BY DEF NumberOf
  <1> HIDE DEF exact, cases
  <1> QED
    BY <1>2, <1>3

(* A number is the one nearest to its own value.                           *)
LEMMA NumberOfUnits ==
  ASSUME NEW x \in FiniteNonzero
  PROVE  NumberOf(Units(x)) = x /\ Units(x) # 0
  <1>1. PICK m \in Nat, h \in Nat \ {0} : m = MaxExp /\ h = Hidden /\ m >= 3 /\ Normal = 8 * h
    BY FormatFacts
  <1>2. PICK f \in 0 .. h - 1, k \in 0 .. m - 1 : f = x.frac /\ k = x.exp
    BY <1>1, NumberFacts
  <1>3. PICK s \in 1 .. 2 * h - 1, e \in 1 .. m - 1 :
          /\ s = Significand(x) /\ e = Scale(x) /\ e = (IF k = 0 THEN 1 ELSE k)
          /\ s = (IF k = 0 THEN f ELSE h + f)
    <2>1. Significand(x) = (IF k = 0 THEN f ELSE h + f)
      BY <1>1, <1>2 DEF Significand
    <2> QED
      BY <1>1, <1>2, <2>1, NumberFacts
  <1>4. PICK n \in Nat \ {0} : n = Weight(x)
    BY NumberFacts
  <1>5. PICK u \in Nat \ {0} : u = 2 ^ (e - 1)
    <2>1. e - 1 \in Nat
      BY <1>3
    <2> QED
      BY <2>1, PowerFacts
  <1>6. Rounds(8 * s, 8 * n, u)
    <2>1. n = s * u
      BY <1>3, <1>4, <1>5, NumberFacts, Zenon
    <2>2. (8 * s) * u = 8 * (s * u) /\ 8 * s \in Nat /\ 8 * n \in Nat
      OBVIOUS
    <2>3. 8 * n = (8 * s) * u
      BY <2>1, <2>2
    <2> QED
      BY <2>2, <2>3, ExactRounds
  <1>7. Nearest(n, 1) = RoundedRank(e, 8 * s)
    <2>1. 8 * s \in Nat /\ e \in Nat \ {0} /\ n \in Nat
      BY <1>3
    <2>2. 8 * s < 2 * Normal /\ e < MaxExp /\ (8 * s >= Normal \/ e = 1)
      BY <1>1, <1>3
    <2> QED
      BY <1>5, <1>6, <2>1, <2>2, NearestOfUnits
  <1>8. RoundedRank(e, 8 * s) = k * Hidden + f
    <2>1. (8 * s) \div 8 = s /\ (8 * s) % 8 = 0
      BY <1>3
    <2>2. ~Up(8 * s)
      BY <2>1 DEF Up
    <2>3. Bit(Up(8 * s)) = 0
      BY <2>2, Zenon DEF Bit
    <2>4. (e - 1) * h + s = k * h + f
      <3>1. CASE k = 0
        BY <1>3, <3>1
      <3>2. CASE k # 0
        <4>1. e = k /\ s = h + f
          BY <1>3, <3>2
        <4>2. (k - 1) * h + (h + f) = k * h + f
          OBVIOUS
        <4> QED
          BY <4>1, <4>2
      <3> QED
        BY <3>1, <3>2
    <2>5. Place(e, s) = k * h + f
      BY <1>1, <2>4, Zenon DEF Place
    <2>6. k * h + f \in Nat
      OBVIOUS
    <2> QED
      BY <1>1, <2>1, <2>3, <2>5, <2>6 DEF RoundedRank
  <1>9. x.sign \in {0, 1} /\ x.sign \in Signs
    BY FiniteFacts DEF Signs
  <1>10. Ranked(x.sign, Nearest(n, 1)) = x
    <2>1. k \in Nat /\ f \in 0 .. Hidden - 1
      BY <1>1
    <2>2. Ranked(x.sign, k * Hidden + f) = Float(x.sign, k, f)
      BY <1>9, <2>1, RankedParts
    <2>3. x \in [sign : Signs, exp : 0 .. MaxExp, frac : 0 .. Hidden - 1]
      BY DEF FiniteNonzero, Numbers
    <2>4. x = Float(x.sign, k, f)
      BY <1>2, <2>3 DEF Float
    <2> QED
      BY <1>7, <1>8, <2>2, <2>4, Zenon
  <1>11. Units(x) = IF x.sign = 1 THEN -n ELSE n
    BY <1>4, NumberFacts, Zenon
  <1>12. CASE x.sign = 1
    <2>1. Units(x) = -n /\ -n # 0 /\ ~(-n > 0) /\ -(-n) = n
      BY <1>11, <1>12
    <2>2. NumberOf(-n) = Ranked(1, Nearest(n, 1))
      BY <2>1, Zenon DEF NumberOf
    <2> QED
      BY <1>10, <1>12, <2>1, <2>2, Zenon
  <1>13. CASE x.sign = 0
    <2>1. Units(x) = n /\ n # 0 /\ n > 0
      BY <1>11, <1>13
    <2>2. NumberOf(n) = Ranked(0, Nearest(n, 1))
      BY <2>1, Zenon DEF NumberOf
    <2> QED
      BY <1>10, <1>13, <2>1, <2>2, Zenon
  <1> QED
    BY <1>9, <1>12, <1>13

LEMMA NumberOfAnswers ==
  ASSUME NEW n \in Int
  PROVE  NumberOf(n) \in Numbers /\ Canonical(NumberOf(n)) = NumberOf(n)
  <1>1. 0 \in Signs /\ 1 \in Signs /\ 1 \in Nat \ {0}
    BY DEF Signs
  <1>2. CASE n = 0
    BY <1>1, <1>2, ConstantsAreNumbers, Zenon DEF NumberOf
  <1>3. CASE n > 0
    <2>1. n \in Nat /\ n # 0
      BY <1>3
    <2>2. NumberOf(n) = Ranked(0, Nearest(n, 1))
      BY <1>3, <2>1, Zenon DEF NumberOf
    <2> QED
      BY <1>1, <2>1, <2>2, NearestBound, RankedIsNumber, Zenon
  <1>4. CASE n < 0
    <2>1. -n \in Nat /\ n # 0 /\ ~(n > 0)
      BY <1>4
    <2>2. NumberOf(n) = Ranked(1, Nearest(-n, 1))
      BY <2>1, Zenon DEF NumberOf
    <2> QED
      BY <1>1, <2>1, <2>2, NearestBound, RankedIsNumber, Zenon
  <1> QED
    BY <1>2, <1>3, <1>4

LEMMA UnitsOfZero ==
  ASSUME NEW x \in Numbers, IsZero(x)
  PROVE  Units(x) = 0
  <1>1. PICK n \in Nat : n = Weight(x) /\ n = 0
    BY DEF IsZero, Weight
  <1>2. -n = 0
    <2>1. \A k \in Int : k <= 0 /\ k >= 0 => -k >= 0 /\ -k <= 0 /\ -k \in Int
      OBVIOUS
    <2>2. n \in Int /\ n <= 0 /\ n >= 0
      BY <1>1
    <2>3. PICK z \in Int : z = -n /\ z >= 0 /\ z <= 0
      BY <2>1, <2>2
    <2> QED
      BY <2>3
  <1> QED
    BY <1>1, <1>2, Zenon DEF Units

LEMMA FloatAddCases ==
  ASSUME NEW a, NEW b
  PROVE  /\ IsZero(a) /\ IsZero(b) /\ ~IsInf(a) /\ a # NaN(1)
              => FloatAdd(b, a) = Zero(IF a.sign = b.sign THEN a.sign ELSE 0)
         /\ ~IsZero(a) /\ IsInf(a) /\ IsInf(b) /\ a.sign # b.sign /\ ~IsDefaultNaN(b) /\ a # NaN(1)
              => FloatAdd(b, a) = NaN(1)
         /\ ~IsZero(a) /\ IsInf(a) /\ ~IsInf(b) /\ IsDefaultNaN(b) /\ a # NaN(1) => FloatAdd(b, a) = b
         /\ ~IsZero(a) /\ ~IsInf(a) /\ a = NaN(1) /\ b = NaN(0) => FloatAdd(b, a) = NaN(0)
         /\ /\ ~(IsZero(a) /\ IsZero(b)) /\ ~(IsInf(a) /\ IsInf(b) /\ a.sign # b.sign)
            /\ ~(IsInf(a) /\ IsDefaultNaN(b)) /\ ~(a = NaN(1) /\ b = NaN(0))
            => /\ IsZero(a) => FloatAdd(b, a) = b
               /\ ~IsZero(a) /\ IsZero(b) => FloatAdd(b, a) = a
               /\ ~IsZero(a) /\ ~IsZero(b) /\ a.exp = MaxExp => FloatAdd(b, a) = a
               /\ ~IsZero(a) /\ ~IsZero(b) /\ a.exp # MaxExp /\ b.exp = MaxExp => FloatAdd(b, a) = b
  <1> DEFINE aa == IsZero(a) /\ IsZero(b)
             bb == IsInf(a) /\ IsInf(b) /\ a.sign # b.sign
             cc == IsInf(a) /\ IsDefaultNaN(b)
             dd == a = NaN(1) /\ b = NaN(0)
             lo == IF a.exp > b.exp THEN b ELSE a
             hi == IF a.exp > b.exp THEN a ELSE b
             shift == hi.exp - lo.exp - (IF lo.exp = 0 /\ hi.exp # 0 THEN 1 ELSE 0)
             sig(x, n) == IF x.sign = 1 THEN -n ELSE n
             res == sig(lo, Squeeze(8 * Significand(lo), shift)) + sig(hi, 8 * Significand(hi))
             sum == IF res < 0 THEN Normalize(1, hi.exp, -res) ELSE Normalize(0, hi.exp, res)
             zero == Zero(IF a.sign = b.sign THEN a.sign ELSE 0)
             rest == IF IsZero(a) THEN b ELSE IF IsZero(b) THEN a ELSE IF a.exp = MaxExp THEN a
                     ELSE IF b.exp = MaxExp THEN b ELSE sum
             cases == CASE aa -> zero [] bb -> NaN(1) [] cc -> b [] dd -> NaN(0) [] OTHER -> rest
  <1>1. FloatAdd(b, a) = cases
    BY Zenon DEF FloatAdd
  <1>2. /\ aa /\ ~bb /\ ~cc /\ ~dd => FloatAdd(b, a) = zero
        /\ ~aa /\ bb /\ ~cc /\ ~dd => FloatAdd(b, a) = NaN(1)
        /\ ~aa /\ ~bb /\ cc /\ ~dd => FloatAdd(b, a) = b
        /\ ~aa /\ ~bb /\ ~cc /\ dd => FloatAdd(b, a) = NaN(0)
        /\ ~aa /\ ~bb /\ ~cc /\ ~dd => FloatAdd(b, a) = rest
    <2> HIDE DEF aa, bb, cc, dd, zero, rest
    <2> QED
      BY <1>1
  <1> HIDE DEF sum, cases
  <1> QED
    BY <1>2, Zenon

LEMMA FloatAddAnswers ==
  ASSUME NEW a \in Numbers, NEW b \in Numbers
  PROVE  Answers(FloatAdd(b, a), Sum(Canonical(a), Canonical(b)))
  <1>1. /\ IsZero(a) \/ a \in FiniteNonzero \/ IsInf(a) \/ IsDefaultNaN(a)
        /\ IsZero(b) \/ b \in FiniteNonzero \/ IsInf(b) \/ IsDefaultNaN(b)
    BY NumberKinds
  <1>2. IsDefaultNaN(NaN(1)) /\ IsDefaultNaN(NaN(0)) /\ 0 \in Signs /\ 1 \in Signs
    BY DEF IsDefaultNaN, Signs
  <1>3. a.sign \in Signs /\ b.sign \in Signs
    BY DEF Numbers
  <1>4. CASE IsDefaultNaN(a)
    <2>1. Sum(Canonical(a), Canonical(b)) = {NaN(1)}
      <3>1. Canonical(a) = NaN(1) /\ IsNaN(NaN(1)) /\ NaN(1) \notin Finite /\ ~IsInf(NaN(1))
        BY <1>2, <1>4, NaNFacts
      <3> QED
        BY <3>1, SumCases
    <2>2. IsDefaultNaN(FloatAdd(b, a))
      <3>1. ~IsZero(a) /\ ~IsInf(a) /\ a.exp = MaxExp
        BY <1>4, NaNFacts
      <3>2. CASE a = NaN(1) /\ b = NaN(0)
        BY <1>2, <3>1, <3>2, FloatAddCases, Zenon
      <3>3. CASE ~(a = NaN(1) /\ b = NaN(0))
        <4>1. IsZero(b) => FloatAdd(b, a) = a
          BY <3>1, <3>3, FloatAddCases, Zenon
        <4>2. ~IsZero(b) => FloatAdd(b, a) = a
          BY <3>1, <3>3, FloatAddCases, Zenon
        <4> QED
          BY <1>4, <4>1, <4>2, Zenon
      <3> QED
        BY <3>2, <3>3
    <2> QED
      BY <2>1, <2>2, NaNFacts DEF Answers
  <1>5. CASE ~IsDefaultNaN(a) /\ IsDefaultNaN(b)
    <2>1. Canonical(a) = a /\ a # NaN(1) /\ ~IsNaN(a)
      BY <1>1, <1>2, <1>5, ZeroFacts, FiniteFacts, InfFacts
    <2>2. Sum(Canonical(a), Canonical(b)) = {NaN(1)}
      <3>1. Canonical(b) = NaN(1) /\ IsNaN(NaN(1)) /\ NaN(1) \notin Finite /\ ~IsInf(NaN(1))
        BY <1>2, <1>5, NaNFacts
      <3> QED
        BY <2>1, <3>1, SumCases
    <2>3. FloatAdd(b, a) = b
      <3>1. ~IsZero(b) /\ ~IsInf(b) /\ b.exp = MaxExp
        BY <1>5, NaNFacts
      <3>2. CASE IsInf(a)
        BY <1>5, <2>1, <3>1, <3>2, InfFacts, FloatAddCases
      <3>3. CASE IsZero(a)
        BY <1>5, <2>1, <3>1, <3>3, ZeroFacts, FloatAddCases
      <3>4. CASE a \in FiniteNonzero
        BY <1>5, <2>1, <3>1, <3>4, FiniteFacts, FloatAddCases
      <3> QED
        BY <1>1, <1>5, <3>2, <3>3, <3>4
    <2> QED
      BY <1>5, <2>2, <2>3, NaNFacts DEF Answers
  <1>6. CASE ~IsDefaultNaN(a) /\ ~IsDefaultNaN(b)
    <2>1. /\ Canonical(a) = a /\ a # NaN(1) /\ ~IsNaN(a)
          /\ Canonical(b) = b /\ b # NaN(0) /\ ~IsNaN(b)
      BY <1>1, <1>2, <1>6, ZeroFacts, FiniteFacts, InfFacts
    <2>2. CASE IsInf(a) /\ IsInf(b)
      <3>1. /\ ~IsZero(a) /\ ~IsZero(b) /\ a.exp = MaxExp /\ a \notin Finite /\ b \notin Finite
            /\ a = Inf(a.sign) /\ b = Inf(b.sign)
        BY <2>2, InfFacts
      <3>2. /\ a.sign # b.sign <=> b = Opposite(a)
            /\ a.sign = b.sign <=> b = a
        <4>1. Opposite(a) = [sign |-> 1 - a.sign, exp |-> MaxExp, frac |-> 0]
          BY <3>1 DEF Opposite, Inf, Float
        <4>2. b = [sign |-> b.sign, exp |-> MaxExp, frac |-> 0] /\ a = [sign |-> a.sign, exp |-> MaxExp, frac |-> 0]
          BY <3>1 DEF Inf, Float
        <4>3. a.sign # b.sign <=> b.sign = 1 - a.sign
          BY <1>3 DEF Signs
        <4> QED
          BY <4>1, <4>2, <4>3
      <3>3. CASE a.sign # b.sign
        <4>1. FloatAdd(b, a) = NaN(1)
          BY <1>6, <2>1, <2>2, <3>1, <3>3, FloatAddCases, Zenon
        <4>2. Sum(a, b) = {NaN(1)}
          BY <2>2, <3>1, <3>2, <3>3, SumCases, Zenon
        <4> QED
          BY <1>2, <2>1, <4>1, <4>2, ConstantsAreNumbers DEF Answers
      <3>4. CASE a.sign = b.sign
        <4>1. FloatAdd(b, a) = a
          BY <1>6, <2>1, <2>2, <3>1, <3>4, FloatAddCases, Zenon
        <4>2. Sum(a, b) = {a}
          BY <2>1, <2>2, <3>1, <3>2, <3>4, SumCases, Zenon
        <4> QED
          BY <2>1, <4>1, <4>2 DEF Answers
      <3> QED
        BY <3>3, <3>4
    <2>3. CASE IsInf(a) /\ ~IsInf(b)
      <3>1. ~IsZero(a) /\ a.exp = MaxExp /\ a \notin Finite /\ b \in Finite
        BY <1>1, <1>6, <2>3, InfFacts, ZeroFacts, FiniteFacts
      <3>2. b # Opposite(a)
        <4>1. IsInf(Opposite(a))
          BY <1>3, <2>3, InfFacts DEF Opposite, IsInf, Inf, Float
        <4> QED
          BY <2>3, <4>1
      <3>3. FloatAdd(b, a) = a
        BY <1>6, <2>1, <2>3, <3>1, FloatAddCases, Zenon
      <3>4. Sum(a, b) = {a}
        BY <2>1, <2>3, <3>1, <3>2, SumCases, Zenon
      <3> QED
        BY <2>1, <3>3, <3>4 DEF Answers
    <2>4. CASE ~IsInf(a) /\ IsInf(b)
      <3>1. ~IsZero(b) /\ b.exp = MaxExp /\ b \notin Finite /\ a \in Finite /\ a.exp # MaxExp
        BY <1>1, <1>6, <2>4, InfFacts, ZeroFacts, FiniteFacts
      <3>2. FloatAdd(b, a) = b
        <4>1. IsZero(a) => FloatAdd(b, a) = b
          BY <1>6, <2>1, <2>4, <3>1, FloatAddCases, Zenon
        <4>2. ~IsZero(a) => FloatAdd(b, a) = b
          BY <1>6, <2>1, <2>4, <3>1, FloatAddCases, Zenon
        <4> QED
          BY <4>1, <4>2
      <3>3. Sum(a, b) = {b}
        BY <2>1, <2>4, <3>1, SumCases, Zenon
      <3> QED
        BY <2>1, <3>2, <3>3 DEF Answers
    <2>5. CASE ~IsInf(a) /\ ~IsInf(b)
      <3>1. /\ a \in Finite /\ b \in Finite
            /\ IsZero(a) \/ a \in FiniteNonzero
            /\ IsZero(b) \/ b \in FiniteNonzero
        BY <1>1, <1>6, <2>5, ZeroFacts, FiniteFacts
      <3> DEFINE n == Units(a) + Units(b)
      <3>2. Sum(a, b) = IF n = 0 THEN {Zero(IF a.sign = b.sign THEN a.sign ELSE 0)} ELSE {NumberOf(n)}
        BY <2>1, <2>5, <3>1, SumCases, Zenon
      <3>3. CASE IsZero(a) /\ IsZero(b)
        <4>1. n = 0
          BY <3>3, UnitsOfZero
        <4>2. FloatAdd(b, a) = Zero(IF a.sign = b.sign THEN a.sign ELSE 0)
          BY <2>1, <2>5, <3>3, FloatAddCases, Zenon
        <4>3. PICK s \in Signs : s = IF a.sign = b.sign THEN a.sign ELSE 0
          BY <1>2, <1>3
        <4> HIDE DEF n
        <4> QED
          BY <2>1, <3>2, <4>1, <4>2, <4>3, ConstantsAreNumbers DEF Answers
      <3>4. CASE IsZero(a) /\ ~IsZero(b)
        <4>1. b \in FiniteNonzero /\ NumberOf(Units(b)) = b /\ Units(b) # 0
          BY <3>1, <3>4, NumberOfUnits
        <4>2. n = Units(b)
          <5>1. Units(a) = 0 /\ Units(b) \in Int
            BY <3>4, <4>1, UnitsOfZero, NumberFacts
          <5> QED
            BY <5>1
        <4>3. FloatAdd(b, a) = b
          BY <1>6, <2>1, <2>5, <3>4, FloatAddCases, Zenon
        <4> HIDE DEF n
        <4> QED
          BY <2>1, <3>2, <4>1, <4>2, <4>3 DEF Answers
      <3>5. CASE ~IsZero(a) /\ IsZero(b)
        <4>1. a \in FiniteNonzero /\ NumberOf(Units(a)) = a /\ Units(a) # 0
          BY <3>1, <3>5, NumberOfUnits
        <4>2. n = Units(a)
          <5>1. Units(b) = 0 /\ Units(a) \in Int
            BY <3>5, <4>1, UnitsOfZero, NumberFacts
          <5> QED
            BY <5>1
        <4>3. FloatAdd(b, a) = a
          BY <1>6, <2>1, <2>5, <3>5, FloatAddCases, Zenon
        <4> HIDE DEF n
        <4> QED
          BY <2>1, <3>2, <4>1, <4>2, <4>3 DEF Answers
      <3>6. CASE ~IsZero(a) /\ ~IsZero(b)
        <4>1. a \in FiniteNonzero /\ b \in FiniteNonzero
          BY <3>1, <3>6
        <4>2. FloatAdd(b, a) = IF a.exp > b.exp THEN Added(b, a) ELSE Added(a, b)
          BY <4>1, FloatAddOfFinite
        <4>3. PICK ua \in Int, ub \in Int : ua = Units(a) /\ ub = Units(b)
          BY <4>1, NumberFacts
        <4>4. FloatAdd(b, a) = NumberOf(n) /\ (n = 0 => a.sign # b.sign)
          <5>1. PICK ea \in Nat, eb \in Nat : ea = a.exp /\ eb = b.exp
            <6>1. PICK m \in Nat : m = MaxExp
              BY FormatFacts
            <6> QED
              BY <4>1, <6>1, NumberFacts
          <5>2. CASE ea > eb
            <6>1. b.exp <= a.exp /\ FloatAdd(b, a) = Added(b, a)
              BY <4>2, <5>1, <5>2
            <6>2. Added(b, a) = NumberOf(Units(b) + Units(a)) /\ (Units(b) + Units(a) = 0 => b.sign # a.sign)
              BY <4>1, <6>1, AddedIsNearest
            <6>3. Units(b) + Units(a) = n
              BY <4>3
            <6> HIDE DEF n
            <6> QED
              BY <6>1, <6>2, <6>3
          <5>3. CASE ~(ea > eb)
            <6>1. a.exp <= b.exp /\ FloatAdd(b, a) = Added(a, b)
              BY <4>2, <5>1, <5>3
            <6> QED
              BY <4>1, <6>1, AddedIsNearest
          <5> QED
            BY <5>2, <5>3
        <4>5. n \in Int
          BY <4>3
        <4> HIDE DEF n
        <4>6. n = 0 => NumberOf(n) = Zero(0)
          BY Zenon DEF NumberOf
        <4>7. FloatAdd(b, a) \in Sum(a, b)
          BY <3>2, <4>4, <4>6
        <4> QED
          BY <2>1, <4>4, <4>5, <4>7, NumberOfAnswers, Zenon DEF Answers
      <3> QED
        BY <3>3, <3>4, <3>5, <3>6
    <2> QED
      BY <2>2, <2>3, <2>4, <2>5
  <1> QED
    BY <1>4, <1>5, <1>6

LEMMA OppositeFacts ==
  ASSUME NEW x \in Numbers, ~IsDefaultNaN(x)
  PROVE  /\ Opposite(x) \in Numbers /\ ~IsDefaultNaN(Opposite(x)) /\ ~IsNaN(x)
         /\ IsZero(x) <=> IsZero(Opposite(x))
         /\ Opposite(x).sign = 1 - x.sign /\ x.sign \in {0, 1}
         /\ Canonical(Opposite(x)) = Opposite(x) /\ Canonical(x) = x
  <1>1. PICK m \in Nat, h \in Nat \ {0} : m = MaxExp /\ h = Hidden /\ m >= 3
    BY FormatFacts
  <1>2. /\ x \in [sign : Signs, exp : 0 .. m, frac : 0 .. h - 1]
        /\ IsNaN(x) => IsDefaultNaN(x)
    BY <1>1 DEF Numbers
  <1>3. PICK s \in {0, 1}, e \in 0 .. m, f \in 0 .. h - 1 :
          x = [sign |-> s, exp |-> e, frac |-> f]
    BY <1>2 DEF Signs
  <1>4. Opposite(x) = [sign |-> 1 - s, exp |-> e, frac |-> f] /\ 1 - s \in {0, 1}
    BY <1>3 DEF Opposite
  <1>5. ~(e = m /\ f # 0)
    BY <1>1, <1>2, <1>3 DEF IsNaN
  <1>6. ~IsNaN(x) /\ ~IsNaN(Opposite(x))
    BY <1>1, <1>3, <1>4, <1>5 DEF IsNaN
  <1>7. Opposite(x) \in Numbers
    <2>1. Opposite(x) \in [sign : Signs, exp : 0 .. m, frac : 0 .. h - 1]
      BY <1>4 DEF Signs
    <2> QED
      BY <1>1, <1>6, <2>1 DEF Numbers
  <1>8. ~IsDefaultNaN(Opposite(x))
    BY <1>6, NaNFacts
  <1>9. IsZero(x) <=> IsZero(Opposite(x))
    BY <1>3, <1>4 DEF IsZero
  <1>10. Opposite(x).sign = 1 - x.sign /\ x.sign \in {0, 1}
    BY <1>3, <1>4
  <1> QED
    BY <1>6, <1>7, <1>8, <1>9, <1>10 DEF Canonical

LEMMA FloatSubCases ==
  ASSUME NEW a, NEW b
  PROVE  /\ IsZero(a) /\ IsZero(b) /\ ~IsDefaultNaN(a)
              => FloatSub(b, a) = Zero(IF a.sign = 1 /\ b.sign = 0 THEN 1 ELSE 0)
         /\ ~IsZero(a) /\ IsDefaultNaN(a) /\ IsDefaultNaN(b) => FloatSub(b, a) \in {NaN(0), NaN(1)}
         /\ ~(IsZero(a) /\ IsZero(b)) /\ ~(IsDefaultNaN(a) /\ IsDefaultNaN(b))
              => /\ IsDefaultNaN(a) => FloatSub(b, a) = a
                 /\ ~IsDefaultNaN(a) /\ IsDefaultNaN(b) => FloatSub(b, a) = b
                 /\ ~IsDefaultNaN(a) /\ ~IsDefaultNaN(b) => FloatSub(b, a) = FloatAdd(Opposite(b), a)
  <1> DEFINE aa == IsZero(a) /\ IsZero(b)
             bb == IsDefaultNaN(a) /\ IsDefaultNaN(b)
             zero == Zero(IF a.sign = 1 /\ b.sign = 0 THEN 1 ELSE 0)
             nan == IF a.sign = 1 /\ b.sign = 1 THEN NaN(1) ELSE NaN(0)
             rest == IF IsDefaultNaN(a) THEN a ELSE IF IsDefaultNaN(b) THEN b
                     ELSE FloatAdd([b EXCEPT !.sign = 1 - b.sign], a)
             cases == CASE aa -> zero [] bb -> nan [] OTHER -> rest
  <1>1. FloatSub(b, a) = cases
    BY Zenon DEF FloatSub
  <1>2. /\ aa /\ ~bb => FloatSub(b, a) = zero
        /\ ~aa /\ bb => FloatSub(b, a) = nan
        /\ ~aa /\ ~bb => FloatSub(b, a) = rest
    <2> HIDE DEF aa, bb, zero, nan, rest
    <2> QED
      BY <1>1
  <1>3. [b EXCEPT !.sign = 1 - b.sign] = Opposite(b)
    BY Zenon DEF Opposite
  <1> HIDE DEF cases
  <1> QED
    BY <1>2, <1>3, Zenon

LEMMA FloatSubAnswers ==
  ASSUME NEW a \in Numbers, NEW b \in Numbers
  PROVE  Answers(FloatSub(b, a), Difference(Canonical(a), Canonical(b)))
  <1>1. /\ IsZero(a) \/ a \in FiniteNonzero \/ IsInf(a) \/ IsDefaultNaN(a)
        /\ IsZero(b) \/ b \in FiniteNonzero \/ IsInf(b) \/ IsDefaultNaN(b)
    BY NumberKinds
  <1>2. IsDefaultNaN(NaN(1)) /\ IsDefaultNaN(NaN(0)) /\ 0 \in Signs /\ 1 \in Signs
    BY DEF IsDefaultNaN, Signs
  <1>3. \A x : IsDefaultNaN(x) => Answers(x, {NaN(1)})
    BY NaNFacts DEF Answers
  <1>4. CASE IsDefaultNaN(b)
    <2>1. Difference(Canonical(a), Canonical(b)) = {NaN(1)}
      BY <1>4, NaNFacts DEF Difference
    <2>2. ~IsZero(b)
      BY <1>4, NaNFacts
    <2>3. IsDefaultNaN(FloatSub(b, a))
      <3>1. CASE IsDefaultNaN(a)
        <4>1. ~IsZero(a)
          BY <3>1, NaNFacts
        <4>2. FloatSub(b, a) \in {NaN(0), NaN(1)}
          BY <1>4, <3>1, <4>1, FloatSubCases, Zenon
        <4> QED
          BY <1>2, <4>2
      <3>2. CASE ~IsDefaultNaN(a)
        BY <1>4, <2>2, <3>2, FloatSubCases, Zenon
      <3> QED
        BY <3>1, <3>2
    <2> QED
      BY <1>3, <2>1, <2>3, Zenon
  <1>5. CASE ~IsDefaultNaN(b)
    <2>1. /\ Opposite(b) \in Numbers /\ Canonical(Opposite(b)) = Opposite(b) /\ Canonical(b) = b
          /\ ~IsNaN(b) /\ (IsZero(b) <=> IsZero(Opposite(b)))
          /\ Opposite(b).sign = 1 - b.sign /\ b.sign \in {0, 1}
      BY <1>5, OppositeFacts
    <2>2. Difference(Canonical(a), Canonical(b)) = Sum(Canonical(a), Opposite(b))
      BY <2>1, Zenon DEF Difference
    <2>3. CASE IsDefaultNaN(a)
      <3>1. FloatSub(b, a) = a
        <4>1. ~IsZero(a)
          BY <2>3, NaNFacts
        <4> QED
          BY <1>5, <2>3, <4>1, FloatSubCases, Zenon
      <3>2. Sum(Canonical(a), Opposite(b)) = {NaN(1)}
        <4>1. Canonical(a) = NaN(1) /\ IsNaN(NaN(1)) /\ NaN(1) \notin Finite /\ ~IsInf(NaN(1))
          BY <1>2, <2>3, NaNFacts
        <4> QED
          BY <4>1, SumCases
      <3> QED
        BY <1>3, <2>2, <2>3, <3>1, <3>2, Zenon
    <2>4. CASE ~IsDefaultNaN(a) /\ IsZero(a) /\ IsZero(b)
      <3>1. FloatSub(b, a) = Zero(IF a.sign = 1 /\ b.sign = 0 THEN 1 ELSE 0)
        BY <2>4, FloatSubCases, Zenon
      <3>2. FloatAdd(Opposite(b), a) = Zero(IF a.sign = 1 - b.sign THEN a.sign ELSE 0)
        <4>1. IsZero(a) /\ IsZero(Opposite(b)) /\ ~IsInf(a) /\ a # NaN(1)
          BY <1>2, <2>1, <2>4, ZeroFacts
        <4>2. FloatAdd(Opposite(b), a) = Zero(IF a.sign = Opposite(b).sign THEN a.sign ELSE 0)
          BY <4>1, FloatAddCases, Zenon
        <4> QED
          BY <2>1, <4>2, Zenon
      <3>3. (IF a.sign = 1 /\ b.sign = 0 THEN 1 ELSE 0) = (IF a.sign = 1 - b.sign THEN a.sign ELSE 0)
        <4>1. a.sign \in {0, 1}
          BY <2>4, ZeroFacts DEF Signs
        <4> QED
          BY <2>1, <4>1
      <3>4. FloatSub(b, a) = FloatAdd(Opposite(b), a)
        BY <3>1, <3>2, <3>3
      <3>5. Answers(FloatAdd(Opposite(b), a), Sum(Canonical(a), Canonical(Opposite(b))))
        BY <2>1, FloatAddAnswers
      <3> QED
        BY <2>1, <2>2, <3>4, <3>5, Zenon
    <2>5. CASE ~IsDefaultNaN(a) /\ ~(IsZero(a) /\ IsZero(b))
      <3>1. FloatSub(b, a) = FloatAdd(Opposite(b), a)
        BY <1>5, <2>5, FloatSubCases, Zenon
      <3>2. Answers(FloatAdd(Opposite(b), a), Sum(Canonical(a), Canonical(Opposite(b))))
        BY <2>1, FloatAddAnswers
      <3> QED
        BY <2>1, <2>2, <3>1, <3>2, Zenon
    <2> QED
      BY <2>3, <2>4, <2>5
  <1> QED
    BY <1>4, <1>5

-----------------------------------------------------------------------------
(* Products and quotients.  n / d is computed as sig and what the division *)
(* leaves over: sig units of t * 2 ^ G eighths, where d is t * 2 ^ D.      *)
Computed(sig, exp, n, d, t, D, G) ==
  /\ d = t * 2 ^ D /\ exp = G + 1 - D
  /\ sig * (t * 2 ^ G) <= 8 * n /\ 8 * n < (sig + 1) * (t * 2 ^ G)

LEMMA RankedAnswers ==
  ASSUME NEW sign \in Signs, NEW n \in Nat, NEW d \in Nat \ {0}, NEW off \in Nat, NEW k \in Nat,
         k <= 2 * Hidden, n < d * Hidden
  PROVE  Answers(Ranked(sign, k), Rounded(sign, n, d, off))
  <1>1. k \in 0 .. 2 * Hidden /\ k \in 0 .. MaxExp * Hidden
    <2>1. PICK m \in Nat, h \in Nat \ {0} : m = MaxExp /\ h = Hidden /\ m >= 3
      BY FormatFacts
    <2>2. 2 * h <= m * h /\ m * h \in Int
      BY <2>1, Scaling
    <2> QED
      BY <2>1, <2>2
  <1>2. Rounded(sign, n, d, off) = {Ranked(sign, j) : j \in 0 .. 2 * Hidden}
    BY Zenon DEF Rounded
  <1>3. Ranked(sign, k) \in Rounded(sign, n, d, off)
    BY <1>1, <1>2, Zenon
  <1> QED
    BY <1>1, <1>3, RankedIsNumber, Zenon DEF Answers

LEMMA NearestAnswers ==
  ASSUME NEW sign \in Signs, NEW n \in Nat, NEW d \in Nat \ {0}, NEW off \in Nat, NEW i \in 0 .. off,
         Nearest(n, d) - i \in Nat, ~(n < d * Hidden)
  PROVE  Answers(Ranked(sign, Nearest(n, d) - i), Rounded(sign, n, d, off))
  <1>1. Nearest(n, d) - i \in 0 .. MaxExp * Hidden
    <2>1. PICK k \in Nat : k = MaxExp * Hidden
      BY LastRank
    <2>2. Nearest(n, d) \in 0 .. k
      BY <2>1, NearestBound
    <2> QED
      BY <2>1, <2>2
  <1>2. Rounded(sign, n, d, off) = {Ranked(sign, Nearest(n, d) - j) : j \in 0 .. off}
    BY Zenon DEF Rounded
  <1>3. Ranked(sign, Nearest(n, d) - i) \in Rounded(sign, n, d, off)
    BY <1>2, Zenon
  <1> QED
    BY <1>1, <1>3, RankedIsNumber, Zenon DEF Answers

LEMMA LongIsRounded ==
  ASSUME NEW sign \in Signs, NEW sig \in Nat, NEW exp \in Int, NEW n \in Nat, NEW d \in Nat \ {0},
         NEW t \in Nat \ {0}, NEW D \in Nat, NEW G \in Nat, Computed(sig, exp, n, d, t, D, G),
         sig >= 2 * Normal
  PROVE  /\ Answers(Normalize(sign, exp, sig), Rounded(sign, n, d, 1))
         /\ 8 * n = sig * (t * 2 ^ G) => Answers(Normalize(sign, exp, sig), Rounded(sign, n, d, 0))
  <1>1. PICK h \in Nat \ {0}, m \in Nat : Normal = 8 * h /\ Hidden = h /\ m = MaxExp /\ m >= 3
    BY FormatFacts
  <1>2. PICK g \in Nat \ {0}, p \in Nat \ {0} : g = 2 ^ G /\ p = 2 ^ D
    BY PowerFacts
  <1>3. PICK c \in Nat \ {0} : c = t * g
    <2>1. 1 * g <= t * g /\ t * g \in Int
      BY Scaling
    <2> QED
      BY <2>1
  <1>4. d = t * p /\ sig * c <= 8 * n /\ 8 * n < (sig + 1) * c
    BY <1>2, <1>3, Zenon DEF Computed
  <1>5. exp = G + 1 - D
    BY Zenon DEF Computed
  <1>6. PICK r \in Nat : LongBy(sig, r)
    <2>1. Normal \in Nat \ {0} /\ sig >= Normal
      BY <1>1
    <2> QED
      BY <2>1, Leading DEF LongBy
  <1>7. PICK q \in Nat \ {0} : q = 2 ^ r
    BY PowerFacts
  <1>8. (8 * h) * q <= sig /\ sig < 2 * ((8 * h) * q)
    BY <1>1, <1>6, <1>7 DEF LongBy
  <1>9. r # 0
    <2>1. ASSUME r = 0 PROVE FALSE
      <3>1. q = 1
        BY <1>7, <2>1, PowerOfZero, Zenon
      <3> QED
        BY <1>1, <1>8, <3>1
    <2> QED
      BY <2>1
  <1>10. PICK x \in Nat : x = h * q
    <2>1. h * q \in Nat
      OBVIOUS
    <2> QED
      BY <2>1
  <1>11. 8 * x <= sig /\ sig < 16 * x
    <2>1. (8 * h) * q = 8 * (h * q)
      OBVIOUS
    <2> QED
      BY <1>8, <1>10, <2>1
  <1>12. PICK y \in Nat : y = q * c
    <2>1. q * c \in Nat
      OBVIOUS
    <2> QED
      BY <2>1
  <1>13. (8 * x) * c <= sig * c /\ (sig + 1) * c <= (16 * x) * c
    <2>1. 8 * x \in Int /\ 16 * x \in Int /\ sig \in Int /\ sig + 1 \in Int /\ sig + 1 <= 16 * x
      BY <1>11
    <2> QED
      BY <1>11, <2>1, Scaling
  <1>14. PICK z \in Nat : z = h * y
    <2>1. h * y \in Nat
      OBVIOUS
    <2> QED
      BY <2>1
  <1>15. 8 * z <= 8 * n /\ 8 * n < 16 * z
    <2>1. (8 * x) * c = 8 * z /\ (16 * x) * c = 16 * z
      <3>1. (h * q) * c = h * (q * c)
        OBVIOUS
      <3>2. x * c = z
        BY <1>10, <1>12, <1>14, <3>1, Zenon
      <3>3. (8 * x) * c = 8 * (x * c) /\ (16 * x) * c = 16 * (x * c)
        OBVIOUS
      <3> QED
        BY <3>2, <3>3, Zenon
    <2>2. sig * c \in Nat /\ (sig + 1) * c \in Nat
      OBVIOUS
    <2> QED
      BY <1>4, <1>13, <2>1, <2>2
  <1>16. CASE exp + r >= 1
    <2>1. PICK e \in Nat \ {0} : e = exp + r
      BY <1>16
    <2>2. PICK u \in Nat \ {0} : u = 2 ^ (e - 1)
      <3>1. e - 1 \in Nat
        OBVIOUS
      <3> QED
        BY <3>1, PowerFacts
    <2>3. g * q = p * u
      <3>1. PICK f \in Nat : f = e - 1 /\ G + r = D + f
        <4>1. e - 1 \in Nat /\ G + r = D + (e - 1)
          BY <1>5, <2>1
        <4> QED
          BY <4>1, Zenon
      <3>2. 2 ^ (G + r) = 2 ^ G * 2 ^ r
        BY PowerOfSum
      <3>3. 2 ^ (D + f) = 2 ^ D * 2 ^ f
        BY <3>1, PowerOfSum
      <3> QED
        BY <1>2, <1>7, <2>2, <3>1, <3>2, <3>3, Zenon
    <2>4. y = d * u
      <3>1. q * (t * g) = t * (g * q) /\ t * (p * u) = (t * p) * u
        OBVIOUS
      <3> QED
        BY <1>3, <1>4, <1>12, <2>3, <3>1, Zenon
    <2>5. PICK w \in Nat : w = d * h
      <3>1. d * h \in Nat
        OBVIOUS
      <3> QED
        BY <3>1
    <2>6. z = u * w
      <3>1. h * (d * u) = u * (d * h)
        OBVIOUS
      <3> QED
        BY <1>14, <2>4, <2>5, <3>1, Zenon
    <2>7. w <= n
      <3>1. w = 0 => w <= n
        OBVIOUS
      <3>2. w # 0 => 1 * w <= u * w
        BY Scaling
      <3> QED
        BY <1>15, <2>6, <3>1, <3>2
    <2>8. ~(n < d * Hidden)
      BY <1>1, <2>5, <2>7
    <2>9. CASE e >= m
      <3>1. Normalize(sign, exp, sig) = Ranked(sign, MaxExp * Hidden)
        <4>1. exp + r >= MaxExp
          BY <1>1, <2>1, <2>9
        <4> QED
          BY <1>6, <4>1, NormalizeLong
      <3>2. Nearest(n, d) = MaxExp * Hidden
        <4>1. PICK v \in Nat \ {0} : v = 2 ^ (m - 1) /\ v <= u
          <5>1. m - 1 \in Nat /\ e - 1 \in Nat /\ m - 1 <= e - 1
            BY <1>1, <2>9
          <5>2. 2 ^ (m - 1) <= 2 ^ (e - 1) /\ 2 ^ (m - 1) \in Nat \ {0}
            BY <5>1, PowerOrder, PowerFacts
          <5> QED
            BY <2>2, <5>2
        <4>2. d * W(MaxExp * Hidden) = v * w
          <5>1. W(MaxExp * Hidden) = h * v
            BY <1>1, <4>1, WeightOfInfinity, Zenon
          <5>2. d * (h * v) = v * (d * h)
            OBVIOUS
          <5> QED
            BY <2>5, <5>1, <5>2, Zenon
        <4>3. v * w <= u * w
          <5>1. w = 0 => v * w = 0 /\ u * w = 0
            OBVIOUS
          <5>2. w # 0 => v * w <= u * w
            BY <4>1, Scaling
          <5> QED
            BY <5>1, <5>2
        <4>4. v * w \in Nat
          OBVIOUS
        <4>5. d * W(MaxExp * Hidden) <= n
          BY <1>15, <2>6, <4>2, <4>3, <4>4
        <4> QED
          BY <4>5, NearestInfinity
      <3>3. Nearest(n, d) - 0 = Nearest(n, d) /\ Nearest(n, d) - 0 \in Nat
        BY <3>2, LastRank
      <3>4. \A off \in {0, 1} : Answers(Ranked(sign, Nearest(n, d) - 0), Rounded(sign, n, d, off))
        <4>1. \A off \in {0, 1} : off \in Nat /\ 0 \in 0 .. off
          OBVIOUS
        <4> QED
          BY <2>8, <3>3, <4>1, NearestAnswers
      <3> QED
        BY <3>1, <3>2, <3>3, <3>4
    <2>10. CASE e < m
      <3>1. PICK s \in Nat : s = Squeeze(sig, r)
        BY SqueezeBound
      <3>2. Normalize(sign, exp, sig) = Ranked(sign, RoundedRank(e, s))
        <4>1. 1 <= exp + r /\ exp + r < MaxExp
          BY <1>1, <1>16, <2>1, <2>10
        <4>2. Normalize(sign, exp, sig) = Ranked(sign, RoundedRank(exp + r, Squeeze(sig, r)))
          BY <1>6, <4>1, NormalizeLong
        <4> QED
          BY <2>1, <3>1, <4>2, Zenon
      <3>3. Normal <= s /\ s < 2 * Normal /\ e < MaxExp
        BY <1>1, <1>6, <2>10, <3>1, RightTurns
      <3>4. 8 * n \in Nat /\ c * q = d * u /\ c * q \in Nat \ {0}
        <4>1. c * q = q * c
          OBVIOUS
        <4>2. 1 * q <= c * q /\ c * q \in Int
          BY Scaling
        <4> QED
          BY <1>12, <2>4, <4>1, <4>2
      <3>5. Truncated(s, 8 * n, d * 2 ^ (e - 1))
        <4>1. Truncated(Squeeze(sig, r), 8 * n, c * 2 ^ r)
          BY <1>4, <3>4, SqueezeKeeps
        <4> QED
          BY <1>7, <2>2, <3>1, <3>4, <4>1, Zenon
      <3>6. RoundedRank(e, s) \in {Nearest(n, d), Nearest(n, d) - 1}
        BY <3>3, <3>5, TruncatedIsNearby DEF RoundedRank
      <3>7. RoundedRank(e, s) \in Nat
        <4>1. Place(e, s \div 8) \in Nat
          <5>1. s \div 8 \in Nat /\ e - 1 \in Nat
            OBVIOUS
          <5>2. (e - 1) * h \in Nat
            BY <5>1
          <5> QED
            BY <1>1, <5>1, <5>2 DEF Place
        <4>2. Bit(Up(s)) \in {0, 1}
          BY DEF Bit
        <4> QED
          BY <4>1, <4>2 DEF RoundedRank
      <3>8. Answers(Normalize(sign, exp, sig), Rounded(sign, n, d, 1))
        <4>1. PICK i \in 0 .. 1 : RoundedRank(e, s) = Nearest(n, d) - i
          <5>1. PICK k \in Int : k = Nearest(n, d)
            BY NearestBound
          <5>2. k - 0 = k
            OBVIOUS
          <5>3. 0 \in 0 .. 1 /\ 1 \in 0 .. 1
            OBVIOUS
          <5> QED
            BY <3>6, <5>1, <5>2, <5>3, Zenon
        <4>2. Nearest(n, d) - i \in Nat /\ 1 \in Nat
          BY <3>7, <4>1, Zenon
        <4>3. Answers(Ranked(sign, Nearest(n, d) - i), Rounded(sign, n, d, 1))
          BY <2>8, <4>2, NearestAnswers
        <4> QED
          BY <3>2, <4>1, <4>3, Zenon
      <3>9. ASSUME 8 * n = sig * (t * 2 ^ G)
            PROVE  Answers(Normalize(sign, exp, sig), Rounded(sign, n, d, 0))
        <4>1. 8 * n = sig * c
          BY <1>2, <1>3, <3>9, Zenon
        <4>2. Near(s, 8 * n, c * q)
          <5>1. Near(Squeeze(sig, r), 8 * n, c * 2 ^ r)
            BY <3>4, <4>1, SqueezeKeeps
          <5> QED
            BY <1>7, <3>1, <5>1, Zenon
        <4>3. Rounds(s, 8 * n, c * q)
          BY <3>4, <4>2, NearRounds
        <4>4. Rounds(s, 8 * n, d * 2 ^ (e - 1))
          BY <2>2, <3>4, <4>3, Zenon
        <4>5. s >= Normal
          BY <1>1, <3>3
        <4>6. Nearest(n, d) = RoundedRank(e, s)
          BY <3>3, <4>4, <4>5, RoundingIsNearest DEF RoundedRank
        <4>7. Nearest(n, d) - 0 = RoundedRank(e, s) /\ Nearest(n, d) - 0 \in Nat /\ 0 \in 0 .. 0
          BY <3>7, <4>6
        <4>8. Answers(Ranked(sign, Nearest(n, d) - 0), Rounded(sign, n, d, 0))
          BY <2>8, <4>7, NearestAnswers
        <4> QED
          BY <3>2, <4>7, <4>8, Zenon
      <3> QED
        BY <3>8, <3>9
    <2>11. e >= m \/ e < m
      OBVIOUS
    <2> QED
      BY <2>9, <2>10, <2>11, Zenon
  <1>17. CASE exp + r <= 0
    <2>1. PICK k \in Nat \ {0} : exp = -k /\ r <= k
      <3>1. -exp \in Nat \ {0} /\ exp = -(-exp) /\ r <= -exp
        BY <1>9, <1>17
      <3> QED
        BY <3>1, Zenon
    <2>2. sig < (2 * Normal) * 2 ^ k
      <3>1. PICK v \in Nat \ {0} : v = 2 ^ k /\ q <= v
        BY <1>7, <2>1, PowerFacts, PowerOrder
      <3>2. q * (16 * h) <= v * (16 * h)
        BY <3>1, Scaling
      <3>3. q * (16 * h) = 16 * (h * q) /\ v * (16 * h) = (2 * (8 * h)) * v
        OBVIOUS
      <3>4. (2 * (8 * h)) * v \in Nat
        OBVIOUS
      <3>5. sig < (2 * (8 * h)) * v
        BY <1>10, <1>11, <3>2, <3>3, <3>4
      <3> QED
        BY <1>1, <3>1, <3>5, Zenon
    <2>3. PICK f \in 0 .. Hidden - 1 : Normalize(sign, exp, sig) = Ranked(sign, f)
      BY <2>1, <2>2, NormalizeSmall
    <2>4. f \in Nat /\ f <= 2 * Hidden
      BY <1>1
    <2>5. n < d * Hidden
      <3>1. 2 * (g * q) <= p
        <4>1. G + r < D /\ G + r \in Nat
          BY <1>5, <1>17
        <4>2. 2 * 2 ^ (G + r) <= 2 ^ D
          BY <4>1, PowerOrder
        <4>3. 2 ^ (G + r) = 2 ^ G * 2 ^ r
          BY PowerOfSum
        <4> QED
          BY <1>2, <1>7, <4>2, <4>3, Zenon
      <3>2. PICK a \in Nat : a = g * q
        <4>1. g * q \in Nat
          OBVIOUS
        <4> QED
          BY <4>1
      <3>3. PICK b \in Nat \ {0} : b = t * h
        <4>1. 1 * h <= t * h /\ t * h \in Int
          BY Scaling
        <4> QED
          BY <4>1
      <3>4. (2 * a) * b <= p * b
        BY <3>1, <3>2, Scaling
      <3>5. (2 * a) * b = 2 * z
        <4>1. (2 * (g * q)) * (t * h) = 2 * (h * (q * (t * g)))
          OBVIOUS
        <4> QED
          BY <1>3, <1>12, <1>14, <3>2, <3>3, <4>1, Zenon
      <3>6. p * b = d * h
        <4>1. p * (t * h) = (t * p) * h
          OBVIOUS
        <4> QED
          BY <1>4, <3>3, <4>1, Zenon
      <3>7. d * h \in Nat
        OBVIOUS
      <3>8. n < d * h
        BY <1>15, <3>4, <3>5, <3>6, <3>7
      <3> QED
        BY <1>1, <3>8, Zenon
    <2>6. \A off \in {0, 1} : Answers(Ranked(sign, f), Rounded(sign, n, d, off))
      <3>1. \A off \in {0, 1} : off \in Nat
        OBVIOUS
      <3> QED
        BY <2>4, <2>5, <3>1, RankedAnswers
    <2> QED
      BY <2>3, <2>6
  <1>18. exp + r >= 1 \/ exp + r <= 0
    OBVIOUS
  <1> QED
    BY <1>16, <1>17, <1>18, Zenon

LEMMA ShortIsRounded ==
  ASSUME NEW sign \in Signs, NEW sig \in Nat, NEW exp \in Int, NEW n \in Nat, NEW d \in Nat \ {0},
         NEW D \in Nat, NEW G \in Nat, NEW g \in Nat \ {0}, g = 2 ^ G, d = 2 ^ D,
         exp = G + 1 - D, 8 * n = sig * g, sig < 2 * Normal, exp < MaxExp
  PROVE  Answers(Normalize(sign, exp, sig), Rounded(sign, n, d, 0))
  <1>1. PICK h \in Nat \ {0}, m \in Nat : Normal = 8 * h /\ Hidden = h /\ m = MaxExp /\ m >= 3
    BY FormatFacts
  <1>2. PICK w \in Nat : w = d * h
    <2>1. d * h \in Nat
      OBVIOUS
    <2> QED
      BY <2>1
  <1>3. PICK z \in Nat : z = g * h
    <2>1. g * h \in Nat
      OBVIOUS
    <2> QED
      BY <2>1
  <1>4. 8 * n < 16 * z
    <2>1. sig * g < (16 * h) * g
      <3>1. sig < 16 * h /\ sig \in Int /\ 16 * h \in Int
        BY <1>1
      <3> QED
        BY <3>1, Scaling
    <2>2. (16 * h) * g = 16 * (g * h)
      OBVIOUS
    <2> QED
      BY <1>3, <2>1, <2>2
  <1>5. ASSUME NEW k \in Nat, Normalize(sign, exp, sig) = Ranked(sign, k), k <= 2 * Hidden, n < w
        PROVE  Answers(Normalize(sign, exp, sig), Rounded(sign, n, d, 0))
    <2>1. n < d * Hidden /\ 0 \in Nat
      BY <1>1, <1>2, <1>5
    <2>2. Answers(Ranked(sign, k), Rounded(sign, n, d, 0))
      BY <1>5, <2>1, RankedAnswers
    <2> QED
      BY <1>5, <2>2, Zenon
  <1>6. \A f \in 0 .. Hidden - 1 : f \in Nat /\ f <= 2 * Hidden
    BY <1>1
  <1>7. ASSUME NEW e \in Nat \ {0}, NEW s \in Nat, NEW u \in Nat \ {0}, e < m, u = 2 ^ (e - 1),
               Normal <= s, s < 2 * Normal, 8 * n = s * (d * u),
               Normalize(sign, exp, sig) = Ranked(sign, RoundedRank(e, s))
        PROVE  Answers(Normalize(sign, exp, sig), Rounded(sign, n, d, 0))
    <2>1. PICK c \in Nat \ {0} : c = d * u /\ d <= c
      <3>1. 1 * d <= u * d /\ u * d \in Int /\ u * d = d * u
        BY Scaling
      <3> QED
        BY <3>1
    <2>2. 8 * n \in Nat
      OBVIOUS
    <2>3. Rounds(s, 8 * n, c)
      BY <1>7, <2>1, <2>2, ExactRounds
    <2>4. Rounds(s, 8 * n, d * 2 ^ (e - 1))
      BY <1>7, <2>1, <2>3, Zenon
    <2>5. e < MaxExp /\ s >= Normal
      BY <1>1, <1>7
    <2>6. Nearest(n, d) = RoundedRank(e, s)
      BY <1>7, <2>4, <2>5, RoundingIsNearest DEF RoundedRank
    <2>7. ~(n < d * Hidden)
      <3>1. (8 * h) * c <= s * c
        BY <1>1, <1>7, Scaling
      <3>2. d * h <= c * h
        BY <2>1, Scaling
      <3>3. (8 * h) * c = 8 * (c * h) /\ c * h \in Nat /\ d * h \in Nat
        OBVIOUS
      <3>4. 8 * n = s * c
        BY <1>7, <2>1, Zenon
      <3>5. d * h <= n
        BY <3>1, <3>2, <3>3, <3>4
      <3> QED
        BY <1>1, <3>3, <3>5
    <2>8. RoundedRank(e, s) \in Nat
      <3>1. Place(e, s \div 8) \in Nat
        <4>1. s \div 8 \in Nat /\ e - 1 \in Nat
          OBVIOUS
        <4>2. (e - 1) * h \in Nat
          BY <4>1
        <4> QED
          BY <1>1, <4>1, <4>2 DEF Place
      <3>2. Bit(Up(s)) \in {0, 1}
        BY DEF Bit
      <3> QED
        BY <3>1, <3>2 DEF RoundedRank
    <2>9. Nearest(n, d) - 0 = RoundedRank(e, s) /\ Nearest(n, d) - 0 \in Nat /\ 0 \in 0 .. 0 /\ 0 \in Nat
      BY <2>6, <2>8
    <2>10. Answers(Ranked(sign, Nearest(n, d) - 0), Rounded(sign, n, d, 0))
      BY <2>7, <2>9, NearestAnswers
    <2> QED
      BY <1>7, <2>9, <2>10, Zenon
  <1>8. CASE exp >= 1 /\ sig >= Normal
    <2>1. PICK e \in Nat \ {0} : e = exp /\ e < m
      BY <1>1, <1>8
    <2>2. PICK u \in Nat \ {0} : u = 2 ^ (e - 1) /\ g = d * u
      <3>1. PICK f \in Nat : f = e - 1 /\ G = D + f
        <4>1. e - 1 \in Nat /\ G = D + (e - 1)
          BY <2>1
        <4> QED
          BY <4>1, Zenon
      <3>2. 2 ^ f \in Nat \ {0} /\ 2 ^ G = 2 ^ D * 2 ^ f
        BY <3>1, PowerFacts, PowerOfSum
      <3> QED
        BY <3>1, <3>2, Zenon
    <2>3. Normalize(sign, exp, sig) = Ranked(sign, RoundedRank(e, sig))
      <3>1. exp \in Nat /\ exp # 0 /\ Normal <= sig
        BY <1>1, <1>8, <2>1
      <3>2. Normalize(sign, exp, sig) = Ranked(sign, RoundedRank(IF exp = 0 THEN 1 ELSE exp, sig))
        BY <3>1, NormalizeFit, Zenon
      <3> QED
        BY <2>1, <3>1, <3>2, Zenon
    <2>4. Normal <= sig /\ 8 * n = sig * (d * u)
      BY <1>1, <1>8, <2>2, Zenon
    <2> QED
      BY <1>7, <2>1, <2>2, <2>3, <2>4
  <1>9. CASE exp <= 0
    <2>1. n < w
      <3>1. G < D
        BY <1>9
      <3>2. 2 * g <= d
        BY <3>1, PowerOrder
      <3>3. (2 * g) * h <= d * h
        BY <3>2, Scaling
      <3>4. (2 * g) * h = 2 * (g * h)
        OBVIOUS
      <3> QED
        BY <1>2, <1>3, <1>4, <3>3, <3>4
    <2>2. CASE exp = 0
      <3>1. CASE sig < Normal
        BY <1>5, <1>6, <2>1, <2>2, <3>1, NormalizeNothing
      <3>2. CASE sig >= Normal
        <4>1. Normalize(sign, exp, sig) = Ranked(sign, RoundedRank(1, sig))
          <5>1. exp \in Nat /\ Normal <= sig
            BY <1>1, <2>2, <3>2
          <5>2. Normalize(sign, exp, sig) = Ranked(sign, RoundedRank(IF exp = 0 THEN 1 ELSE exp, sig))
            BY <5>1, NormalizeFit, Zenon
          <5> QED
            BY <2>2, <5>2, Zenon
        <4>2. RoundedRank(1, sig) \in Nat /\ RoundedRank(1, sig) <= 2 * Hidden
          <5>1. PICK q \in Nat : q = sig \div 8 /\ q <= 2 * h - 1
            BY <1>1
          <5>2. (1 - 1) * h = 0
            OBVIOUS
          <5>3. Place(1, q) = q
            BY <1>1, <5>1, <5>2 DEF Place
          <5>4. Bit(Up(sig)) \in {0, 1}
            BY DEF Bit
          <5>5. RoundedRank(1, sig) = q + Bit(Up(sig))
            BY <5>1, <5>3, Zenon DEF RoundedRank
          <5> QED
            BY <1>1, <5>1, <5>4, <5>5
        <4> QED
          BY <1>5, <2>1, <4>1, <4>2, Zenon
      <3> QED
        BY <1>1, <3>1, <3>2
    <2>3. CASE exp < 0
      <3>1. PICK k \in Nat \ {0} : exp = -k
        <4>1. -exp \in Nat \ {0} /\ exp = -(-exp)
          BY <2>3
        <4> QED
          BY <4>1, Zenon
      <3>2. sig < (2 * Normal) * 2 ^ k
        <4>1. PICK v \in Nat \ {0} : v = 2 ^ k
          BY PowerFacts
        <4>2. 1 * (16 * h) <= v * (16 * h) /\ v * (16 * h) = (2 * (8 * h)) * v
          BY Scaling
        <4>3. (2 * (8 * h)) * v \in Nat
          OBVIOUS
        <4>4. sig < (2 * (8 * h)) * v
          BY <1>1, <4>2, <4>3
        <4> QED
          BY <1>1, <4>1, <4>4, Zenon
      <3>3. PICK f \in 0 .. Hidden - 1 : Normalize(sign, exp, sig) = Ranked(sign, f)
        BY <3>1, <3>2, NormalizeSmall
      <3> QED
        BY <1>5, <1>6, <2>1, <3>3, Zenon
    <2>4. exp = 0 \/ exp < 0
      BY <1>9
    <2> QED
      BY <2>2, <2>3, <2>4, Zenon
  <1>10. CASE exp >= 1 /\ sig < Normal
    <2>1. PICK e \in Nat \ {0} : e = exp /\ e < m
      BY <1>1, <1>10
    <2>2. PICK v \in Nat \ {0} : v = 2 ^ (e - 1) /\ g = d * v
      <3>1. PICK f \in Nat : f = e - 1 /\ G = D + f
        <4>1. e - 1 \in Nat /\ G = D + (e - 1)
          BY <2>1
        <4> QED
          BY <4>1, Zenon
      <3>2. 2 ^ f \in Nat \ {0} /\ 2 ^ G = 2 ^ D * 2 ^ f
        BY <3>1, PowerFacts, PowerOfSum
      <3> QED
        BY <3>1, <3>2, Zenon
    <2>3. CASE \E j \in Nat \ {0} :
                 /\ j < e /\ Normal <= sig * 2 ^ j /\ sig * 2 ^ j < 2 * Normal
                 /\ Normalize(sign, e, sig) = Ranked(sign, RoundedRank(e - j, sig * 2 ^ j))
      <3>1. PICK j \in Nat \ {0} :
                 /\ j < e /\ Normal <= sig * 2 ^ j /\ sig * 2 ^ j < 2 * Normal
                 /\ Normalize(sign, e, sig) = Ranked(sign, RoundedRank(e - j, sig * 2 ^ j))
        BY <2>3
      <3>2. PICK q \in Nat \ {0} : q = 2 ^ j
        BY PowerFacts
      <3>3. PICK f \in Nat \ {0} : f = e - j /\ e = f + j
        <4>1. j < e
          BY <3>1, Zenon
        <4>2. e - j \in Nat \ {0} /\ e = (e - j) + j
          BY <4>1
        <4> QED
          BY <4>2, Zenon
      <3>4. PICK u \in Nat \ {0} : u = 2 ^ (f - 1) /\ v = u * q
        <4>1. PICK i \in Nat : i = f - 1 /\ e - 1 = i + j
          <5>1. f - 1 \in Nat /\ e - 1 = (f - 1) + j
            BY <3>3
          <5> QED
            BY <5>1, Zenon
        <4>2. 2 ^ i \in Nat \ {0} /\ 2 ^ (i + j) = 2 ^ i * 2 ^ j
          BY PowerFacts, PowerOfSum
        <4> QED
          BY <2>2, <3>2, <4>1, <4>2, Zenon
      <3>5. PICK p \in Nat : p = sig * q
        <4>1. sig * q \in Nat
          OBVIOUS
        <4> QED
          BY <4>1
      <3>6. 8 * n = p * (d * u)
        <4>1. sig * (d * (u * q)) = (sig * q) * (d * u)
          OBVIOUS
        <4> QED
          BY <2>2, <3>4, <3>5, <4>1, Zenon
      <3>7. Normal <= p /\ p < 2 * Normal /\ Normalize(sign, exp, sig) = Ranked(sign, RoundedRank(f, p))
        BY <2>1, <3>1, <3>2, <3>3, <3>5, Zenon
      <3>8. f < m
        BY <2>1, <3>3
      <3> QED
        BY <1>7, <3>4, <3>6, <3>7, <3>8
    <2>4. CASE /\ sig * 2 ^ (e - 1) < Normal
               /\ \E f \in 0 .. Hidden - 1 : Normalize(sign, e, sig) = Ranked(sign, f)
      <3>1. PICK f \in 0 .. Hidden - 1 : Normalize(sign, exp, sig) = Ranked(sign, f)
        BY <2>1, <2>4, Zenon
      <3>2. PICK p \in Nat : p = sig * v
        <4>1. sig * v \in Nat
          OBVIOUS
        <4> QED
          BY <4>1
      <3>3. p < 8 * h
        BY <1>1, <2>2, <2>4, <3>2, Zenon
      <3>4. 8 * n = p * d
        <4>1. sig * (d * v) = (sig * v) * d
          OBVIOUS
        <4> QED
          BY <2>2, <3>2, <4>1, Zenon
      <3>5. p * d < (8 * h) * d
        BY <3>3, Scaling
      <3>6. (8 * h) * d = 8 * (d * h) /\ p * d \in Nat
        OBVIOUS
      <3>7. n < w
        BY <1>2, <3>4, <3>5, <3>6
      <3> QED
        BY <1>5, <1>6, <3>1, <3>7, Zenon
    <2>5. sig < Normal
      BY <1>10, Zenon
    <2> QED
      BY <2>3, <2>4, <2>5, NormalizeShort
  <1>11. exp <= 0 \/ (exp >= 1 /\ sig >= Normal) \/ (exp >= 1 /\ sig < Normal)
    BY <1>1
  <1> QED
    BY <1>8, <1>9, <1>10, <1>11, Zenon

LEMMA ProductIsRounded ==
  ASSUME NEW sign \in Signs, NEW a \in FiniteNonzero, NEW b \in FiniteNonzero
  PROVE  Answers(Normalize(sign, Scale(a) + Scale(b) - Bias - FracBits, 8 * Significand(a) * Significand(b)),
                 Rounded(sign, Weight(a) * Weight(b), One, 0))
  <1>1. PICK h \in Nat \ {0}, m \in Nat, o \in Nat \ {0}, f \in Nat \ {0} :
          Normal = 8 * h /\ Hidden = h /\ h >= 2 /\ m = MaxExp /\ o = Bias /\ f = FracBits
    BY FormatFacts
  <1>2. PICK sa \in 1 .. 2 * h - 1, ea \in 1 .. m - 1 :
          /\ sa = Significand(a) /\ ea = Scale(a) /\ (ea >= 2 => sa >= h)
          /\ Weight(a) = sa * 2 ^ (ea - 1)
    <2>1. a.exp \in 0 .. m - 1 /\ Scale(a) = (IF a.exp = 0 THEN 1 ELSE a.exp)
          /\ (a.exp # 0 => Significand(a) >= h)
      BY <1>1, NumberFacts
    <2> QED
      BY <1>1, <2>1, NumberFacts
  <1>3. PICK sb \in 1 .. 2 * h - 1, eb \in 1 .. m - 1 :
          /\ sb = Significand(b) /\ eb = Scale(b) /\ (eb >= 2 => sb >= h)
          /\ Weight(b) = sb * 2 ^ (eb - 1)
    <2>1. b.exp \in 0 .. m - 1 /\ Scale(b) = (IF b.exp = 0 THEN 1 ELSE b.exp)
          /\ (b.exp # 0 => Significand(b) >= h)
      BY <1>1, NumberFacts
    <2> QED
      BY <1>1, <2>1, NumberFacts
  <1>4. PICK i \in Nat, j \in Nat, D \in Nat : i = ea - 1 /\ j = eb - 1 /\ D = Bias + FracBits - 1
    <2>1. ea - 1 \in Nat /\ eb - 1 \in Nat /\ Bias + FracBits - 1 \in Nat
      BY <1>1
    <2> QED
      BY <2>1
  <1>5. PICK p \in Nat \ {0}, q \in Nat \ {0} : p = 2 ^ i /\ q = 2 ^ j
    BY PowerFacts
  <1>6. PICK G \in Nat : G = i + j
    OBVIOUS
  <1>7. PICK g \in Nat \ {0} : g = 2 ^ G /\ g = p * q
    <2>1. 2 ^ (i + j) = 2 ^ i * 2 ^ j
      BY PowerOfSum
    <2>2. 2 ^ G = p * q
      BY <1>5, <1>6, <2>1, Zenon
    <2> QED
      BY <2>2, PowerFacts
  <1>8. PICK exp \in Int : exp = Scale(a) + Scale(b) - Bias - FracBits /\ exp = G + 1 - D /\ exp = ea + eb - o - f
    <2>1. ea + eb - o - f \in Int /\ ea + eb - o - f = i + j + 1 - D
      BY <1>1, <1>4
    <2> QED
      BY <1>1, <1>2, <1>3, <1>6, <2>1
  <1>9. PICK sig \in Nat : sig = (8 * sa) * sb
    <2>1. (8 * sa) * sb \in Nat
      OBVIOUS
    <2> QED
      BY <2>1
  <1>10. PICK n \in Nat : n = Weight(a) * Weight(b) /\ n = (sa * p) * (sb * q)
    <2>1. Weight(a) * Weight(b) = (sa * p) * (sb * q)
      BY <1>2, <1>3, <1>4, <1>5, Zenon
    <2>2. (sa * p) * (sb * q) \in Nat
      OBVIOUS
    <2> QED
      BY <2>1, <2>2
  <1>11. 8 * n = sig * g
    <2>1. 8 * ((sa * p) * (sb * q)) = ((8 * sa) * sb) * (p * q)
      OBVIOUS
    <2> QED
      BY <1>7, <1>9, <1>10, <2>1, Zenon
  <1>12. PICK d \in Nat \ {0} : d = One /\ d = 2 ^ D
    BY <1>4, PowerFacts DEF One
  <1>13. CASE sig >= 2 * Normal
    <2>1. Computed(sig, exp, n, d, 1, D, G) /\ 8 * n = sig * (1 * 2 ^ G)
      <3>1. d = 1 * 2 ^ D /\ 1 * 2 ^ G = g
        BY <1>7, <1>12
      <3>2. sig * g \in Nat /\ (sig + 1) * g = sig * g + g
        OBVIOUS
      <3>3. sig * g <= 8 * n /\ 8 * n < (sig + 1) * g
        BY <1>11, <3>2
      <3> QED
        BY <1>8, <1>11, <3>1, <3>3, Zenon DEF Computed
    <2>2. 1 \in Nat \ {0}
      OBVIOUS
    <2>3. Answers(Normalize(sign, exp, sig), Rounded(sign, n, d, 0))
      BY <1>13, <2>1, <2>2, LongIsRounded
    <2> QED
      BY <1>2, <1>3, <1>8, <1>9, <1>10, <1>12, <2>3, Zenon
  <1>14. CASE sig < 2 * Normal
    <2>1. exp < MaxExp
      <3>1. ASSUME ea >= 2, eb >= 2 PROVE FALSE
        <4>1. sa >= h /\ sb >= h
          BY <1>2, <1>3, <3>1
        <4>2. 2 * sa <= sb * sa
          <5>1. 2 \in Int /\ sb \in Int /\ sa \in Nat \ {0} /\ 2 <= sb
            BY <1>1, <4>1
          <5> QED
            BY <5>1, Scaling
        <4>3. PICK x \in Int : x = sb * sa
          OBVIOUS
        <4>4. (8 * sa) * sb = 8 * (sb * sa)
          OBVIOUS
        <4>5. sig = 8 * x /\ 2 * sa <= x
          BY <1>9, <4>2, <4>3, <4>4, Zenon
        <4> QED
          BY <1>1, <1>14, <4>1, <4>5
      <3> QED
        BY <1>1, <1>8, <3>1
    <2>2. Answers(Normalize(sign, exp, sig), Rounded(sign, n, d, 0))
      BY <1>7, <1>8, <1>11, <1>12, <1>14, <2>1, ShortIsRounded
    <2> QED
      BY <1>2, <1>3, <1>8, <1>9, <1>10, <1>12, <2>2, Zenon
  <1>15. sig >= 2 * Normal \/ sig < 2 * Normal
    BY <1>1
  <1> QED
    BY <1>13, <1>14, <1>15, Zenon

LEMMA ProductCases ==
  ASSUME NEW x, NEW y, NEW s, s = Xor(x.sign, y.sign)
  PROVE  /\ IsNaN(x) /\ ~IsInf(x) /\ x \notin Finite => Product(x, y) = {NaN(1)}
         /\ IsNaN(y) /\ ~IsInf(y) /\ y \notin Finite /\ y \notin Infinities => Product(x, y) = {NaN(1)}
         /\ IsInf(x) /\ IsZero(y) /\ x \notin Finite /\ ~IsInf(y) => Product(x, y) = {NaN(1)}
         /\ IsZero(x) /\ IsInf(y) /\ y \notin Finite /\ ~IsInf(x) => Product(x, y) = {NaN(1)}
         /\ ~IsNaN(x) /\ ~IsNaN(y)
            => /\ IsInf(x) /\ x \notin Finite /\ ~IsZero(x) /\ ~IsZero(y) /\ y \in Infinities \cup Finite
                    => Product(x, y) = {Inf(s)}
               /\ ~IsInf(x) /\ x \in Finite /\ ~IsZero(x) /\ IsInf(y) /\ ~IsZero(y) /\ y \notin Finite
                    => Product(x, y) = {Inf(s)}
               /\ ~IsInf(x) /\ ~IsInf(y) /\ x \in Finite /\ y \in Finite
                    => Product(x, y) = IF IsZero(x) \/ IsZero(y) THEN {Zero(s)}
                                       ELSE Rounded(s, Weight(x) * Weight(y), One, 0)
  <1> DEFINE aa == IsNaN(x) \/ IsNaN(y) \/ (IsInf(x) /\ IsZero(y)) \/ (IsZero(x) /\ IsInf(y))
             bb == IsInf(x) /\ y \in Infinities \cup Finite /\ ~IsZero(y)
             cc == x \in Finite /\ IsInf(y) /\ ~IsZero(x)
             dd == x \in Finite /\ y \in Finite
             nan == {NaN(1)}
             inf == {Inf(s)}
             rest == IF IsZero(x) \/ IsZero(y) THEN {Zero(s)} ELSE Rounded(s, Weight(x) * Weight(y), One, 0)
             cases == CASE aa -> nan [] bb -> inf [] cc -> inf [] dd -> rest
  <1>1. Product(x, y) = cases
    BY Zenon DEF Product
  <1>2. /\ aa /\ ~bb /\ ~cc /\ ~dd => Product(x, y) = nan
        /\ ~aa /\ bb /\ ~cc /\ ~dd => Product(x, y) = inf
        /\ ~aa /\ ~bb /\ cc /\ ~dd => Product(x, y) = inf
        /\ ~aa /\ ~bb /\ ~cc /\ dd => Product(x, y) = rest
    <2> HIDE DEF aa, bb, cc, dd, nan, inf, rest
    <2> QED
      BY <1>1
  <1> HIDE DEF cases, rest
  <1>3. /\ IsNaN(x) /\ ~IsInf(x) /\ x \notin Finite => Product(x, y) = {NaN(1)}
        /\ IsNaN(y) /\ ~IsInf(y) /\ y \notin Finite /\ y \notin Infinities => Product(x, y) = {NaN(1)}
    BY <1>2, Zenon
  <1>4. /\ IsInf(x) /\ IsZero(y) /\ x \notin Finite /\ ~IsInf(y) => Product(x, y) = {NaN(1)}
        /\ IsZero(x) /\ IsInf(y) /\ y \notin Finite /\ ~IsInf(x) => Product(x, y) = {NaN(1)}
    BY <1>2, Zenon
  <1>5. ASSUME ~IsNaN(x), ~IsNaN(y)
        PROVE  /\ IsInf(x) /\ x \notin Finite /\ ~IsZero(x) /\ ~IsZero(y) /\ y \in Infinities \cup Finite
                    => Product(x, y) = {Inf(s)}
               /\ ~IsInf(x) /\ x \in Finite /\ ~IsZero(x) /\ IsInf(y) /\ ~IsZero(y) /\ y \notin Finite
                    => Product(x, y) = {Inf(s)}
               /\ ~IsInf(x) /\ ~IsInf(y) /\ x \in Finite /\ y \in Finite => Product(x, y) = rest
    BY <1>2, <1>5, Zenon
  <1> USE DEF rest
  <1> QED
    BY <1>3, <1>4, <1>5, Zenon

LEMMA FloatMulCases ==
  ASSUME NEW a, NEW b, NEW s, s = Xor(a.sign, b.sign)
  PROVE  /\ IsDefaultNaN(a) /\ ~IsZero(a) /\ ~IsInf(a) => FloatMul(b, a) \in {NaN(0), NaN(1)}
         /\ IsDefaultNaN(b) /\ ~IsZero(b) /\ ~IsInf(b) => FloatMul(b, a) \in {NaN(0), NaN(1)}
         /\ ~IsDefaultNaN(a) /\ ~IsDefaultNaN(b)
            => /\ IsZero(a) /\ IsInf(b) => FloatMul(b, a) = NaN(1)
               /\ IsInf(a) /\ IsZero(b) => FloatMul(b, a) = NaN(1)
               /\ ~(IsZero(a) /\ IsInf(b)) /\ ~(IsInf(a) /\ IsZero(b))
                  => FloatMul(b, a) =
                       IF IsZero(a) \/ IsZero(b) THEN Zero(s)
                       ELSE IF IsInf(a) \/ IsInf(b) THEN Inf(s)
                       ELSE Normalize(s, Scale(a) + Scale(b) - Bias - FracBits,
                                      8 * Significand(a) * Significand(b))
  <1> DEFINE aa == (IsZero(a) /\ IsInf(b)) \/ (IsInf(a) /\ IsZero(b))
             bb == IsDefaultNaN(a) \/ IsDefaultNaN(b)
             nan == IF NaN(0) \in {a, b} THEN NaN(0) ELSE NaN(1)
             rest == IF IsZero(a) \/ IsZero(b) THEN Zero(s)
                     ELSE IF IsInf(a) \/ IsInf(b) THEN Inf(s)
                     ELSE Normalize(s, Scale(a) + Scale(b) - Bias - FracBits,
                                    8 * Significand(a) * Significand(b))
             cases == CASE aa -> NaN(1) [] bb -> nan [] OTHER -> rest
  <1>1. FloatMul(b, a) = cases
    BY Zenon DEF FloatMul
  <1>2. /\ aa /\ ~bb => FloatMul(b, a) = NaN(1)
        /\ ~aa /\ bb => FloatMul(b, a) = nan
        /\ ~aa /\ ~bb => FloatMul(b, a) = rest
    <2> HIDE DEF aa, bb, nan, rest
    <2> QED
      BY <1>1
  <1>3. nan \in {NaN(0), NaN(1)}
    OBVIOUS
  <1> HIDE DEF cases, rest, nan
  <1>4. /\ IsDefaultNaN(a) /\ ~IsZero(a) /\ ~IsInf(a) => FloatMul(b, a) \in {NaN(0), NaN(1)}
        /\ IsDefaultNaN(b) /\ ~IsZero(b) /\ ~IsInf(b) => FloatMul(b, a) \in {NaN(0), NaN(1)}
    BY <1>2, <1>3, Zenon
  <1>5. ASSUME ~IsDefaultNaN(a), ~IsDefaultNaN(b)
        PROVE  /\ IsZero(a) /\ IsInf(b) => FloatMul(b, a) = NaN(1)
               /\ IsInf(a) /\ IsZero(b) => FloatMul(b, a) = NaN(1)
               /\ ~(IsZero(a) /\ IsInf(b)) /\ ~(IsInf(a) /\ IsZero(b)) => FloatMul(b, a) = rest
    BY <1>2, <1>5, Zenon
  <1> USE DEF rest
  <1> QED
    BY <1>4, <1>5, Zenon

LEMMA XorFacts ==
  ASSUME NEW s \in Signs, NEW t \in Signs
  PROVE  Xor(s, t) \in Signs
  BY DEF Xor, Signs

LEMMA FloatMulAnswers ==
  ASSUME NEW a \in Numbers, NEW b \in Numbers
  PROVE  Answers(FloatMul(b, a), Product(Canonical(a), Canonical(b)))
  <1>1. /\ IsZero(a) \/ a \in FiniteNonzero \/ IsInf(a) \/ IsDefaultNaN(a)
        /\ IsZero(b) \/ b \in FiniteNonzero \/ IsInf(b) \/ IsDefaultNaN(b)
    BY NumberKinds
  <1>2. IsDefaultNaN(NaN(1)) /\ IsDefaultNaN(NaN(0)) /\ 0 \in Signs /\ 1 \in Signs
    BY DEF IsDefaultNaN, Signs
  <1>3. PICK s \in Signs : s = Xor(a.sign, b.sign)
    <2>1. a.sign \in Signs /\ b.sign \in Signs
      BY DEF Numbers
    <2> QED
      BY <2>1, XorFacts
  <1>4. CASE IsDefaultNaN(a)
    <2>1. ~IsZero(a) /\ ~IsInf(a) /\ FloatMul(b, a) \in {NaN(0), NaN(1)}
      BY <1>3, <1>4, NaNFacts, FloatMulCases, Zenon
    <2>2. Product(Canonical(a), Canonical(b)) = {NaN(1)}
      BY <1>2, <1>4, NaNFacts, ProductCases, Zenon
    <2> QED
      BY <1>2, <2>1, <2>2, NaNFacts DEF Answers
  <1>5. CASE IsDefaultNaN(b)
    <2>1. ~IsZero(b) /\ ~IsInf(b) /\ FloatMul(b, a) \in {NaN(0), NaN(1)}
      BY <1>3, <1>5, NaNFacts, FloatMulCases, Zenon
    <2>2. NaN(1) \notin Infinities
      <3>1. \A x \in Infinities : IsInf(x)
        BY DEF Infinities, IsInf, Inf, Float
      <3> QED
        BY <1>2, <3>1, NaNFacts
    <2>3. Product(Canonical(a), Canonical(b)) = {NaN(1)}
      BY <1>2, <1>5, <2>2, NaNFacts, ProductCases, Zenon
    <2> QED
      BY <1>2, <2>1, <2>3, NaNFacts DEF Answers
  <1>6. CASE ~IsDefaultNaN(a) /\ ~IsDefaultNaN(b)
    <2>1. Canonical(a) = a /\ ~IsNaN(a) /\ Canonical(b) = b /\ ~IsNaN(b)
      BY <1>1, <1>6, ZeroFacts, FiniteFacts, InfFacts
    <2>2. CASE IsInf(a) /\ IsZero(b)
      <3>1. FloatMul(b, a) = NaN(1)
        BY <1>3, <1>6, <2>2, FloatMulCases, Zenon
      <3>2. Product(a, b) = {NaN(1)}
        BY <1>3, <2>2, InfFacts, ZeroFacts, ProductCases, Zenon
      <3> QED
        BY <1>2, <2>1, <3>1, <3>2, NaNFacts DEF Answers
    <2>3. CASE IsZero(a) /\ IsInf(b)
      <3>1. FloatMul(b, a) = NaN(1)
        BY <1>3, <1>6, <2>3, FloatMulCases, Zenon
      <3>2. Product(a, b) = {NaN(1)}
        BY <1>3, <2>3, InfFacts, ZeroFacts, ProductCases, Zenon
      <3> QED
        BY <1>2, <2>1, <3>1, <3>2, NaNFacts DEF Answers
    <2>4. CASE IsInf(a) /\ ~IsZero(b)
      <3>1. ~IsZero(a) /\ a \notin Finite
        BY <2>4, InfFacts
      <3>2. b \in Infinities \cup Finite
        BY <1>1, <1>6, <2>4, InfFacts, FiniteFacts
      <3>3. FloatMul(b, a) = Inf(s)
        BY <1>3, <1>6, <2>4, <3>1, FloatMulCases, Zenon
      <3>4. Product(a, b) = {Inf(s)}
        BY <1>3, <2>1, <2>4, <3>1, <3>2, ProductCases, Zenon
      <3> QED
        BY <2>1, <3>3, <3>4, ConstantsAreNumbers DEF Answers
    <2>5. CASE ~IsInf(a) /\ ~IsZero(a) /\ IsInf(b)
      <3>1. ~IsZero(b) /\ b \notin Finite
        BY <2>5, InfFacts
      <3>2. a \in Finite
        BY <1>1, <1>6, <2>5, FiniteFacts
      <3>3. FloatMul(b, a) = Inf(s)
        BY <1>3, <1>6, <2>5, <3>1, FloatMulCases, Zenon
      <3>4. Product(a, b) = {Inf(s)}
        BY <1>3, <2>1, <2>5, <3>1, <3>2, ProductCases, Zenon
      <3> QED
        BY <2>1, <3>3, <3>4, ConstantsAreNumbers DEF Answers
    <2>6. CASE ~IsInf(a) /\ ~IsInf(b)
      <3>1. a \in Finite /\ b \in Finite
        BY <1>1, <1>6, <2>6, ZeroFacts, FiniteFacts
      <3>2. Product(a, b) = IF IsZero(a) \/ IsZero(b) THEN {Zero(s)}
                            ELSE Rounded(s, Weight(a) * Weight(b), One, 0)
        BY <1>3, <2>1, <2>6, <3>1, ProductCases, Zenon
      <3>3. CASE IsZero(a) \/ IsZero(b)
        <4>1. FloatMul(b, a) = Zero(s)
          BY <1>3, <1>6, <2>6, <3>3, FloatMulCases, Zenon
        <4> QED
          BY <2>1, <3>2, <3>3, <4>1, ConstantsAreNumbers DEF Answers
      <3>4. CASE ~IsZero(a) /\ ~IsZero(b)
        <4>1. a \in FiniteNonzero /\ b \in FiniteNonzero
          BY <1>1, <1>6, <2>6, <3>4
        <4>2. FloatMul(b, a) = Normalize(s, Scale(a) + Scale(b) - Bias - FracBits,
                                         8 * Significand(a) * Significand(b))
          BY <1>3, <1>6, <2>6, <3>4, FloatMulCases, Zenon
        <4>3. Product(a, b) = Rounded(s, Weight(a) * Weight(b), One, 0)
          BY <3>2, <3>4, Zenon
        <4> QED
          BY <2>1, <4>1, <4>2, <4>3, ProductIsRounded, Zenon
      <3> QED
        BY <3>3, <3>4
    <2> QED
      BY <2>2, <2>3, <2>4, <2>5, <2>6, Zenon
  <1> QED
    BY <1>4, <1>5, <1>6, Zenon

(* The nearest number depends on the ratio only.                           *)
LEMMA NearestOfRatio ==
  ASSUME NEW n \in Nat, NEW d \in Nat \ {0}, NEW c \in Nat \ {0}
  PROVE  Nearest(n * c, d * c) = Nearest(n, d)
  <1>1. PICK nn \in Nat, dd \in Nat : nn = n * c /\ dd = d * c
    <2>1. n * c \in Nat /\ d * c \in Nat
      OBVIOUS
    <2> QED
      BY <2>1
  <1>2. \A x \in Nat : (d * x <= n <=> dd * x <= nn) /\ (2 * n > d * x <=> 2 * nn > dd * x)
                       /\ (2 * n = d * x <=> 2 * nn = dd * x)
    <2>1. SUFFICES ASSUME NEW x \in Nat
          PROVE (d * x <= n <=> dd * x <= nn) /\ (2 * n > d * x <=> 2 * nn > dd * x)
                /\ (2 * n = d * x <=> 2 * nn = dd * x)
      OBVIOUS
    <2>2. PICK z \in Nat : z = d * x
      <3>1. d * x \in Nat
        OBVIOUS
      <3> QED
        BY <3>1
    <2>3. dd * x = z * c /\ 2 * nn = (2 * n) * c
      <3>1. (d * c) * x = (d * x) * c /\ 2 * (n * c) = (2 * n) * c
        OBVIOUS
      <3> QED
        BY <1>1, <2>2, <3>1, Zenon
    <2>4. /\ z <= n <=> z * c <= n * c
          /\ z < 2 * n <=> z * c < (2 * n) * c
          /\ z = 2 * n <=> z * c = (2 * n) * c
      <3>1. z \in Int /\ n \in Int /\ 2 * n \in Int
        OBVIOUS
      <3> QED
        BY <3>1, Scaling
    <2>5. PICK v \in Int, w \in Int : v = z * c /\ w = (2 * n) * c
      <3>1. z * c \in Int /\ (2 * n) * c \in Int
        OBVIOUS
      <3> QED
        BY <3>1
    <2> QED
      BY <1>1, <2>2, <2>3, <2>4, <2>5
  <1> DEFINE S == {k \in Ranks : d * Weight(Rank(k)) <= n}
             T == {k \in Ranks : dd * Weight(Rank(k)) <= nn}
             below == Cardinality(S)
             lower == Cardinality(T)
             x == Weight(Rank(below)) + Weight(Rank(below + 1))
             y == Weight(Rank(lower)) + Weight(Rank(lower + 1))
             up == 2 * n > d * x \/ (2 * n = d * x /\ below % 2 = 1)
             higher == 2 * nn > dd * y \/ (2 * nn = dd * y /\ lower % 2 = 1)
  <1>3. S = T
    <2>1. \A k \in Ranks : Weight(Rank(k)) \in Nat
      <3>1. \A k \in Ranks : k \in Nat
        BY LastRank
      <3> QED
        BY <3>1, WeightRises DEF W
    <2> QED
      BY <1>2, <2>1
  <1>4. below = lower /\ below \in Nat
    <2>1. PICK k \in Nat : Ranks = 1 .. k
      BY LastRank
    <2>2. IsFiniteSet(1 .. k)
      BY FS_Interval
    <2>3. S \subseteq 1 .. k
      BY <2>1
    <2>4. IsFiniteSet(S)
      BY <2>2, <2>3, FS_Subset
    <2>5. Cardinality(S) \in Nat
      BY <2>4, FS_CardinalityType
    <2> QED
      BY <1>3, <2>5, Zenon
  <1> HIDE DEF S, T, below, lower
  <1>5. x = y /\ x \in Nat
    <2>1. below + 1 \in Nat
      BY <1>4
    <2>2. Weight(Rank(below)) \in Nat /\ Weight(Rank(below + 1)) \in Nat
      BY <1>4, <2>1, WeightRises DEF W
    <2> QED
      BY <1>4, <2>2
  <1> HIDE DEF x, y
  <1>6. up <=> higher
    BY <1>2, <1>4, <1>5, Zenon
  <1>7. Nearest(n, d) = IF below \in Ranks /\ below + 1 \notin Ranks THEN below
                        ELSE IF up THEN below + 1 ELSE below
    BY Zenon DEF Nearest, below, S, x
  <1>8. Nearest(nn, dd) = IF lower \in Ranks /\ lower + 1 \notin Ranks THEN lower
                        ELSE IF higher THEN lower + 1 ELSE lower
    BY Zenon DEF Nearest, lower, T, y
  <1> HIDE DEF up, higher
  <1> QED
    BY <1>1, <1>4, <1>6, <1>7, <1>8

LEMMA RoundedOfRatio ==
  ASSUME NEW s \in Signs, NEW n \in Nat, NEW d \in Nat \ {0}, NEW c \in Nat \ {0}, NEW off \in Nat
  PROVE  Rounded(s, n * c, d * c, off) = Rounded(s, n, d, off)
  <1>1. n * c < (d * c) * Hidden <=> n < d * Hidden
    <2>1. PICK h \in Nat : h = Hidden
      BY FormatFacts
    <2>2. PICK x \in Nat : x = d * h
      <3>1. d * h \in Nat
        OBVIOUS
      <3> QED
        BY <3>1
    <2>3. (d * c) * h = x * c
      <3>1. (d * c) * h = (d * h) * c
        OBVIOUS
      <3> QED
        BY <2>2, <3>1, Zenon
    <2>4. n < x <=> n * c < x * c
      BY Scaling
    <2> QED
      BY <2>1, <2>2, <2>3, <2>4, Zenon
  <1>2. Nearest(n * c, d * c) = Nearest(n, d)
    BY NearestOfRatio
  <1>3. CASE n < d * Hidden
    BY <1>1, <1>3, Zenon DEF Rounded
  <1>4. CASE ~(n < d * Hidden)
    <2>1. Rounded(s, n * c, d * c, off) = {Ranked(s, Nearest(n * c, d * c) - i) : i \in 0 .. off}
      BY <1>1, <1>4, Zenon DEF Rounded
    <2>2. Rounded(s, n, d, off) = {Ranked(s, Nearest(n, d) - i) : i \in 0 .. off}
      BY <1>4, Zenon DEF Rounded
    <2> QED
      BY <1>2, <2>1, <2>2, Zenon
  <1> QED
    BY <1>3, <1>4, Zenon

(* The dividend and the divisor find their places.                         *)
LEMMA LeftPlace ==
  ASSUME NEW m \in Nat \ {0}, m < 2 * Hidden
  PROVE  ToTheLeft(m) \in Nat /\ m * 2 ^ ToTheLeft(m) >= 2 ^ (2 * FracBits + 5)
  <1>1. PICK f \in Nat \ {0}, db \in Nat, c \in Nat :
          f = FracBits /\ db = DividendBits /\ c = db - 1 /\ db = c + 1 /\ c >= 2 * f + 5
    <2>1. DividendBits - 1 \in Nat /\ DividendBits = (DividendBits - 1) + 1
          /\ DividendBits - 1 >= 2 * FracBits + 5
      BY FormatAssumption
    <2> QED
      BY <2>1, FormatAssumption
  <1>2. PICK h \in Nat \ {0} : h = Hidden /\ h = 2 ^ f
    BY <1>1, FormatFacts
  <1>3. PICK p \in Nat \ {0} : p = 2 ^ c /\ 2 ^ db = 2 * p
    BY <1>1, PowerFacts
  <1>4. 2 * h <= p
    BY <1>1, <1>2, <1>3, PowerOrder
  <1>5. PICK r \in Nat, q \in Nat : q = 2 ^ r /\ m * q <= 2 * p - 1 /\ 2 * p - 1 < 2 * (m * q)
    <2>1. 2 * p - 1 \in Nat /\ 2 * p - 1 >= m
      BY <1>2, <1>4
    <2>2. PICK r \in Nat : m * 2 ^ r <= 2 * p - 1 /\ 2 * p - 1 < 2 * (m * 2 ^ r)
      BY <2>1, Leading
    <2>3. 2 ^ r \in Nat
      BY PowerFacts
    <2> QED
      BY <2>2, <2>3
  <1>6. PICK x \in Nat : x = m * q /\ p <= x /\ x <= 2 * p - 1
    <2>1. m * q \in Nat
      OBVIOUS
    <2> QED
      BY <1>5, <2>1
  <1>7. r <= c
    <2>1. ASSUME r >= db PROVE FALSE
      <3>1. 2 * p <= q
        BY <1>3, <1>5, <2>1, PowerOrder
      <3>2. 1 * q <= m * q
        OBVIOUS
      <3> QED
        BY <1>6, <3>1, <3>2
    <2> QED
      BY <1>1, <2>1
  <1>8. r \in 0 .. DividendBits - 1 /\ m * 2 ^ r \in 2 ^ (DividendBits - 1) .. 2 ^ DividendBits - 1
    <2>1. r \in 0 .. c /\ x \in p .. 2 * p - 1
      BY <1>6, <1>7
    <2> QED
      BY <1>1, <1>3, <1>5, <1>6, <2>1, Zenon
  <1>9. /\ ToTheLeft(m) \in 0 .. DividendBits - 1
        /\ m * 2 ^ ToTheLeft(m) \in 2 ^ (DividendBits - 1) .. 2 ^ DividendBits - 1
    <2> DEFINE P(n) == m * 2 ^ n \in 2 ^ (DividendBits - 1) .. 2 ^ DividendBits - 1
    <2>1. P(r)
      BY <1>8
    <2>2. ToTheLeft(m) = CHOOSE n \in 0 .. DividendBits - 1 : P(n)
      BY Zenon DEF ToTheLeft
    <2> HIDE DEF P
    <2>3. P(ToTheLeft(m)) /\ ToTheLeft(m) \in 0 .. DividendBits - 1
      BY <1>8, <2>1, <2>2
    <2> QED
      BY <2>3 DEF P
  <1>10. 2 ^ (2 * f + 5) <= p /\ 2 ^ (2 * f + 5) \in Nat
    <2>1. 2 * f + 5 \in Nat
      OBVIOUS
    <2> QED
      BY <1>1, <1>3, <2>1, PowerOrder, PowerFacts
  <1>11. PICK y \in Int : y = m * 2 ^ ToTheLeft(m) /\ y >= p
    <2>1. m * 2 ^ ToTheLeft(m) \in p .. 2 * p - 1
      BY <1>1, <1>3, <1>9, Zenon
    <2> QED
      BY <2>1
  <1> QED
    BY <1>1, <1>9, <1>10, <1>11

LEMMA RightPlace ==
  ASSUME NEW m \in Nat \ {0}, m < 2 * Hidden
  PROVE  /\ ToTheRight(m) \in Nat
         /\ \E t \in Nat \ {0} : /\ t = m \div 2 ^ ToTheRight(m)
                                 /\ m = t * 2 ^ ToTheRight(m) /\ t < 2 * Hidden
  <1> DEFINE T == {n \in Nat : \A k \in Nat : m # k * 2 ^ (n + 1)}
  <1>1. PICK f \in Nat \ {0}, h \in Nat \ {0} : f = FracBits /\ h = Hidden /\ h = 2 ^ f
    BY FormatFacts
  <1>2. f \in T
    <2>1. SUFFICES ASSUME NEW k \in Nat, m = k * 2 ^ (f + 1) PROVE FALSE
      OBVIOUS
    <2>2. 2 ^ (f + 1) = 2 * h
      BY <1>1, PowerFacts
    <2>3. m = k * (2 * h)
      BY <2>1, <2>2, Zenon
    <2>4. k # 0
      BY <2>3
    <2>5. 1 * (2 * h) <= k * (2 * h)
      BY <2>4
    <2> QED
      BY <1>1, <2>3, <2>5
  <1>3. PICK n \in T : \A j \in T : ~(j < n)
    <2>1. T \in SUBSET Nat /\ T # {}
      BY <1>2
    <2> QED
      BY <2>1, LeastNumber
  <1>4. n \in 0 .. FracBits
    BY <1>1, <1>2, <1>3
  <1>5. PICK k \in Nat : m = k * 2 ^ n
    <2>1. CASE n = 0
      <3>1. 2 ^ n = 1
        BY <2>1, PowerOfZero, Zenon
      <3>2. m = m * 2 ^ n
        BY <3>1
      <3> QED
        BY <3>2
    <2>2. CASE n # 0
      <3>1. PICK j \in Nat : n = j + 1
        <4>1. n - 1 \in Nat /\ n = (n - 1) + 1
          BY <2>2
        <4> QED
          BY <4>1
      <3>2. j \notin T
        BY <1>3, <3>1
      <3> QED
        BY <3>1, <3>2
    <2> QED
      BY <2>1, <2>2
  <1>6. PICK p \in Nat \ {0} : p = 2 ^ n /\ 2 ^ (n + 1) = 2 * p
    BY PowerFacts
  <1>7. k % 2 = 1
    <2>1. ASSUME k % 2 = 0 PROVE FALSE
      <3>1. PICK j \in Nat : k = 2 * j
        <4>1. k \div 2 \in Nat /\ k = 2 * (k \div 2)
          BY <2>1
        <4> QED
          BY <4>1
      <3>2. (2 * j) * p = j * (2 * p)
        OBVIOUS
      <3>3. m = j * 2 ^ (n + 1)
        BY <1>5, <1>6, <3>1, <3>2, Zenon
      <3> QED
        BY <3>3
    <2> QED
      BY <2>1
  <1> DEFINE P(i) == m % 2 ^ i = 0 /\ (m \div 2 ^ i) % 2 = 1
  <1>8. P(n)
    <2>1. m = p * k + 0 /\ 0 \in 0 .. p - 1
      BY <1>5, <1>6
    <2>2. (p * k + 0) \div p = k /\ (p * k + 0) % p = 0
      <3>1. k \in Int
        OBVIOUS
      <3> QED
        BY <2>1, <3>1, DivisionIsUnique, Zenon
    <2> QED
      BY <1>6, <1>7, <2>1, <2>2, Zenon
  <1>9. ToTheRight(m) = CHOOSE i \in 0 .. FracBits : P(i)
    BY Zenon DEF ToTheRight
  <1> HIDE DEF P, T
  <1>10. P(ToTheRight(m)) /\ ToTheRight(m) \in 0 .. FracBits
    BY <1>4, <1>8, <1>9
  <1>11. PICK r \in Nat : r = ToTheRight(m)
    BY <1>1, <1>10
  <1>12. m % 2 ^ r = 0
    BY <1>10, <1>11 DEF P
  <1>13. PICK z \in Nat \ {0} : z = 2 ^ r
    BY PowerFacts
  <1>14. PICK t \in Nat : t = m \div z /\ m = z * t
    <2>1. m \div z \in Nat /\ m = z * (m \div z) + (m % z)
      <3>1. m \in Int /\ m >= 0
        OBVIOUS
      <3> QED
        BY <3>1, DivisionFacts, Zenon
    <2>2. m % z = 0
      BY <1>12, <1>13, Zenon
    <2>3. z * (m \div z) \in Nat
      BY <2>1
    <2>4. m = z * (m \div z)
      BY <2>1, <2>2, <2>3
    <2> QED
      BY <2>1, <2>4
  <1>15. t # 0 /\ m = t * z /\ t <= m
    <2>1. t # 0 /\ z * t = t * z
      BY <1>14
    <2>2. t * 1 <= t * z
      OBVIOUS
    <2> QED
      BY <1>14, <2>1, <2>2
  <1>16. t < 2 * h
    BY <1>1, <1>15
  <1> QED
    BY <1>1, <1>11, <1>13, <1>14, <1>15, <1>16, Zenon

LEMMA RatioIsRounded ==
  ASSUME NEW sign \in Signs, NEW a \in FiniteNonzero, NEW b \in FiniteNonzero,
         NEW left, left = ToTheLeft(Significand(a)), NEW right, right = ToTheRight(Significand(b))
  PROVE  Answers(Normalize(sign, Scale(a) - Scale(b) + Bias - (left + right - FracBits - 3),
                           (Significand(a) * 2 ^ left) \div (Significand(b) \div 2 ^ right)),
                 Rounded(sign, Weight(a) * One, Weight(b), 1))
  <1>1. PICK h \in Nat \ {0}, m \in Nat, o \in Nat \ {0}, f \in Nat \ {0} :
          Normal = 8 * h /\ Hidden = h /\ h = 2 ^ f /\ m = MaxExp /\ o = Bias /\ f = FracBits
    BY FormatFacts
  <1>2. PICK sa \in 1 .. 2 * h - 1, ea \in 1 .. m - 1 :
          sa = Significand(a) /\ ea = Scale(a) /\ Weight(a) = sa * 2 ^ (ea - 1)
    BY <1>1, NumberFacts
  <1>3. PICK sb \in 1 .. 2 * h - 1, eb \in 1 .. m - 1 :
          sb = Significand(b) /\ eb = Scale(b) /\ Weight(b) = sb * 2 ^ (eb - 1)
    BY <1>1, NumberFacts
  <1>4. PICK l \in Nat, lp \in Nat \ {0} : l = left /\ lp = 2 ^ l /\ sa * lp >= 2 ^ (2 * f + 5)
    <2>1. sa \in Nat \ {0} /\ sa < 2 * Hidden
      BY <1>1
    <2>2. left \in Nat /\ sa * 2 ^ left >= 2 ^ (2 * f + 5)
      BY <1>1, <1>2, <2>1, LeftPlace, Zenon
    <2> QED
      BY <2>2, PowerFacts
  <1>5. PICK r \in Nat, rp \in Nat \ {0}, t \in Nat \ {0} :
          r = right /\ rp = 2 ^ r /\ t = sb \div rp /\ sb = t * rp /\ t < 2 * h
    <2>1. sb \in Nat \ {0} /\ sb < 2 * Hidden
      BY <1>1
    <2>2. right \in Nat /\ \E t \in Nat \ {0} : t = sb \div 2 ^ right /\ sb = t * 2 ^ right /\ t < 2 * h
      BY <1>1, <1>3, <2>1, RightPlace, Zenon
    <2> QED
      BY <2>2, PowerFacts
  <1>6. PICK x \in Nat : x = sa * lp
    <2>1. sa * lp \in Nat
      OBVIOUS
    <2> QED
      BY <2>1
  <1>7. PICK sig \in Nat, rem \in 0 .. t - 1 : sig = x \div t /\ x = t * sig + rem
    <2>1. x \in Int /\ x >= 0
      OBVIOUS
    <2>2. x \div t \in Nat /\ x = t * (x \div t) + (x % t) /\ x % t \in 0 .. t - 1
      BY <2>1, DivisionFacts, Zenon
    <2> QED
      BY <2>2
  <1>8. sig * t <= x /\ x < (sig + 1) * t
    <2>1. t * sig \in Nat /\ sig * t = t * sig /\ (sig + 1) * t = t * sig + t
      OBVIOUS
    <2> QED
      BY <1>7, <2>1
  <1>9. sig >= 2 * Normal
    <2>1. ASSUME sig < 2 * Normal PROVE FALSE
      <3>1. sig + 1 <= 16 * h
        BY <1>1, <2>1
      <3>2. (sig + 1) * t <= (16 * h) * t
        <4>1. sig + 1 \in Int /\ 16 * h \in Int
          OBVIOUS
        <4> QED
          BY <3>1, <4>1, Scaling
      <3>3. t * (16 * h) < (2 * h) * (16 * h)
        <4>1. t \in Int /\ 2 * h \in Int /\ 16 * h \in Nat \ {0}
          OBVIOUS
        <4> QED
          BY <1>5, <4>1, Scaling
      <3>4. PICK hh \in Nat : hh = h * h
        <4>1. h * h \in Nat
          OBVIOUS
        <4> QED
          BY <4>1
      <3>5. (2 * h) * (16 * h) = 32 * (h * h) /\ t * (16 * h) = (16 * h) * t
        OBVIOUS
      <3>6. 2 ^ (2 * f + 5) = 32 * hh
        <4>1. 2 ^ (f + f) = hh
          BY <1>1, <3>4, PowerOfSum
        <4>2. PICK k \in Nat : k = f + f /\ 2 * f + 5 = ((((k + 1) + 1) + 1) + 1) + 1
          <5>1. f + f \in Nat /\ 2 * f + 5 = (((((f + f) + 1) + 1) + 1) + 1) + 1
            OBVIOUS
          <5> QED
            BY <5>1
        <4>3. 2 ^ (k + 1) = 2 * hh
          BY <4>1, <4>2, PowerFacts
        <4>4. 2 ^ ((k + 1) + 1) = 2 * 2 ^ (k + 1)
          BY PowerFacts
        <4>5. 2 ^ (((k + 1) + 1) + 1) = 2 * 2 ^ ((k + 1) + 1)
          BY PowerFacts
        <4>6. 2 ^ ((((k + 1) + 1) + 1) + 1) = 2 * 2 ^ (((k + 1) + 1) + 1)
          BY PowerFacts
        <4>7. 2 ^ (((((k + 1) + 1) + 1) + 1) + 1) = 2 * 2 ^ ((((k + 1) + 1) + 1) + 1)
          BY PowerFacts
        <4>8. 2 ^ (2 * f + 5) = 2 * (2 * (2 * (2 * (2 * hh))))
          BY <4>2, <4>3, <4>4, <4>5, <4>6, <4>7, Zenon
        <4> QED
          BY <4>8
      <3>7. x >= 32 * hh
        BY <1>4, <1>6, <3>6, Zenon
      <3>8. PICK u \in Int, v \in Int : u = (sig + 1) * t /\ v = t * (16 * h)
        <4>1. (sig + 1) * t \in Int /\ t * (16 * h) \in Int
          OBVIOUS
        <4> QED
          BY <4>1
      <3>9. x < u /\ u <= v /\ v < 32 * hh
        BY <1>8, <3>2, <3>3, <3>4, <3>5, <3>8, Zenon
      <3> QED
        BY <3>7, <3>9
    <2> QED
      BY <1>1, <2>1
  <1>10. PICK i \in Nat, j \in Nat, c \in Nat : i = ea - 1 /\ j = eb - 1 /\ c = Bias + FracBits - 1
    <2>1. ea - 1 \in Nat /\ eb - 1 \in Nat /\ Bias + FracBits - 1 \in Nat
      BY <1>1
    <2> QED
      BY <2>1
  <1>11. PICK p \in Nat \ {0}, q \in Nat \ {0}, one \in Nat \ {0} : p = 2 ^ i /\ q = 2 ^ j /\ one = 2 ^ c /\ one = One
    BY <1>10, PowerFacts DEF One
  <1>12. PICK G \in Nat, D \in Nat : G = ((i + c) + 1 + 1) + 1 /\ D = (r + j) + l
    OBVIOUS
  <1>13. PICK g \in Nat \ {0} : g = 2 ^ G /\ g = 8 * (p * one)
    <2>1. 2 ^ (i + c) = p * one
      BY <1>11, PowerOfSum
    <2>2. 2 ^ ((i + c) + 1) = 2 * 2 ^ (i + c)
      BY PowerFacts
    <2>3. 2 ^ ((i + c) + 1 + 1) = 2 * 2 ^ ((i + c) + 1)
      BY PowerFacts
    <2>4. 2 ^ (((i + c) + 1 + 1) + 1) = 2 * 2 ^ ((i + c) + 1 + 1)
      BY PowerFacts
    <2>5. 2 ^ G = 2 * (2 * (2 * (p * one)))
      BY <1>12, <2>1, <2>2, <2>3, <2>4, Zenon
    <2>6. 2 * (2 * (2 * (p * one))) = 8 * (p * one)
      OBVIOUS
    <2>7. 2 ^ G \in Nat \ {0}
      BY PowerFacts
    <2> QED
      BY <2>5, <2>6, <2>7, Zenon
  <1>14. 2 ^ D = (rp * q) * lp
    <2>1. 2 ^ (r + j) = rp * q
      BY <1>5, <1>11, PowerOfSum
    <2>2. 2 ^ ((r + j) + l) = 2 ^ (r + j) * 2 ^ l
      BY PowerOfSum
    <2> QED
      BY <1>4, <1>12, <2>1, <2>2, Zenon
  <1>15. PICK n \in Nat : n = Weight(a) * One /\ n = (sa * p) * one
    <2>1. Weight(a) * One = (sa * p) * one
      BY <1>2, <1>10, <1>11, Zenon
    <2>2. (sa * p) * one \in Nat
      OBVIOUS
    <2> QED
      BY <2>1, <2>2
  <1>16. PICK d \in Nat \ {0} : d = Weight(b) /\ d = sb * q
    <2>1. Weight(b) = sb * q
      BY <1>3, <1>10, <1>11, Zenon
    <2>2. Weight(b) \in Nat \ {0}
      BY NumberFacts
    <2> QED
      BY <2>1, <2>2
  <1>17. PICK nn \in Nat : nn = n * lp
    <2>1. n * lp \in Nat
      OBVIOUS
    <2> QED
      BY <2>1
  <1>18. PICK dd \in Nat \ {0} : dd = d * lp
    <2>1. d * lp \in Nat \ {0}
      OBVIOUS
    <2> QED
      BY <2>1
  <1>19. dd = t * 2 ^ D
    <2>1. ((t * rp) * q) * lp = t * ((rp * q) * lp)
      OBVIOUS
    <2> QED
      BY <1>5, <1>14, <1>16, <1>18, <2>1, Zenon
  <1>20. 8 * nn = x * g
    <2>1. 8 * (((sa * p) * one) * lp) = (sa * lp) * (8 * (p * one))
      OBVIOUS
    <2> QED
      BY <1>6, <1>13, <1>15, <1>17, <2>1, Zenon
  <1>21. sig * (t * g) <= 8 * nn /\ 8 * nn < (sig + 1) * (t * g)
    <2>1. PICK u \in Int, v \in Int : u = sig * t /\ v = (sig + 1) * t
      <3>1. sig * t \in Int /\ (sig + 1) * t \in Int
        OBVIOUS
      <3> QED
        BY <3>1
    <2>2. u * g <= x * g /\ x * g < v * g
      <3>1. u <= x /\ x < v
        BY <1>8, <2>1, Zenon
      <3>2. x \in Int
        OBVIOUS
      <3> QED
        BY <3>1, <3>2, Scaling
    <2>3. (sig * t) * g = sig * (t * g) /\ ((sig + 1) * t) * g = (sig + 1) * (t * g)
      OBVIOUS
    <2> QED
      BY <1>20, <2>1, <2>2, <2>3, Zenon
  <1>22. PICK exp \in Int : /\ exp = Scale(a) - Scale(b) + Bias - (left + right - FracBits - 3)
                            /\ exp = G + 1 - D
    <2>1. ea - eb + o - (l + r - f - 3) \in Int
      OBVIOUS
    <2>2. ea - eb + o - (l + r - f - 3) = G + 1 - D
      BY <1>1, <1>10, <1>12
    <2> QED
      BY <1>1, <1>2, <1>3, <1>4, <1>5, <2>1, <2>2
  <1>23. Computed(sig, exp, nn, dd, t, D, G)
    BY <1>13, <1>19, <1>21, <1>22, Zenon DEF Computed
  <1>24. Answers(Normalize(sign, exp, sig), Rounded(sign, nn, dd, 1))
    BY <1>9, <1>23, LongIsRounded
  <1>25. Rounded(sign, nn, dd, 1) = Rounded(sign, n, d, 1)
    <2>1. 1 \in Nat
      OBVIOUS
    <2>2. Rounded(sign, n * lp, d * lp, 1) = Rounded(sign, n, d, 1)
      BY <2>1, RoundedOfRatio
    <2> QED
      BY <1>17, <1>18, <2>2, Zenon
  <1>26. sig = (Significand(a) * 2 ^ left) \div (Significand(b) \div 2 ^ right)
    BY <1>2, <1>3, <1>4, <1>5, <1>6, <1>7, Zenon
  <1> QED
    BY <1>15, <1>16, <1>22, <1>24, <1>25, <1>26, Zenon

LEMMA RatioCases ==
  ASSUME NEW x, NEW y, NEW s, s = Xor(x.sign, y.sign)
  PROVE  /\ IsNaN(x) /\ ~IsInf(x) /\ x \notin Finite => Ratio(x, y) = {NaN(1)}
         /\ IsNaN(y) /\ ~IsInf(y) /\ y \notin Finite => Ratio(x, y) = {NaN(1)}
         /\ IsInf(x) /\ IsInf(y) /\ x \notin Finite /\ y \notin Finite => Ratio(x, y) = {NaN(1)}
         /\ IsZero(x) /\ IsZero(y) /\ ~IsInf(x) /\ ~IsInf(y) => Ratio(x, y) = {NaN(1)}
         /\ ~IsNaN(x) /\ ~IsNaN(y)
            => /\ IsInf(x) /\ ~IsInf(y) /\ x \notin Finite /\ ~IsZero(x) /\ y \in Finite
                    => Ratio(x, y) = {Inf(s)}
               /\ ~IsInf(x) /\ IsInf(y) /\ x \in Finite /\ ~IsZero(y) /\ y \notin Finite
                    => Ratio(x, y) = {Zero(s)}
               /\ ~IsInf(x) /\ ~IsInf(y) /\ x \in Finite /\ y \in Finite /\ ~(IsZero(x) /\ IsZero(y))
                    => Ratio(x, y) = IF IsZero(y) THEN {Inf(s)} ELSE IF IsZero(x) THEN {Zero(s)}
                                     ELSE Rounded(s, Weight(x) * One, Weight(y), 1)
  <1> DEFINE aa == IsNaN(x) \/ IsNaN(y) \/ (IsInf(x) /\ IsInf(y)) \/ (IsZero(x) /\ IsZero(y))
             bb == IsInf(x) /\ y \in Finite
             cc == x \in Finite /\ IsInf(y)
             dd == x \in Finite /\ y \in Finite /\ ~(IsZero(x) /\ IsZero(y))
             nan == {NaN(1)}
             inf == {Inf(s)}
             zero == {Zero(s)}
             rest == IF IsZero(y) THEN {Inf(s)} ELSE IF IsZero(x) THEN {Zero(s)}
                     ELSE Rounded(s, Weight(x) * One, Weight(y), 1)
             cases == CASE aa -> nan [] bb -> inf [] cc -> zero [] dd -> rest
  <1>1. Ratio(x, y) = cases
    BY Zenon DEF Ratio
  <1>2. /\ aa /\ ~bb /\ ~cc /\ ~dd => Ratio(x, y) = nan
        /\ ~aa /\ bb /\ ~cc /\ ~dd => Ratio(x, y) = inf
        /\ ~aa /\ ~bb /\ cc /\ ~dd => Ratio(x, y) = zero
        /\ ~aa /\ ~bb /\ ~cc /\ dd => Ratio(x, y) = rest
    <2> HIDE DEF aa, bb, cc, dd, nan, inf, zero, rest
    <2> QED
      BY <1>1
  <1> HIDE DEF cases, rest
  <1>3. /\ IsNaN(x) /\ ~IsInf(x) /\ x \notin Finite => Ratio(x, y) = {NaN(1)}
        /\ IsNaN(y) /\ ~IsInf(y) /\ y \notin Finite => Ratio(x, y) = {NaN(1)}
    BY <1>2, Zenon
  <1>4. /\ IsInf(x) /\ IsInf(y) /\ x \notin Finite /\ y \notin Finite => Ratio(x, y) = {NaN(1)}
        /\ IsZero(x) /\ IsZero(y) /\ ~IsInf(x) /\ ~IsInf(y) => Ratio(x, y) = {NaN(1)}
    BY <1>2, Zenon
  <1>5. ASSUME ~IsNaN(x), ~IsNaN(y)
        PROVE  /\ IsInf(x) /\ ~IsInf(y) /\ x \notin Finite /\ ~IsZero(x) /\ y \in Finite
                    => Ratio(x, y) = {Inf(s)}
               /\ ~IsInf(x) /\ IsInf(y) /\ x \in Finite /\ ~IsZero(y) /\ y \notin Finite
                    => Ratio(x, y) = {Zero(s)}
               /\ ~IsInf(x) /\ ~IsInf(y) /\ x \in Finite /\ y \in Finite /\ ~(IsZero(x) /\ IsZero(y))
                    => Ratio(x, y) = rest
    BY <1>2, <1>5, Zenon
  <1> USE DEF rest
  <1> QED
    BY <1>3, <1>4, <1>5, Zenon

LEMMA FloatDivCases ==
  ASSUME NEW a, NEW b, NEW s, s = Xor(a.sign, b.sign)
  PROVE  /\ IsDefaultNaN(a) /\ ~IsZero(a) /\ ~IsInf(a) => FloatDiv(b, a) \in {NaN(0), NaN(1)}
         /\ IsDefaultNaN(b) /\ ~IsZero(b) /\ ~IsInf(b) => FloatDiv(b, a) \in {NaN(0), NaN(1)}
         /\ ~IsDefaultNaN(a) /\ ~IsDefaultNaN(b)
            => /\ IsZero(a) /\ IsZero(b) => FloatDiv(b, a) = NaN(1)
               /\ IsInf(a) /\ IsInf(b) => FloatDiv(b, a) = NaN(1)
               /\ ~(IsZero(a) /\ IsZero(b)) /\ ~(IsInf(a) /\ IsInf(b))
                  => FloatDiv(b, a) =
                       IF IsInf(a) \/ IsZero(b) THEN Inf(s)
                       ELSE IF IsZero(a) \/ IsInf(b) THEN Zero(s)
                       ELSE Normalize(s, Scale(a) - Scale(b) + Bias
                                         - (ToTheLeft(Significand(a)) + ToTheRight(Significand(b)) - FracBits - 3),
                                      (Significand(a) * 2 ^ ToTheLeft(Significand(a)))
                                        \div (Significand(b) \div 2 ^ ToTheRight(Significand(b))))
  <1> DEFINE aa == (IsZero(a) /\ IsZero(b)) \/ (IsInf(a) /\ IsInf(b))
             bb == IsDefaultNaN(a) \/ IsDefaultNaN(b)
             nan == IF NaN(0) \in {a, b} THEN NaN(0) ELSE NaN(1)
             rest == IF IsInf(a) \/ IsZero(b) THEN Inf(s)
                     ELSE IF IsZero(a) \/ IsInf(b) THEN Zero(s)
                     ELSE Normalize(s, Scale(a) - Scale(b) + Bias
                                       - (ToTheLeft(Significand(a)) + ToTheRight(Significand(b)) - FracBits - 3),
                                    (Significand(a) * 2 ^ ToTheLeft(Significand(a)))
                                      \div (Significand(b) \div 2 ^ ToTheRight(Significand(b))))
             cases == CASE aa -> NaN(1) [] bb -> nan [] OTHER -> rest
  <1>1. FloatDiv(b, a) = cases
    BY Zenon DEF FloatDiv
  <1>2. /\ aa /\ ~bb => FloatDiv(b, a) = NaN(1)
        /\ ~aa /\ bb => FloatDiv(b, a) = nan
        /\ ~aa /\ ~bb => FloatDiv(b, a) = rest
    <2> HIDE DEF aa, bb, nan, rest
    <2> QED
      BY <1>1
  <1>3. nan \in {NaN(0), NaN(1)}
    OBVIOUS
  <1> HIDE DEF cases, rest, nan
  <1>4. /\ IsDefaultNaN(a) /\ ~IsZero(a) /\ ~IsInf(a) => FloatDiv(b, a) \in {NaN(0), NaN(1)}
        /\ IsDefaultNaN(b) /\ ~IsZero(b) /\ ~IsInf(b) => FloatDiv(b, a) \in {NaN(0), NaN(1)}
    BY <1>2, <1>3, Zenon
  <1>5. ASSUME ~IsDefaultNaN(a), ~IsDefaultNaN(b)
        PROVE  /\ IsZero(a) /\ IsZero(b) => FloatDiv(b, a) = NaN(1)
               /\ IsInf(a) /\ IsInf(b) => FloatDiv(b, a) = NaN(1)
               /\ ~(IsZero(a) /\ IsZero(b)) /\ ~(IsInf(a) /\ IsInf(b)) => FloatDiv(b, a) = rest
    BY <1>2, <1>5, Zenon
  <1> USE DEF rest
  <1> QED
    BY <1>4, <1>5, Zenon

LEMMA FloatDivAnswers ==
  ASSUME NEW a \in Numbers, NEW b \in Numbers
  PROVE  Answers(FloatDiv(b, a), Ratio(Canonical(a), Canonical(b)))
  <1>1. /\ IsZero(a) \/ a \in FiniteNonzero \/ IsInf(a) \/ IsDefaultNaN(a)
        /\ IsZero(b) \/ b \in FiniteNonzero \/ IsInf(b) \/ IsDefaultNaN(b)
    BY NumberKinds
  <1>2. IsDefaultNaN(NaN(1)) /\ IsDefaultNaN(NaN(0)) /\ 0 \in Signs /\ 1 \in Signs
    BY DEF IsDefaultNaN, Signs
  <1>3. PICK s \in Signs : s = Xor(a.sign, b.sign)
    <2>1. a.sign \in Signs /\ b.sign \in Signs
      BY DEF Numbers
    <2> QED
      BY <2>1, XorFacts
  <1>4. CASE IsDefaultNaN(a)
    <2>1. ~IsZero(a) /\ ~IsInf(a) /\ FloatDiv(b, a) \in {NaN(0), NaN(1)}
      BY <1>3, <1>4, NaNFacts, FloatDivCases, Zenon
    <2>2. Ratio(Canonical(a), Canonical(b)) = {NaN(1)}
      BY <1>2, <1>4, NaNFacts, RatioCases, Zenon
    <2> QED
      BY <1>2, <2>1, <2>2, NaNFacts DEF Answers
  <1>5. CASE IsDefaultNaN(b)
    <2>1. ~IsZero(b) /\ ~IsInf(b) /\ FloatDiv(b, a) \in {NaN(0), NaN(1)}
      BY <1>3, <1>5, NaNFacts, FloatDivCases, Zenon
    <2>2. Ratio(Canonical(a), Canonical(b)) = {NaN(1)}
      BY <1>2, <1>5, NaNFacts, RatioCases, Zenon
    <2> QED
      BY <1>2, <2>1, <2>2, NaNFacts DEF Answers
  <1>6. CASE ~IsDefaultNaN(a) /\ ~IsDefaultNaN(b)
    <2>1. Canonical(a) = a /\ ~IsNaN(a) /\ Canonical(b) = b /\ ~IsNaN(b)
      BY <1>1, <1>6, ZeroFacts, FiniteFacts, InfFacts
    <2>2. CASE IsInf(a) /\ IsInf(b)
      <3>1. FloatDiv(b, a) = NaN(1)
        BY <1>3, <1>6, <2>2, FloatDivCases, Zenon
      <3>2. Ratio(a, b) = {NaN(1)}
        BY <1>3, <2>2, InfFacts, RatioCases, Zenon
      <3> QED
        BY <1>2, <2>1, <3>1, <3>2, NaNFacts DEF Answers
    <2>3. CASE IsZero(a) /\ IsZero(b)
      <3>1. FloatDiv(b, a) = NaN(1)
        BY <1>3, <1>6, <2>3, FloatDivCases, Zenon
      <3>2. Ratio(a, b) = {NaN(1)}
        BY <1>3, <2>3, ZeroFacts, RatioCases, Zenon
      <3> QED
        BY <1>2, <2>1, <3>1, <3>2, NaNFacts DEF Answers
    <2>4. CASE IsInf(a) /\ ~IsInf(b)
      <3>1. ~IsZero(a) /\ a \notin Finite
        BY <2>4, InfFacts
      <3>2. b \in Finite
        BY <1>1, <1>6, <2>4, ZeroFacts, FiniteFacts
      <3>3. FloatDiv(b, a) = Inf(s)
        BY <1>3, <1>6, <2>4, <3>1, FloatDivCases, Zenon
      <3>4. Ratio(a, b) = {Inf(s)}
        BY <1>3, <2>1, <2>4, <3>1, <3>2, RatioCases, Zenon
      <3> QED
        BY <2>1, <3>3, <3>4, ConstantsAreNumbers DEF Answers
    <2>5. CASE ~IsInf(a) /\ IsInf(b)
      <3>1. ~IsZero(b) /\ b \notin Finite
        BY <2>5, InfFacts
      <3>2. a \in Finite
        BY <1>1, <1>6, <2>5, ZeroFacts, FiniteFacts
      <3>3. FloatDiv(b, a) = Zero(s)
        BY <1>3, <1>6, <2>5, <3>1, FloatDivCases, Zenon
      <3>4. Ratio(a, b) = {Zero(s)}
        BY <1>3, <2>1, <2>5, <3>1, <3>2, RatioCases, Zenon
      <3> QED
        BY <2>1, <3>3, <3>4, ConstantsAreNumbers DEF Answers
    <2>6. CASE ~IsInf(a) /\ ~IsInf(b) /\ ~(IsZero(a) /\ IsZero(b))
      <3>1. a \in Finite /\ b \in Finite
        BY <1>1, <1>6, <2>6, ZeroFacts, FiniteFacts
      <3>2. Ratio(a, b) = IF IsZero(b) THEN {Inf(s)} ELSE IF IsZero(a) THEN {Zero(s)}
                          ELSE Rounded(s, Weight(a) * One, Weight(b), 1)
        BY <1>3, <2>1, <2>6, <3>1, RatioCases, Zenon
      <3>3. CASE IsZero(b)
        <4>1. FloatDiv(b, a) = Inf(s)
          BY <1>3, <1>6, <2>6, <3>3, FloatDivCases, Zenon
        <4> QED
          BY <2>1, <3>2, <3>3, <4>1, ConstantsAreNumbers DEF Answers
      <3>4. CASE IsZero(a) /\ ~IsZero(b)
        <4>1. FloatDiv(b, a) = Zero(s)
          BY <1>3, <1>6, <2>6, <3>4, FloatDivCases, Zenon
        <4> QED
          BY <2>1, <3>2, <3>4, <4>1, ConstantsAreNumbers DEF Answers
      <3>5. CASE ~IsZero(a) /\ ~IsZero(b)
        <4>1. a \in FiniteNonzero /\ b \in FiniteNonzero
          BY <1>1, <1>6, <2>6, <3>5
        <4> DEFINE left == ToTheLeft(Significand(a))
                   right == ToTheRight(Significand(b))
                   z == Normalize(s, Scale(a) - Scale(b) + Bias - (left + right - FracBits - 3),
                                  (Significand(a) * 2 ^ left) \div (Significand(b) \div 2 ^ right))
        <4>2. FloatDiv(b, a) = z
          BY <1>3, <1>6, <2>6, <3>5, FloatDivCases, Zenon
        <4>3. Ratio(a, b) = Rounded(s, Weight(a) * One, Weight(b), 1)
          BY <3>2, <3>5, Zenon
        <4>4. Answers(z, Rounded(s, Weight(a) * One, Weight(b), 1))
          BY <4>1, RatioIsRounded, Zenon
        <4> QED
          BY <2>1, <4>2, <4>3, <4>4, Zenon
      <3> QED
        BY <3>3, <3>4, <3>5, Zenon
    <2> QED
      BY <2>2, <2>3, <2>4, <2>5, <2>6, Zenon
  <1> QED
    BY <1>4, <1>5, <1>6, Zenon

LEMMA WordOfNumber ==
  ASSUME NEW x \in Numbers
  PROVE  WordOf(x) \in Words /\ Number(WordOf(x)) = x
  <1>1. PICK h \in Nat \ {0}, m \in Nat, m1 \in Nat \ {0} : h = Hidden /\ m = MaxExp /\ m1 = MaxExp + 1 /\ m1 = m + 1
    <2>1. MaxExp + 1 \in Nat \ {0}
      BY FormatFacts
    <2> QED
      BY <2>1, FormatFacts
  <1>2. x \in [sign : {0, 1}, exp : 0 .. m, frac : 0 .. h - 1]
    BY <1>1 DEF Numbers, Signs
  <1>3. PICK s \in {0, 1}, e \in 0 .. m, f \in 0 .. h - 1 :
          x = [sign |-> s, exp |-> e, frac |-> f]
    BY <1>2
  <1>4. PICK k \in Nat : k = s * m1 + e /\ k <= 2 * m1 - 1
    <2>1. s * m1 \in Nat /\ s * m1 <= m1
      OBVIOUS
    <2> QED
      BY <1>1, <2>1
  <1>5. PICK w \in Nat : w = k * h + f /\ w = WordOf(x)
    <2>1. k * h + f \in Nat
      OBVIOUS
    <2>2. WordOf(x) = (s * m1 + e) * h + f
      BY <1>1, <1>3 DEF WordOf
    <2> QED
      BY <1>4, <2>1, <2>2
  <1>6. w \in Words
    <2>1. k * h <= (2 * m1 - 1) * h
      <3>1. k \in Int /\ 2 * m1 - 1 \in Int
        OBVIOUS
      <3> QED
        BY <1>4, <3>1, Scaling
    <2>2. PICK y \in Int : y = 2 * m1 * h
      OBVIOUS
    <2>3. (2 * m1 - 1) * h = 2 * m1 * h - h
      OBVIOUS
    <2>4. k * h \in Int
      OBVIOUS
    <2>5. w \in 0 .. y - 1
      BY <1>5, <2>1, <2>2, <2>3, <2>4
    <2> QED
      BY <1>1, <2>2, <2>5, Zenon DEF Words
  <1>7. w \div h = k /\ w % h = f
    <2>1. (k * Hidden + f) \div Hidden = k /\ (k * Hidden + f) % Hidden = f
      BY <1>1, RankOfParts
    <2> QED
      BY <1>1, <1>5, <2>1, Zenon
  <1>8. k % m1 = e
    <2>1. e \in 0 .. m1 - 1 /\ s \in Int
      BY <1>1
    <2>2. (m1 * s + e) % m1 = e
      BY <2>1, DivisionIsUnique, Zenon
    <2>3. m1 * s = s * m1
      OBVIOUS
    <2> QED
      BY <1>4, <2>2, <2>3, Zenon
  <1>9. w \div (m1 * h) = s
    <2>1. PICK d \in Nat \ {0} : d = m1 * h
      <3>1. m1 * h \in Nat \ {0}
        OBVIOUS
      <3> QED
        BY <3>1
    <2>2. PICK r \in Nat : r = e * h + f
      <3>1. e * h + f \in Nat
        OBVIOUS
      <3> QED
        BY <3>1
    <2>3. r \in 0 .. d - 1
      <3>1. e * h <= m * h
        <4>1. e \in Int /\ m \in Int /\ e <= m
          OBVIOUS
        <4> QED
          BY <4>1, Scaling
      <3>2. (m + 1) * h = m * h + h /\ m * h \in Int /\ e * h \in Int
        OBVIOUS
      <3>3. d = m * h + h
        BY <1>1, <2>1, <3>2, Zenon
      <3> QED
        BY <2>2, <3>1, <3>2, <3>3
    <2>4. w = d * s + r
      <3>1. (s * m1 + e) * h + f = (m1 * h) * s + (e * h + f)
        OBVIOUS
      <3> QED
        BY <1>4, <1>5, <2>1, <2>2, <3>1, Zenon
    <2>5. (d * s + r) \div d = s
      <3>1. s \in Int
        OBVIOUS
      <3> QED
        BY <2>3, <3>1, DivisionIsUnique, Zenon
    <2> QED
      BY <2>1, <2>4, <2>5, Zenon
  <1>10. Number(w) = Float(s, e, f)
    BY <1>1, <1>7, <1>8, <1>9, Zenon DEF Number
  <1> QED
    BY <1>3, <1>5, <1>6, <1>10 DEF Float

LEMMA CanonicalFacts ==
  ASSUME NEW x \in Numbers
  PROVE  /\ Canonical(x) \in Numbers /\ WordOf(Canonical(x)) \in Words
         /\ Number(WordOf(Canonical(x))) = Canonical(x)
  <1>1. Canonical(x) \in Numbers
    <2>1. IsDefaultNaN(NaN(1))
      BY DEF IsDefaultNaN
    <2> QED
      BY <2>1, NaNFacts DEF Canonical
  <1> QED
    BY <1>1, WordOfNumber

WordsOf(S) == {WordOf(z) : z \in S}

LEMMA Tables ==
  ASSUME NEW v \in Words, NEW w \in Words
  PROVE  /\ Results["add"][v][w] = WordsOf(Sum(Number(v), Number(w)))
         /\ Results["sub"][v][w] = WordsOf(Difference(Number(v), Number(w)))
         /\ Results["mul"][v][w] = WordsOf(Product(Number(v), Number(w)))
         /\ Results["div"][v][w] = WordsOf(Ratio(Number(v), Number(w)))
         /\ DOMAIN Results = {"add", "sub", "mul", "div"}
  BY DEF Results, Table, WordsOf

LEMMA ResultAnswers ==
  ASSUME NEW op \in {"add", "sub", "mul", "div"}, NEW a \in Numbers, NEW b \in Numbers
  PROVE  /\ Result(op, b, a) \in Numbers
         /\ WordOf(Canonical(Result(op, b, a)))
              \in Results[op][WordOf(Canonical(a))][WordOf(Canonical(b))]
  <1> DEFINE z == Result(op, b, a)
             v == WordOf(Canonical(a))
             w == WordOf(Canonical(b))
  <1>1. /\ v \in Words /\ Number(v) = Canonical(a)
        /\ w \in Words /\ Number(w) = Canonical(b)
    BY CanonicalFacts
  <1>2. ASSUME NEW S, Answers(z, S), Results[op][v][w] = WordsOf(S)
        PROVE  z \in Numbers /\ WordOf(Canonical(z)) \in Results[op][v][w]
    BY <1>2 DEF Answers, WordsOf
  <1> HIDE DEF v, w
  <1>3. CASE op = "add"
    <2>1. z = FloatAdd(b, a)
      BY <1>3 DEF Result
    <2>2. Answers(z, Sum(Canonical(a), Canonical(b)))
      BY <2>1, FloatAddAnswers, Zenon
    <2>3. Results[op][v][w] = WordsOf(Sum(Canonical(a), Canonical(b)))
      BY <1>1, <1>3, Tables, Zenon
    <2> HIDE DEF z
    <2> QED
      BY <1>2, <2>2, <2>3, Zenon DEF v, w, z
  <1>4. CASE op = "sub"
    <2>1. z = FloatSub(b, a)
      BY <1>4 DEF Result
    <2>2. Answers(z, Difference(Canonical(a), Canonical(b)))
      BY <2>1, FloatSubAnswers, Zenon
    <2>3. Results[op][v][w] = WordsOf(Difference(Canonical(a), Canonical(b)))
      BY <1>1, <1>4, Tables, Zenon
    <2> HIDE DEF z
    <2> QED
      BY <1>2, <2>2, <2>3, Zenon DEF v, w, z
  <1>5. CASE op = "mul"
    <2>1. z = FloatMul(b, a)
      BY <1>5 DEF Result
    <2>2. Answers(z, Product(Canonical(a), Canonical(b)))
      BY <2>1, FloatMulAnswers, Zenon
    <2>3. Results[op][v][w] = WordsOf(Product(Canonical(a), Canonical(b)))
      BY <1>1, <1>5, Tables, Zenon
    <2> HIDE DEF z
    <2> QED
      BY <1>2, <2>2, <2>3, Zenon DEF v, w, z
  <1>6. CASE op = "div"
    <2>1. z = FloatDiv(b, a)
      BY <1>6 DEF Result
    <2>2. Answers(z, Ratio(Canonical(a), Canonical(b)))
      BY <2>1, FloatDivAnswers, Zenon
    <2>3. Results[op][v][w] = WordsOf(Ratio(Canonical(a), Canonical(b)))
      BY <1>1, <1>6, Tables, Zenon
    <2> HIDE DEF z
    <2> QED
      BY <1>2, <2>2, <2>3, Zenon DEF v, w, z
  <1> QED
    BY <1>3, <1>4, <1>5, <1>6

-----------------------------------------------------------------------------
(* The ring of registers as a sequence: d numbers, the first at t.         *)

At(rs, t, i) == rs[(t + i) % NR_REG]
Contents(rs, t, d) == [i \in 1 .. d |-> WordOf(Canonical(At(rs, t, i - 1)))]
Ring(rs, t, d) == /\ rs \in [0 .. NR_REG - 1 -> Numbers]
                    /\ t \in 0 .. NR_REG - 1 /\ d \in 0 .. NR_REG

LEMMA Turn ==
  ASSUME NEW t \in 0 .. NR_REG - 1, NEW i \in 0 .. NR_REG
  PROVE  (t + i) % NR_REG = IF t + i < NR_REG THEN t + i ELSE t + i - NR_REG
  <1>1. PICK n \in Nat \ {0} : n = NR_REG
    BY FormatFacts
  <1>2. CASE t + i < n
    <2>1. n * 0 + (t + i) = t + i /\ t + i \in 0 .. n - 1
      BY <1>1, <1>2
    <2>2. (n * 0 + (t + i)) % n = t + i
      <3>1. 0 \in Int
        OBVIOUS
      <3> QED
        BY <2>1, <3>1, DivisionIsUnique, Zenon
    <2>3. (t + i) % n = t + i
      BY <2>1, <2>2, Zenon
    <2> QED
      BY <1>1, <1>2, <2>3, Zenon
  <1>3. CASE ~(t + i < n)
    <2>1. n * 1 + (t + i - n) = t + i /\ t + i - n \in 0 .. n - 1
      BY <1>1, <1>3
    <2>2. (n * 1 + (t + i - n)) % n = t + i - n
      <3>1. 1 \in Int
        OBVIOUS
      <3> QED
        BY <2>1, <3>1, DivisionIsUnique, Zenon
    <2>3. (t + i) % n = t + i - n
      BY <2>1, <2>2, Zenon
    <2> QED
      BY <1>1, <1>3, <2>3, Zenon
  <1> QED
    BY <1>2, <1>3, Zenon

LEMMA RingPlaces ==
  ASSUME NEW t \in 0 .. NR_REG - 1
  PROVE  /\ \A i \in 0 .. NR_REG : (t + i) % NR_REG \in 0 .. NR_REG - 1
         /\ \A i \in 0 .. NR_REG - 1, j \in 0 .. NR_REG - 1 :
              (t + i) % NR_REG = (t + j) % NR_REG => i = j
         /\ (t + 0) % NR_REG = t
  <1>1. PICK n \in Nat \ {0} : n = NR_REG
    BY FormatFacts
  <1>2. \A i \in 0 .. n : (t + i) % NR_REG = IF t + i < n THEN t + i ELSE t + i - n
    BY <1>1, Turn
  <1> QED
    BY <1>1, <1>2

\* two turns are one
LEMMA NextPlace ==
  ASSUME NEW t \in 0 .. NR_REG - 1, NEW u, NEW i \in 0 .. NR_REG - 1, u = (t + 1) % NR_REG
  PROVE  u \in 0 .. NR_REG - 1 /\ (u + i) % NR_REG = (t + (i + 1)) % NR_REG
  <1>1. PICK n \in Nat \ {0} : n = NR_REG
    BY FormatFacts
  <1>2. u = IF t + 1 < n THEN t + 1 ELSE t + 1 - n
    BY <1>1, Turn
  <1>3. u \in 0 .. n - 1
    BY <1>1, <1>2
  <1>4. (u + i) % NR_REG = IF u + i < n THEN u + i ELSE u + i - n
    <2>1. u \in 0 .. NR_REG - 1 /\ i \in 0 .. NR_REG
      BY <1>1, <1>3
    <2> QED
      BY <1>1, <2>1, Turn, Zenon
  <1>5. (t + (i + 1)) % NR_REG = IF t + (i + 1) < n THEN t + (i + 1) ELSE t + (i + 1) - n
    <2>1. i + 1 \in 0 .. NR_REG
      BY <1>1
    <2> QED
      BY <1>1, <2>1, Turn, Zenon
  <1> QED
    BY <1>1, <1>2, <1>3, <1>4, <1>5

LEMMA ContentsFacts ==
  ASSUME NEW rs, NEW t, NEW d, Ring(rs, t, d)
  PROVE  /\ Contents(rs, t, d) \in Seq(Words)
         /\ Len(Contents(rs, t, d)) = d
         /\ DOMAIN Contents(rs, t, d) = 1 .. d
         /\ \A i \in 0 .. d - 1 : /\ At(rs, t, i) \in Numbers
                                  /\ Contents(rs, t, d)[i + 1] = WordOf(Canonical(At(rs, t, i)))
  <1>1. PICK n \in Nat \ {0} : n = NR_REG
    BY FormatFacts
  <1>2. rs \in [0 .. n - 1 -> Numbers] /\ t \in 0 .. n - 1 /\ d \in 0 .. n /\ d \in Nat
    BY <1>1 DEF Ring
  <1>3. ASSUME NEW i \in 0 .. d - 1 PROVE At(rs, t, i) \in Numbers
    <2>1. (t + i) % NR_REG \in 0 .. n - 1
      <3>1. i \in 0 .. NR_REG /\ t \in 0 .. NR_REG - 1
        BY <1>1, <1>2
      <3> QED
        BY <1>1, <3>1, RingPlaces, Zenon
    <2> QED
      BY <1>2, <2>1 DEF At
  <1>4. ASSUME NEW i \in 1 .. d PROVE WordOf(Canonical(At(rs, t, i - 1))) \in Words
    <2>1. i - 1 \in 0 .. d - 1
      BY <1>2
    <2> QED
      BY <1>3, <2>1, CanonicalFacts
  <1>5. Contents(rs, t, d) \in [1 .. d -> Words]
    BY <1>4 DEF Contents
  <1>6. ASSUME NEW i \in 0 .. d - 1
        PROVE Contents(rs, t, d)[i + 1] = WordOf(Canonical(At(rs, t, i)))
    <2>1. i + 1 \in 1 .. d /\ (i + 1) - 1 = i
      BY <1>2
    <2> QED
      BY <2>1 DEF Contents
  <1> HIDE DEF Contents
  <1>7. Contents(rs, t, d) \in Seq(Words) /\ Len(Contents(rs, t, d)) = d
    BY <1>2, <1>5
  <1> QED
    BY <1>3, <1>5, <1>6, <1>7

\* a number is written where the k-th is
Writes(rs, t, d, k, z, r) ==
  /\ Ring(r, t, d)
  /\ Contents(r, t, d) = [Contents(rs, t, d) EXCEPT ![k + 1] = WordOf(Canonical(z))]
LEMMA Written ==
  ASSUME NEW rs, NEW t, NEW d, Ring(rs, t, d), NEW k \in 0 .. d - 1, NEW z \in Numbers
  PROVE  Writes(rs, t, d, k, z, [rs EXCEPT ![(t + k) % NR_REG] = z])
  <1> DEFINE r == [rs EXCEPT ![(t + k) % NR_REG] = z]
  <1>1. PICK n \in Nat \ {0} : n = NR_REG
    BY FormatFacts
  <1>2. rs \in [0 .. n - 1 -> Numbers] /\ t \in 0 .. n - 1 /\ d \in 0 .. n /\ d \in Nat
    BY <1>1 DEF Ring
  <1>3. PICK p \in 0 .. n - 1 : p = (t + k) % NR_REG
    <2>1. t \in 0 .. NR_REG - 1 /\ k \in 0 .. NR_REG
      BY <1>1, <1>2
    <2>2. (t + k) % NR_REG \in 0 .. n - 1
      BY <1>1, <2>1, RingPlaces, Zenon
    <2> QED
      BY <2>2
  <1>4. r \in [0 .. n - 1 -> Numbers] /\ r = [rs EXCEPT ![p] = z]
    BY <1>2, <1>3
  <1> HIDE DEF r
  <1>5. Ring(r, t, d)
    BY <1>1, <1>2, <1>4 DEF Ring
  <1>6. ASSUME NEW i \in 1 .. d
        PROVE  Contents(r, t, d)[i] = IF i = k + 1 THEN WordOf(Canonical(z)) ELSE Contents(rs, t, d)[i]
    <2>1. PICK j \in 0 .. d - 1 : i = j + 1 /\ j = i - 1
      <3>1. i - 1 \in 0 .. d - 1 /\ i = (i - 1) + 1
        BY <1>2
      <3> QED
        BY <3>1
    <2>2. Contents(r, t, d)[i] = WordOf(Canonical(At(r, t, j)))
      BY <1>5, <2>1, ContentsFacts
    <2>3. Contents(rs, t, d)[i] = WordOf(Canonical(At(rs, t, j)))
      BY <2>1, ContentsFacts
    <2>4. PICK q \in 0 .. n - 1 : q = (t + j) % NR_REG /\ (q = p => j = k)
      <3>1. /\ t \in 0 .. NR_REG - 1
            /\ j \in 0 .. NR_REG - 1 /\ j \in 0 .. NR_REG /\ k \in 0 .. NR_REG - 1
        BY <1>1, <1>2
      <3>2. (t + j) % NR_REG \in 0 .. n - 1 /\ ((t + j) % NR_REG = p => j = k)
        BY <1>1, <1>3, <3>1, RingPlaces, Zenon
      <3> QED
        BY <3>2, Zenon
    <2>5. At(r, t, j) = IF j = k THEN z ELSE At(rs, t, j)
      BY <1>2, <1>3, <1>4, <2>4 DEF At
    <2>6. i = k + 1 <=> j = k
      BY <2>1
    <2> QED
      BY <2>2, <2>3, <2>5, <2>6
  <1>7. Contents(r, t, d) = [i \in 1 .. d |-> Contents(r, t, d)[i]]
    BY DEF Contents
  <1>8. [Contents(rs, t, d) EXCEPT ![k + 1] = WordOf(Canonical(z))]
          = [i \in 1 .. d |-> IF i = k + 1 THEN WordOf(Canonical(z)) ELSE Contents(rs, t, d)[i]]
    <2>1. DOMAIN Contents(rs, t, d) = 1 .. d
      BY ContentsFacts
    <2> QED
      BY <2>1
  <1> QED
    BY <1>5, <1>6, <1>7, <1>8 DEF Writes, r

\* the first number is dropped
Drops(rs, t, d, u, e) == /\ Ring(rs, u, e)
                         /\ Contents(rs, t, d) # <<>>
                         /\ Contents(rs, u, e) = Tail(Contents(rs, t, d))
LEMMA Dropped ==
  ASSUME NEW rs, NEW t, NEW d, Ring(rs, t, d), d # 0
  PROVE  Drops(rs, t, d, (t + 1) % NR_REG, d - 1)
  <1> DEFINE u == (t + 1) % NR_REG
  <1>1. PICK n \in Nat \ {0} : n = NR_REG
    BY FormatFacts
  <1>2. rs \in [0 .. n - 1 -> Numbers] /\ t \in 0 .. n - 1 /\ d \in 1 .. n
    BY <1>1 DEF Ring
  <1>3. PICK e \in 0 .. n - 1 : e = d - 1 /\ d = e + 1
    <2>1. d - 1 \in 0 .. n - 1 /\ d = (d - 1) + 1
      BY <1>2
    <2> QED
      BY <2>1
  <1>4. u \in 0 .. n - 1
    <2>1. 0 \in 0 .. NR_REG - 1
      BY <1>1
    <2> QED
      BY <1>1, <1>2, <2>1, NextPlace
  <1> HIDE DEF u
  <1>5. Ring(rs, u, e)
    BY <1>1, <1>2, <1>4 DEF Ring
  <1> DEFINE s == Contents(rs, t, d)
             v == Contents(rs, u, e)
  <1>6. s \in Seq(Words) /\ Len(s) = d /\ v \in Seq(Words) /\ Len(v) = e
    BY <1>5, ContentsFacts
  <1>7. ASSUME NEW i \in 1 .. e PROVE v[i] = s[i + 1]
    <2>1. PICK j \in 0 .. e - 1 : i = j + 1
      <3>1. i - 1 \in 0 .. e - 1 /\ i = (i - 1) + 1
        OBVIOUS
      <3> QED
        BY <3>1
    <2>2. v[j + 1] = WordOf(Canonical(At(rs, u, j)))
      BY <1>5, ContentsFacts
    <2>3. s[(j + 1) + 1] = WordOf(Canonical(At(rs, t, j + 1)))
      <3>1. j + 1 \in 0 .. d - 1
        BY <1>3
      <3> QED
        BY <3>1, ContentsFacts
    <2>4. (u + j) % NR_REG = (t + (j + 1)) % NR_REG
      <3>1. j \in 0 .. NR_REG - 1 /\ t \in 0 .. NR_REG - 1
        BY <1>1, <1>2, <1>3
      <3> QED
        BY <3>1, NextPlace DEF u
    <2> QED
      BY <2>1, <2>2, <2>3, <2>4, Zenon DEF At
  <1> HIDE DEF s, v
  <1>8. s # <<>> /\ Len(s) # 0
    BY <1>3, <1>6
  <1>9. v = Tail(s)
    <2>1. Tail(s) \in Seq(Words) /\ Len(Tail(s)) = e /\ \A i \in 1 .. e : Tail(s)[i] = s[i + 1]
      BY <1>3, <1>6, <1>8
    <2> QED
      BY <1>6, <1>7, <2>1, SeqEqual
  <1> QED
    BY <1>3, <1>5, <1>8, <1>9, Zenon DEF s, v, u, Drops

\* a number is put before the first
Pushes(rs, t, d, r, u, e, z) == /\ Ring(r, u, e)
                                /\ Contents(r, u, e) # <<>>
                                /\ Head(Contents(r, u, e)) = WordOf(Canonical(z))
                                /\ Tail(Contents(r, u, e)) = Contents(rs, t, d)
LEMMA Pushed ==
  ASSUME NEW rs, NEW t, NEW d, Ring(rs, t, d), d < NR_REG, NEW z \in Numbers,
         NEW u, u = (IF t = 0 THEN NR_REG - 1 ELSE t - 1)
  PROVE  Pushes(rs, t, d, [rs EXCEPT ![u] = z], u, d + 1, z)
  <1> DEFINE r == [rs EXCEPT ![u] = z]
  <1>1. PICK n \in Nat \ {0} : n = NR_REG
    BY FormatFacts
  <1>2. rs \in [0 .. n - 1 -> Numbers] /\ t \in 0 .. n - 1 /\ d \in 0 .. n - 1
    BY <1>1 DEF Ring
  <1>3. u \in 0 .. n - 1 /\ t = (u + 1) % NR_REG
    <2>1. u \in 0 .. n - 1 /\ t = IF u + 1 < n THEN u + 1 ELSE u + 1 - n
      BY <1>1, <1>2
    <2>2. u \in 0 .. NR_REG - 1 /\ 1 \in 0 .. NR_REG
      BY <1>1, <2>1
    <2>3. (u + 1) % NR_REG = IF u + 1 < NR_REG THEN u + 1 ELSE u + 1 - NR_REG
      BY <2>2, Turn, Zenon
    <2> QED
      BY <1>1, <2>1, <2>3, Zenon
  <1>4. r \in [0 .. n - 1 -> Numbers] /\ r[u] = z /\ \A p \in 0 .. n - 1 : p # u => r[p] = rs[p]
    BY <1>2, <1>3
  <1> HIDE DEF r
  <1>5. PICK e \in 1 .. n : e = d + 1 /\ e - 1 = d
    <2>1. d + 1 \in 1 .. n /\ (d + 1) - 1 = d
      BY <1>2
    <2> QED
      BY <2>1
  <1>6. Ring(r, u, e) /\ Ring(r, t, d)
    BY <1>1, <1>2, <1>3, <1>4, <1>5 DEF Ring
  <1>7. Contents(r, u, e) # <<>> /\ Contents(r, t, d) = Tail(Contents(r, u, e))
    <2>1. e # 0
      OBVIOUS
    <2>2. Drops(r, u, e, (u + 1) % NR_REG, e - 1)
      BY <1>6, <2>1, Dropped, Zenon
    <2> QED
      BY <1>3, <1>5, <2>2, Zenon DEF Drops
  <1>8. Contents(r, t, d) = Contents(rs, t, d)
    <2>1. ASSUME NEW i \in 1 .. d PROVE At(r, t, i - 1) = At(rs, t, i - 1)
      <3>1. PICK j \in 0 .. d - 1 : j = i - 1
        <4>1. i - 1 \in 0 .. d - 1
          BY <1>2
        <4> QED
          BY <4>1
      <3>2. (t + j) % NR_REG = IF t + j < n THEN t + j ELSE t + j - n
        <4>1. t \in 0 .. NR_REG - 1 /\ j \in 0 .. NR_REG
          BY <1>1, <1>2
        <4> QED
          BY <1>1, <4>1, Turn, Zenon
      <3>3. PICK p \in 0 .. n - 1 : p = (t + j) % NR_REG /\ p # u
        <4>1. (t + j) % NR_REG \in 0 .. n - 1 /\ (t + j) % NR_REG # u
          BY <1>1, <1>2, <3>2
        <4> QED
          BY <4>1
      <3>4. r[p] = rs[p]
        BY <1>4, <3>3
      <3> QED
        BY <3>1, <3>3, <3>4, Zenon DEF At
    <2> QED
      BY <2>1 DEF Contents
  <1>9. Head(Contents(r, u, e)) = WordOf(Canonical(z))
    <2>1. (u + 0) % NR_REG = u
      <3>1. u \in 0 .. NR_REG - 1
        BY <1>1, <1>3
      <3> QED
        BY <3>1, RingPlaces
    <2>2. At(r, u, 0) = z
      BY <1>4, <2>1 DEF At
    <2>3. Contents(r, u, e)[0 + 1] = WordOf(Canonical(At(r, u, 0)))
      <3>1. 0 \in 0 .. e - 1
        OBVIOUS
      <3> QED
        BY <1>6, <3>1, ContentsFacts
    <2>4. Contents(r, u, e) \in Seq(Words)
      BY <1>6, ContentsFacts
    <2> HIDE DEF Contents
    <2> QED
      BY <2>2, <2>3, <2>4
  <1> QED
    BY <1>5, <1>6, <1>7, <1>8, <1>9, Zenon DEF Pushes, r

-----------------------------------------------------------------------------
(* The steps of the FPU.                                                   *)

LEMMA RingOfFpu ==
  /\ FpuTypeOK <=> Ring(regStack, top, depth)
  /\ Numerals = Contents(regStack, top, depth)
  /\ \A i : St(i) = At(regStack, top, i)
  BY Zenon DEF FpuTypeOK, Ring, Numerals, Contents, St, Reg, At

LEMMA RingOfFpuNext ==
  /\ FpuTypeOK' <=> Ring(regStack', top', depth')
  /\ Numerals' = Contents(regStack', top', depth')
  BY Zenon DEF FpuTypeOK, Ring, Numerals, Contents, St, Reg, At

LEMMA FpuStarts ==
  ASSUME FpuInit
  PROVE  FpuTypeOK /\ Stack!Init
  <1>1. PICK n \in Nat \ {0} : n = NR_REG
    BY FormatFacts
  <1>2. Zero(0) \in Numbers
    BY ConstantsAreNumbers DEF Signs
  <1>3. FpuTypeOK
    BY <1>1, <1>2 DEF FpuInit, FpuTypeOK
  <1>4. Numerals = <<>>
    <2>1. Ring(regStack, top, depth) /\ depth = 0
      BY <1>3, RingOfFpu DEF FpuInit
    <2>2. Contents(regStack, top, depth) \in Seq(Words) /\ Len(Contents(regStack, top, depth)) = 0
      BY <2>1, ContentsFacts
    <2> QED
      BY <2>2, RingOfFpu
  <1> QED
    BY <1>3, <1>4 DEF Stack!Init

LEMMA Keeps ==
  ASSUME FpuTypeOK, NEW rs, Ring(rs, top, depth), Kept(rs)
  PROVE  FpuTypeOK' /\ Numerals' = Contents(rs, top, depth)
  BY RingOfFpuNext DEF Kept

LEMMA Pops ==
  ASSUME FpuTypeOK, NEW rs, Ring(rs, top, depth), depth # 0, Popped(rs)
  PROVE  FpuTypeOK' /\ Numerals' = Tail(Contents(rs, top, depth))
  <1>1. regStack' = rs /\ top' = (top + 1) % NR_REG /\ depth' = depth - 1
    BY DEF Popped
  <1>2. Ring(rs, top', depth - 1) /\ Contents(rs, top', depth - 1) = Tail(Contents(rs, top, depth))
    BY <1>1, Dropped DEF Drops
  <1> QED
    BY <1>1, <1>2, RingOfFpuNext, Zenon

LEMMA LoadSteps ==
  ASSUME FpuTypeOK, NEW v \in Loads, Load(v)
  PROVE  FpuTypeOK' /\ Stack!Push
  <1>1. v \in Numbers
    BY LoadsAssumption
  <1>2. Ring(regStack, top, depth) /\ depth < NR_REG
    BY RingOfFpu DEF Load
  <1>3. /\ top' = (IF top = 0 THEN NR_REG - 1 ELSE top - 1)
        /\ regStack' = [regStack EXCEPT ![top'] = v] /\ depth' = depth + 1
    BY DEF Load
  <1>4. Pushes(regStack, top, depth, regStack', top', depth + 1, v)
    BY <1>1, <1>2, <1>3, Pushed
  <1>5. Len(Numerals) < NR_REG
    BY <1>2, ContentsFacts, RingOfFpu
  <1>6. WordOf(Canonical(v)) \in LoadNumerals
    BY DEF LoadNumerals
  <1> QED
    BY <1>3, <1>4, <1>5, <1>6, RingOfFpu, RingOfFpuNext, Zenon DEF Stack!Push, Pushes

LEMMA StoreSteps ==
  ASSUME FpuTypeOK, Store
  PROVE  FpuTypeOK' /\ Stack!Pop
  <1>1. Ring(regStack, top, depth) /\ depth # 0 /\ Popped(regStack)
    BY RingOfFpu DEF Store
  <1>2. FpuTypeOK' /\ Numerals' = Tail(Numerals)
    BY <1>1, Pops, RingOfFpu
  <1>3. Numerals # <<>>
    BY <1>1, Dropped, RingOfFpu DEF Drops
  <1> QED
    BY <1>2, <1>3 DEF Stack!Pop

LEMMA OperateSteps ==
  ASSUME FpuTypeOK, NEW op \in {"add", "sub", "mul", "div"}, NEW v \in Loads, Operate(op, v)
  PROVE  FpuTypeOK' /\ Stack!Operate
  <1> DEFINE z == Result(op, v, St(0))
             s == Contents(regStack, top, depth)
             r == [regStack EXCEPT ![top] = z]
  <1>1. Ring(regStack, top, depth) /\ depth \in Nat \ {0} /\ 0 \in 0 .. depth - 1
    <2>1. PICK n \in Nat : n = NR_REG
      BY FormatFacts
    <2> QED
      BY <2>1, RingOfFpu DEF Operate, FpuTypeOK
  <1>2. v \in Numbers /\ At(regStack, top, 0) \in Numbers
    BY <1>1, LoadsAssumption, ContentsFacts
  <1>3. St(0) = At(regStack, top, 0) /\ (top + 0) % NR_REG = top
    BY RingOfFpu, RingPlaces DEF FpuTypeOK
  <1>4. /\ z \in Numbers
        /\ WordOf(Canonical(z)) \in Results[op][WordOf(Canonical(St(0)))][WordOf(Canonical(v))]
    BY <1>2, <1>3, ResultAnswers
  <1>5. Kept(r)
    BY DEF Operate
  <1> HIDE DEF z
  <1>6. Ring(r, top, depth) /\ Contents(r, top, depth) = [s EXCEPT ![0 + 1] = WordOf(Canonical(z))]
    <2>1. r = [regStack EXCEPT ![(top + 0) % NR_REG] = z]
      BY <1>3, Zenon
    <2> QED
      BY <1>1, <1>4, <2>1, Written DEF Writes
  <1>7. FpuTypeOK' /\ Numerals' = [s EXCEPT ![1] = WordOf(Canonical(z))]
    <2>1. 0 + 1 = 1
      OBVIOUS
    <2> QED
      BY <1>5, <1>6, <2>1, Keeps, Zenon
  <1>8. s \in Seq(Words) /\ Len(s) = depth /\ s[1] = WordOf(Canonical(St(0)))
    <2>1. s[0 + 1] = WordOf(Canonical(At(regStack, top, 0)))
      BY <1>1, ContentsFacts
    <2> QED
      BY <1>1, <1>3, <2>1, ContentsFacts
  <1>9. WordOf(Canonical(z)) \in Words
    BY <1>4, CanonicalFacts
  <1> HIDE DEF s
  <1> DEFINE w == WordOf(Canonical(z))
  <1> HIDE DEF w
  <1>10. [s EXCEPT ![1] = w] \in Seq(Words) /\ Len([s EXCEPT ![1] = w]) = depth
    BY <1>1, <1>8, <1>9 DEF w
  <1>11. /\ s # <<>> /\ [s EXCEPT ![1] = w] # <<>>
         /\ Head([s EXCEPT ![1] = w]) = w /\ Head(s) = s[1]
    BY <1>1, <1>8, <1>10
  <1>12. Tail([s EXCEPT ![1] = w]) = Tail(s)
    <2> DEFINE x == [s EXCEPT ![1] = w]
    <2>1. \A i \in 2 .. depth : x[i] = s[i]
      BY <1>8
    <2> HIDE DEF x
    <2>2. /\ Tail(s) \in Seq(Words) /\ Len(Tail(s)) = depth - 1
          /\ \A i \in 1 .. depth - 1 : Tail(s)[i] = s[i + 1]
      BY <1>1, <1>8, <1>11
    <2>3. /\ Tail(x) \in Seq(Words) /\ Len(Tail(x)) = depth - 1
          /\ \A i \in 1 .. depth - 1 : Tail(x)[i] = x[i + 1]
      BY <1>1, <1>10, <1>11 DEF x
    <2>4. \A i \in 1 .. depth - 1 : Tail(x)[i] = Tail(s)[i]
      BY <1>1, <2>1, <2>2, <2>3
    <2>5. Tail(x) = Tail(s)
      BY <2>2, <2>3, <2>4, SeqEqual
    <2> QED
      BY <2>5 DEF x
  <1>13. WordOf(Canonical(v)) \in LoadNumerals
    BY DEF LoadNumerals
  <1>14. op \in DOMAIN Results
    BY DEF Results
  <1>15. Numerals = s /\ Numerals' = [s EXCEPT ![1] = w]
    BY <1>7, RingOfFpu DEF s, w
  <1>16. w \in Results[op][Head(s)][WordOf(Canonical(v))]
    BY <1>4, <1>8, <1>11 DEF w
  <1>17. Stack!Operate
    BY <1>11, <1>12, <1>13, <1>14, <1>15, <1>16, Zenon DEF Stack!Operate
  <1> QED
    BY <1>7, <1>17

(* What is within the stack: the i-th number is written, and perhaps the   *)
(* first one dropped.                                                      *)
LEMMA Within ==
  ASSUME FpuTypeOK, NEW idx \in 0 .. depth - 1
  PROVE  /\ St(idx) \in Numbers /\ St(0) \in Numbers
         /\ idx + 1 \in DOMAIN Numerals /\ 1 \in DOMAIN Numerals
         /\ Numerals[1] = WordOf(Canonical(St(0))) /\ Numerals[idx + 1] = WordOf(Canonical(St(idx)))
         /\ Reg(0) = top /\ depth # 0 /\ 0 \in 0 .. depth - 1
  <1>1. Ring(regStack, top, depth) /\ depth \in Nat /\ depth # 0 /\ 0 \in 0 .. depth - 1 /\ 0 + 1 = 1
    <2>1. PICK n \in Nat : n = NR_REG
      BY FormatFacts
    <2> QED
      BY <2>1, RingOfFpu DEF FpuTypeOK
  <1>2. /\ DOMAIN Numerals = 1 .. depth
        /\ At(regStack, top, idx) \in Numbers /\ At(regStack, top, 0) \in Numbers
        /\ Numerals[idx + 1] = WordOf(Canonical(At(regStack, top, idx)))
        /\ Numerals[0 + 1] = WordOf(Canonical(At(regStack, top, 0)))
    BY <1>1, ContentsFacts, RingOfFpu
  <1>3. Reg(0) = top
    BY RingPlaces DEF FpuTypeOK, Reg
  <1>4. idx + 1 \in 1 .. depth /\ 1 \in 1 .. depth
    BY <1>1
  <1> QED
    BY <1>1, <1>2, <1>3, <1>4, RingOfFpu, Zenon

LEMMA WrittenWithin ==
  ASSUME FpuTypeOK, NEW k \in 0 .. depth - 1, NEW z \in Numbers,
         NEW r, r = [regStack EXCEPT ![Reg(k)] = z]
  PROVE  Ring(r, top, depth) /\ Contents(r, top, depth) = [Numerals EXCEPT ![k + 1] = WordOf(Canonical(z))]
  <1>1. Ring(regStack, top, depth) /\ r = [regStack EXCEPT ![(top + k) % NR_REG] = z]
    BY RingOfFpu, Zenon DEF Reg
  <1>2. Writes(regStack, top, depth, k, z, [regStack EXCEPT ![(top + k) % NR_REG] = z])
    BY <1>1, Written
  <1> QED
    BY <1>1, <1>2, RingOfFpu, Zenon DEF Writes

LEMMA OperateIdxSteps ==
  ASSUME FpuTypeOK, NEW idx \in 0 .. depth - 1, NEW op \in {"add", "mul"}, NEW store_idx \in {0, idx},
         OperateIdx(op, idx, store_idx)
  PROVE  FpuTypeOK' /\ Stack!OperateWithin(op, idx + 1, store_idx + 1)
  <1> DEFINE z == Result(op, St(idx), St(0))
             r == [regStack EXCEPT ![Reg(store_idx)] = z]
  <1>1. z \in Numbers /\ WordOf(Canonical(z)) \in Results[op][Numerals[1]][Numerals[idx + 1]]
    <2>1. op \in {"add", "sub", "mul", "div"}
      OBVIOUS
    <2> QED
      BY <2>1, Within, ResultAnswers
  <1>2. store_idx \in 0 .. depth - 1
    BY Within
  <1> HIDE DEF z
  <1>3. Ring(r, top, depth)
        /\ Contents(r, top, depth) = [Numerals EXCEPT ![store_idx + 1] = WordOf(Canonical(z))]
    BY <1>1, <1>2, WrittenWithin
  <1>4. Kept(r)
    BY Zenon DEF OperateIdx, z
  <1>5. FpuTypeOK' /\ Numerals' = [Numerals EXCEPT ![store_idx + 1] = WordOf(Canonical(z))]
    BY <1>3, <1>4, Keeps, Zenon
  <1> QED
    BY <1>1, <1>5, Zenon DEF Stack!OperateWithin

LEMMA FAddPSteps ==
  ASSUME FpuTypeOK, NEW idx \in 0 .. depth - 1, FAddP(idx)
  PROVE  FpuTypeOK' /\ Stack!AddAndPop(idx + 1)
  <1> DEFINE z == FloatAdd(St(idx), St(0))
             r == [regStack EXCEPT ![Reg(idx)] = z]
  <1>1. z \in Numbers /\ WordOf(Canonical(z)) \in Results["add"][Numerals[1]][Numerals[idx + 1]]
    <2>1. "add" \in {"add", "sub", "mul", "div"}
      OBVIOUS
    <2>2. Result("add", St(idx), St(0)) = z
      BY DEF Result
    <2> HIDE DEF z
    <2> QED
      BY <2>1, <2>2, Within, ResultAnswers
  <1> HIDE DEF z
  <1>2. Ring(r, top, depth) /\ Contents(r, top, depth) = [Numerals EXCEPT ![idx + 1] = WordOf(Canonical(z))]
    BY <1>1, WrittenWithin
  <1>3. Popped(r) /\ depth # 0
    BY Within, Zenon DEF FAddP, z
  <1>4. FpuTypeOK' /\ Numerals' = Tail([Numerals EXCEPT ![idx + 1] = WordOf(Canonical(z))])
    BY <1>2, <1>3, Pops, Zenon
  <1> QED
    BY <1>1, <1>4, Zenon DEF Stack!AddAndPop

LEMMA CopySteps ==
  ASSUME FpuTypeOK, NEW idx \in 0 .. depth - 1
  PROVE  /\ Kept(Copied(idx)) => FpuTypeOK' /\ Stack!Copy(idx + 1)
         /\ Popped(Copied(idx)) => FpuTypeOK' /\ Stack!CopyAndPop(idx + 1)
  <1> DEFINE r == Copied(idx)
  <1>1. Ring(r, top, depth) /\ Contents(r, top, depth) = [Numerals EXCEPT ![idx + 1] = Numerals[1]]
    <2>1. St(0) \in Numbers /\ Numerals[1] = WordOf(Canonical(St(0)))
      BY Within
    <2>2. r = [regStack EXCEPT ![Reg(idx)] = St(0)]
      BY Zenon DEF Copied
    <2> HIDE DEF r
    <2> QED
      BY <2>1, <2>2, WrittenWithin
  <1>2. depth # 0
    BY Within
  <1> HIDE DEF r
  <1>3. ASSUME Kept(r) PROVE FpuTypeOK' /\ Stack!Copy(idx + 1)
    BY <1>1, <1>3, Keeps, Zenon DEF Stack!Copy
  <1>4. ASSUME Popped(r) PROVE FpuTypeOK' /\ Stack!CopyAndPop(idx + 1)
    BY <1>1, <1>2, <1>4, Pops, Zenon DEF Stack!CopyAndPop
  <1> QED
    BY <1>3, <1>4 DEF r

LEMMA XchSteps ==
  ASSUME FpuTypeOK, NEW idx \in 0 .. depth - 1, Xch(idx)
  PROVE  FpuTypeOK' /\ Stack!Exchange(idx + 1)
  <1> DEFINE q == [regStack EXCEPT ![Reg(0)] = St(idx)]
             r == [q EXCEPT ![Reg(idx)] = St(0)]
  <1>1. /\ St(idx) \in Numbers /\ St(0) \in Numbers /\ Reg(0) = top /\ 0 \in 0 .. depth - 1
        /\ Numerals[1] = WordOf(Canonical(St(0))) /\ Numerals[idx + 1] = WordOf(Canonical(St(idx)))
    BY Within
  <1>2. Ring(q, top, depth) /\ Contents(q, top, depth) = [Numerals EXCEPT ![1] = Numerals[idx + 1]]
    <2>1. 0 + 1 = 1
      OBVIOUS
    <2>2. Ring(q, top, depth) /\ Contents(q, top, depth) = [Numerals EXCEPT ![0 + 1] = WordOf(Canonical(St(idx)))]
      BY <1>1, WrittenWithin
    <2> QED
      BY <1>1, <2>1, <2>2, Zenon
  <1> HIDE DEF q
  <1>3. Ring(r, top, depth)
        /\ Contents(r, top, depth) = [Contents(q, top, depth) EXCEPT ![idx + 1] = Numerals[1]]
    <2>1. r = [q EXCEPT ![(top + idx) % NR_REG] = St(0)]
      BY Zenon DEF Reg
    <2> HIDE DEF r
    <2>3. St(0) \in Numbers
      BY <1>1
    <2>2. Ring(r, top, depth)
          /\ Contents(r, top, depth) = [Contents(q, top, depth) EXCEPT ![idx + 1] = WordOf(Canonical(St(0)))]
      <3>1. Writes(q, top, depth, idx, St(0), [q EXCEPT ![(top + idx) % NR_REG] = St(0)])
        BY <1>2, <2>3, Written
      <3> QED
        BY <2>1, <3>1, Zenon DEF Writes
    <2> QED
      BY <1>1, <2>2, Zenon
  <1>4. Kept(r)
    <2>1. r = [regStack EXCEPT ![top] = St(idx), ![Reg(idx)] = St(0)]
      BY <1>1 DEF q
    <2> HIDE DEF r
    <2> QED
      BY <2>1, Zenon DEF Xch
  <1>5. FpuTypeOK' /\ Numerals' = [[Numerals EXCEPT ![1] = Numerals[idx + 1]] EXCEPT ![idx + 1] = Numerals[1]]
    BY <1>2, <1>3, <1>4, Keeps, Zenon
  <1> QED
    BY <1>5 DEF Stack!Exchange

LEMMA FpuSteps ==
  ASSUME FpuTypeOK, FpuNext
  PROVE  FpuTypeOK' /\ Stack!Next
  <1> DEFINE Goal == FpuTypeOK' /\ Stack!Next
  <1>1. ASSUME Store PROVE Goal
    BY <1>1, StoreSteps, Zenon DEF Stack!Next
  <1>2. ASSUME NEW v \in Loads, Load(v) PROVE Goal
    BY <1>2, LoadSteps, Zenon DEF Stack!Next
  <1>3. ASSUME NEW v \in Loads, NEW op \in {"add", "sub", "mul", "div"}, Operate(op, v) PROVE Goal
    BY <1>3, OperateSteps, Zenon DEF Stack!Next
  <1>4. ASSUME NEW idx \in 0 .. depth - 1,
               \/ FAddP(idx) \/ Xch(idx) \/ Kept(Copied(idx)) \/ Popped(Copied(idx))
               \/ \E op \in {"add", "mul"}, store_idx \in {0, idx} : OperateIdx(op, idx, store_idx)
        PROVE  Goal
    <2>1. idx + 1 \in DOMAIN Numerals
      BY Within
    <2>2. CASE FAddP(idx)
      BY <2>1, <2>2, FAddPSteps, Zenon DEF Stack!Next
    <2>3. CASE Xch(idx)
      BY <2>1, <2>3, XchSteps, Zenon DEF Stack!Next
    <2>4. CASE Kept(Copied(idx))
      BY <2>1, <2>4, CopySteps, Zenon DEF Stack!Next
    <2>5. CASE Popped(Copied(idx))
      BY <2>1, <2>5, CopySteps, Zenon DEF Stack!Next
    <2>6. ASSUME NEW op \in {"add", "mul"}, NEW store_idx \in {0, idx}, OperateIdx(op, idx, store_idx)
          PROVE  Goal
      <3>1. store_idx + 1 \in {1, idx + 1}
        OBVIOUS
      <3>2. FpuTypeOK' /\ Stack!OperateWithin(op, idx + 1, store_idx + 1)
        BY <2>6, OperateIdxSteps
      <3> QED
        BY <2>1, <3>1, <3>2, Zenon DEF Stack!Next
    <2> HIDE DEF Goal
    <2> QED
      BY <1>4, <2>2, <2>3, <2>4, <2>5, <2>6, Zenon
  <1> HIDE DEF Goal
  <1>5. ASSUME NEW v \in Loads, Load(v) \/ \E op \in {"add", "sub", "mul", "div"} : Operate(op, v)
        PROVE  Goal
    BY <1>2, <1>3, <1>5, Zenon
  <1>6. Goal
    BY <1>1, <1>4, <1>5, Zenon DEF FpuNext
  <1> QED
    BY <1>6 DEF Goal

-----------------------------------------------------------------------------
(* What the FPU computes is what the table of IEEE 754 has, whatever the   *)
(* widths of exponent and fraction and however many registers.             *)

(* The registers of the FPU hold numbers of the format, and no other NaNs  *)
(* than the two that the code knows, whatever is computed with them.       *)
THEOREM FpuTypes == CpuSpec => []FpuTypeOK
  <1>1. CpuInit => FpuTypeOK
    BY FpuStarts DEF CpuInit
  <1>2. FpuTypeOK /\ [AluStep \/ FpuStep]_<<alu, fpu, unit>> => FpuTypeOK'
    <2> SUFFICES ASSUME FpuTypeOK, [AluStep \/ FpuStep]_<<alu, fpu, unit>> PROVE FpuTypeOK'
      OBVIOUS
    <2>1. CASE FpuNext
      BY <2>1, FpuSteps
    <2>2. CASE UNCHANGED fpu
      BY <2>2 DEF fpu, FpuTypeOK
    <2> QED
      BY <2>1, <2>2 DEF AluStep, FpuStep
  <1> QED
    BY <1>1, <1>2, PTL DEF CpuSpec

(* Every instruction of the FPU does to the numbers on the stack what a    *)
(* program expects: the operand and the result are where they belong, and  *)
(* the result is the exact one rounded to the nearest number, with the     *)
(* signs and exceptions of IEEE 754.                                       *)
THEOREM FloatsImplemented == CpuSpec => ImplementsFloatStack
  <1>1. CpuInit => Stack!Init
    BY FpuStarts DEF CpuInit
  <1>2. FpuTypeOK /\ [AluStep \/ FpuStep]_<<alu, fpu, unit>> => [Stack!Next]_Numerals
    <2> SUFFICES ASSUME FpuTypeOK, [AluStep \/ FpuStep]_<<alu, fpu, unit>>
                 PROVE  [Stack!Next]_Numerals
      OBVIOUS
    <2>1. CASE FpuNext
      BY <2>1, FpuSteps
    <2>2. CASE UNCHANGED fpu
      BY <2>2 DEF fpu, Numerals, St, Reg
    <2> QED
      BY <2>1, <2>2 DEF AluStep, FpuStep
  <1>3. CpuSpec => []FpuTypeOK
    BY FpuTypes
  <1> QED
    BY <1>1, <1>2, <1>3, PTL DEF CpuSpec, ImplementsFloatStack, Stack!Spec
=============================================================================
