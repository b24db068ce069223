-------------------------------- MODULE Fpu --------------------------------
(***************************************************************************)
(* The FPU of nemu/src/cpu/fpu.c: four operations computed with integers,  *)
(* and a stack kept in a ring of registers.  A significand carries three   *)
(* bits below the fraction, guard, round and sticky; internal_normalize()  *)
(* brings it to its place and rounds it.                                   *)
(*                                                                         *)
(* FloatStack says what programs expect.  The code does not know how many  *)
(* numbers are on the stack: depth is a history variable, and a program    *)
(* that pushes more than there are registers or pops more than it has      *)
(* pushed is left out.                                                     *)
(***************************************************************************)
EXTENDS Ieee754, Sequences      \* ExpBits and FracBits are 8 and 23

CONSTANTS Loads,                \* the numbers in memory
          NR_REG,               \* 8
          DividendBits          \* 64

(* A dividend is long enough for a quotient of all bits of the fraction,   *)
(* the three below them, and one.  A program has no other NaNs than the    *)
(* two the code knows.                                                     *)
ASSUME FormatAssumption == /\ ExpBits \in Nat /\ ExpBits >= 2
                           /\ FracBits \in Nat \ {0} /\ NR_REG \in Nat \ {0}
                           /\ DividendBits \in Nat /\ DividendBits >= 2 * FracBits + 6

VARIABLES regStack,     \* fpu.regStack
          top,          \* fpu.status.top
          depth         \* history: how many numbers are on the stack

fpu == <<regStack, top, depth>>

Normal == 8 * Hidden    \* the hidden 1 above the GRS bits
IsDefaultNaN(x) == x \in {NaN(0), NaN(1)}          \* P_NAN_F, N_NAN_F
Numbers == {x \in [sign : Signs, exp : 0 .. MaxExp, frac : 0 .. Hidden - 1] :
              IsNaN(x) => IsDefaultNaN(x)}

ASSUME LoadsAssumption == Loads \subseteq Numbers
-----------------------------------------------------------------------------
(* internal_normalize().  A loop makes so many turns as its condition     *)
(* holds at, and what is shifted in them is shifted at once.               *)

\* Mutant: what drops out is forgotten
SqueezeDry(sig, n) == sig \div 2 ^ n

\* n places to the right; a 1 that drops out stays in the sticky bit
Squeeze(sig, n) == LET q == sig \div 2 ^ n
                   IN  IF sig % 2 ^ n # 0 /\ q % 2 = 0 THEN q + 1 ELSE q

TooLong(exp, sig) == (sig \div Normal > 1 /\ exp < MaxExp) \/ (sig > 4 /\ exp < 0)
Right(exp, sig) ==
  LET turns == CHOOSE n \in 0 .. sig : /\ ~TooLong(exp + n, Squeeze(sig, n))
                                       /\ \A k \in 0 .. n - 1 : TooLong(exp + k, Squeeze(sig, k))
  IN  <<exp + turns, Squeeze(sig, turns)>>

TooShort(exp, sig) == sig < Normal /\ exp > 0
Left(exp, sig) ==
  LET turns == CHOOSE n \in 0 .. exp : /\ ~TooShort(exp - n, sig * 2 ^ n)
                                       /\ \A k \in 0 .. n - 1 : TooShort(exp - k, sig * 2 ^ k)
  IN  <<exp - turns, sig * 2 ^ turns>>

\* to the nearest, to the even one in the middle; a carry out of the
\* fraction of a normal number moves the exponent
Round(exp, sig) ==
  LET grs == sig % 8
      up == grs > 4 \/ (grs = 4 /\ (sig \div 8) % 2 = 1)
      rounded == sig \div 8 + (IF up THEN 1 ELSE 0)
  IN  IF up /\ rounded \div Hidden > 1
      THEN <<exp + 1, IF exp + 1 = MaxExp THEN 0 ELSE (rounded \div 2) % Hidden>>
      ELSE <<exp, rounded % Hidden>>

Denormal(exp, sig) == IF exp = 0 THEN Squeeze(sig, 1) ELSE sig

Normalize(sign, exp, sig) ==
  LET right == Right(exp, sig)
      left == Left(exp, sig)
      out == CASE sig \div Normal > 1 \/ exp < 0 ->
                    IF right[1] >= MaxExp THEN <<MaxExp, 0>>
                    ELSE IF right[1] < 0 THEN <<0, 0>>
                    ELSE Round(right[1], Denormal(right[1], right[2]))
               [] sig < Normal /\ exp > 0 -> Round(left[1], Denormal(left[1], left[2]))
               [] sig \div Normal = 1 /\ exp = 0 -> Round(1, sig)
               [] (sig \div Normal = 1 /\ exp > 0) \/ (sig < Normal /\ exp = 0) -> Round(exp, sig)
  IN  Float(sign, out[1], out[2])
-----------------------------------------------------------------------------
(* internal_float_add(), _sub(), _mul() and _div().  The tables of corner  *)
(* cases are told by what they say, in the order in which they are tried.  *)

Significand(x) == IF x.exp = 0 THEN x.frac ELSE Hidden + x.frac

FloatAdd(b, a) ==
  CASE IsZero(a) /\ IsZero(b) -> Zero(IF a.sign = b.sign THEN a.sign ELSE 0)
    [] IsInf(a) /\ IsInf(b) /\ a.sign # b.sign -> NaN(1)
    [] IsInf(a) /\ IsDefaultNaN(b) -> b
    [] a = NaN(1) /\ b = NaN(0) -> NaN(0)
    [] OTHER ->
       IF IsZero(a) THEN b
       ELSE IF IsZero(b) THEN a
       ELSE IF a.exp = MaxExp THEN a
       ELSE IF b.exp = MaxExp THEN b
       ELSE LET lo == IF a.exp > b.exp THEN b ELSE a
                hi == IF a.exp > b.exp THEN a ELSE b
                shift == hi.exp - lo.exp - (IF lo.exp = 0 /\ hi.exp # 0 THEN 1 ELSE 0)
                sig(x, n) == IF x.sign = 1 THEN -n ELSE n
                res == sig(lo, Squeeze(8 * Significand(lo), shift)) + sig(hi, 8 * Significand(hi))
            IN  IF res < 0 THEN Normalize(1, hi.exp, -res) ELSE Normalize(0, hi.exp, res)

FloatSub(b, a) ==
  CASE IsZero(a) /\ IsZero(b) -> Zero(IF a.sign = 1 /\ b.sign = 0 THEN 1 ELSE 0)
    [] IsDefaultNaN(a) /\ IsDefaultNaN(b) -> IF a.sign = 1 /\ b.sign = 1 THEN NaN(1) ELSE NaN(0)
    [] OTHER -> IF IsDefaultNaN(a) THEN a
                ELSE IF IsDefaultNaN(b) THEN b
                ELSE FloatAdd([b EXCEPT !.sign = 1 - b.sign], a)

\* a denormal has the scale of exponent 1
Scale(x) == IF x.exp = 0 THEN 1 ELSE x.exp

FloatMul(b, a) ==
  LET sign == Xor(a.sign, b.sign)
  IN  CASE (IsZero(a) /\ IsInf(b)) \/ (IsInf(a) /\ IsZero(b)) -> NaN(1)
        [] IsDefaultNaN(a) \/ IsDefaultNaN(b) -> IF NaN(0) \in {a, b} THEN NaN(0) ELSE NaN(1)
        [] OTHER ->
           IF IsZero(a) \/ IsZero(b) THEN Zero(sign)
           ELSE IF IsInf(a) \/ IsInf(b) THEN Inf(sign)
           ELSE Normalize(sign, Scale(a) + Scale(b) - Bias - FracBits,
                          8 * Significand(a) * Significand(b))

\* the dividend is moved to the left end of its 64 bits and the divisor to
\* the right; what is left over by the division is lost
ToTheLeft(sig) ==
  CHOOSE n \in 0 .. DividendBits - 1 : sig * 2 ^ n \in 2 ^ (DividendBits - 1) .. 2 ^ DividendBits - 1
ToTheRight(sig) == CHOOSE n \in 0 .. FracBits : sig % 2 ^ n = 0 /\ (sig \div 2 ^ n) % 2 = 1

FloatDiv(b, a) ==
  LET sign == Xor(a.sign, b.sign)
  IN  CASE (IsZero(a) /\ IsZero(b)) \/ (IsInf(a) /\ IsInf(b)) -> NaN(1)
        [] IsDefaultNaN(a) \/ IsDefaultNaN(b) -> IF NaN(0) \in {a, b} THEN NaN(0) ELSE NaN(1)
        [] OTHER ->
           IF IsInf(a) \/ IsZero(b) THEN Inf(sign)
           ELSE IF IsZero(a) \/ IsInf(b) THEN Zero(sign)
           ELSE LET left == ToTheLeft(Significand(a))
                    right == ToTheRight(Significand(b))
                IN  Normalize(sign, Scale(a) - Scale(b) + Bias - (left + right - FracBits - 3),
                              (Significand(a) * 2 ^ left) \div (Significand(b) \div 2 ^ right))
-----------------------------------------------------------------------------
(* The stack: fpu_load() to fpu_copy(), and the instructions of x87.c that *)
(* call two of them.                                                       *)

Reg(i) == (top + i) % NR_REG
St(i) == regStack[Reg(i)]

Result(op, b, a) == CASE op = "add" -> FloatAdd(b, a)
                      [] op = "sub" -> FloatSub(b, a)
                      [] op = "mul" -> FloatMul(b, a)
                      [] op = "div" -> FloatDiv(b, a)

FpuInit == /\ regStack = [i \in 0 .. NR_REG - 1 |-> Zero(0)]
           /\ top = 0
           /\ depth = 0

Load(v) == /\ depth < NR_REG
           /\ top' = IF top = 0 THEN NR_REG - 1 ELSE top - 1
           /\ regStack' = [regStack EXCEPT ![top'] = v]
           /\ depth' = depth + 1

\* fpu_store() after what has become of the registers
Popped(regs) == /\ regStack' = regs
                /\ top' = (top + 1) % NR_REG
                /\ depth' = depth - 1
Kept(regs) == regStack' = regs /\ UNCHANGED <<top, depth>>

Store == depth > 0 /\ Popped(regStack)

\* fpu_add() and its like, the operand read from memory
Operate(op, v) == depth > 0 /\ Kept([regStack EXCEPT ![top] = Result(op, v, St(0))])

\* fpu_add_idx() and fpu_mul_idx()
OperateIdx(op, idx, store_idx) ==
  Kept([regStack EXCEPT ![Reg(store_idx)] = Result(op, St(idx), St(0))])
FAddP(idx) == Popped([regStack EXCEPT ![Reg(idx)] = FloatAdd(St(idx), St(0))])

Xch(idx) == Kept([regStack EXCEPT ![top] = St(idx), ![Reg(idx)] = St(0)])
Copied(idx) == [regStack EXCEPT ![Reg(idx)] = St(0)]

FpuNext ==
  \/ Store
  \/ \E v \in Loads : Load(v) \/ \E op \in {"add", "sub", "mul", "div"} : Operate(op, v)
  \/ \E idx \in 0 .. depth - 1 :
       \/ FAddP(idx) \/ Xch(idx) \/ Kept(Copied(idx)) \/ Popped(Copied(idx))
       \/ \E op \in {"add", "mul"}, store_idx \in {0, idx} : OperateIdx(op, idx, store_idx)

FpuSpec == FpuInit /\ [][FpuNext]_fpu
-----------------------------------------------------------------------------
(* The registers hold numbers of the format, and no NaNs but the two. *)
FpuTypeOK == /\ regStack \in [0 .. NR_REG - 1 -> Numbers]
             /\ top \in 0 .. NR_REG - 1
             /\ depth \in 0 .. NR_REG

(* The numbers on the stack, the top first, as words in memory: the code   *)
(* has two NaNs for one.                                                   *)
Canonical(x) == IF IsDefaultNaN(x) THEN NaN(1) ELSE x
Numerals == [i \in 1 .. depth |-> WordOf(Canonical(St(i - 1)))]
LoadNumerals == {WordOf(Canonical(v)) : v \in Loads}
=============================================================================
