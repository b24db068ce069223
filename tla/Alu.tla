-------------------------------- MODULE Alu --------------------------------
(***************************************************************************)
(* The integer instructions of nemu/src/cpu: what they leave in EAX, in    *)
(* EDX and in the flags CF, ZF, SF and OF, and the conditions by which     *)
(* Jcc, SETcc and CMOVcc read the flags back.  The operands are words of   *)
(* Width bits: in the `v' forms of the instructions data_size, which is 32,*)
(* or 16 with a prefix; in the `b' forms 8, and EDX:EAX is then AH:AL.     *)
(*                                                                         *)
(* The sums, differences and comparisons of bytes are made of the sign     *)
(* extended bytes at data_size.  What is written back and CF are those of  *)
(* bytes; ZF, SF and OF are those of the longer word, and OF is never set. *)
(*                                                                         *)
(* No single instruction is of use alone: CMP means something to the jump  *)
(* after it, ADD to the ADC after it, CLTD to the IDIV.  The variable      *)
(* "meaning" remembers what the last instructions have computed in the     *)
(* integers; the invariants compare it with what the registers and the     *)
(* flags say.  It is a history variable: no other variable depends on it.  *)
(*                                                                         *)
(* Left out: PF, the memory operands, and shifts by nothing or by Width    *)
(* bits and more, which are undefined in C.                                *)
(***************************************************************************)
EXTENDS Integers

CONSTANTS Width,    \* the bits of an operand
          Half,     \* the weight of its sign bit
          DataHalf, \* that of the sign bit of a word of data_size bits
          IntHalf,  \* that of the sign bit of C's int
          ByteBase  \* the number of bytes, of which SETcc writes one

ASSUME SizeAssumption == /\ Width \in Nat \ {0}
                         /\ Half \in Nat \ {0}
                         /\ Half = 2 ^ (Width - 1)
                         /\ DataHalf \in Nat \ {0} /\ DataHalf % Half = 0
                         /\ IntHalf \in Nat \ {0} /\ IntHalf % Half = 0
                         /\ ByteBase \in Nat /\ ByteBase >= 2 /\ (2 * Half) % ByteBase = 0

VARIABLES regs,     \* cpu.gpr: EAX and EDX
          eflags,   \* cpu.eflags
          meaning   \* history: what the last instructions have computed

vars == <<regs, eflags, meaning>>

Base == 2 * Half
Word == 0 .. Base - 1
Regs == {"eax", "edx"}
Other(r) == IF r = "eax" THEN "edx" ELSE "eax"

Bit(p) == IF p THEN 1 ELSE 0

\* Operands of data_size bits: those of the v forms
VForm == DataHalf = Half
DataBase == 2 * DataHalf

\* sign(), of a word whose sign bit has the weight half
Sign(half, x) == Bit(x >= half)
\* sign_ext(): the number a word stands for when it is signed, and its word of data_size bits
Signed(x) == IF x >= Half THEN x - Base ELSE x
Extended(x) == IF x >= Half THEN x - Base + DataBase ELSE x

\* & (0xFFFFFFFF >> (32 - data_size)), for what one carry or borrow exceeds
Wrap(n) == IF n >= DataBase THEN n - DataBase ELSE IF n < 0 THEN n + DataBase ELSE n

Flags(half, res, cf, of) == [CF |-> cf, ZF |-> Bit(res = 0), SF |-> Sign(half, res), OF |-> of]

\* What an operation at data_size leaves: operand_write() keeps Width bits of it
Outcome(res, cf, of) == [res |-> res % Base, flags |-> Flags(DataHalf, res, Bit(cf), Bit(of))]

\* Mutant: alu_adc() compares with < whether there was a carry or not
PlusStrict(src, dest, c) ==
  LET res == Wrap(src + dest + c)
      of == Sign(DataHalf, src) = Sign(DataHalf, dest) /\ Sign(DataHalf, src) # Sign(DataHalf, res)
  IN  Outcome(res, res < src \/ res < dest, of)

(* alu_add() when c is 0, alu_adc() with CF set when c is 1 *)
Plus(src, dest, c) ==
  LET res == Wrap(src + dest + c)
      cf == IF c = 0 THEN res < src \/ res < dest ELSE res <= src \/ res <= dest
      of == Sign(DataHalf, src) = Sign(DataHalf, dest) /\ Sign(DataHalf, src) # Sign(DataHalf, res)
  IN  Outcome(res, cf, of)

\* Mutant: the overflow of a subtraction asks for equal signs, as that of a sum does
MinusOverflow(src, dest, c) ==
  LET res == Wrap(dest - src - c)
      of == Sign(DataHalf, src) = Sign(DataHalf, dest) /\ Sign(DataHalf, dest) # Sign(DataHalf, res)
  IN  Outcome(res, IF c = 0 THEN src > dest ELSE src >= dest, of)

(* alu_sub() when c is 0, alu_sbb() with CF set when c is 1 *)
Minus(src, dest, c) ==
  LET res == Wrap(dest - src - c)
      cf == IF c = 0 THEN src > dest ELSE src >= dest
      of == Sign(DataHalf, src) # Sign(DataHalf, dest) /\ Sign(DataHalf, dest) # Sign(DataHalf, res)
  IN  Outcome(res, cf, of)

(* alu_and(), alu_or() and alu_xor(): the word whose bits are the gate's.  *)
(* That of sign extended bytes is sign extended: its flags are the byte's. *)
BitOf(x, i) == (x \div 2 ^ i) % 2
Gate(op, p, q) == CASE op = "and" -> p = 1 /\ q = 1
                    [] op = "or"  -> p = 1 \/ q = 1
                    [] op = "xor" -> p # q
Gated(op, src, dest) ==
  {res \in Word : \A i \in 0 .. Width - 1 :
                    BitOf(res, i) = Bit(Gate(op, BitOf(src, i), BitOf(dest, i)))}

(* alu_shl(), alu_shr() and alu_sar() by n bits: the result, the last bit  *)
(* to leave it, and OF, which only a shift by one sets                     *)
Shifted(op, n, dest) ==
  LET res == CASE op = "shl" -> (dest * 2 ^ n) % Base
               [] op = "shr" -> dest \div 2 ^ n
               [] op = "sar" -> (Signed(dest) \div 2 ^ n) % Base
      cf == IF op = "shl" THEN BitOf(dest, Width - n) ELSE BitOf(dest, n - 1)
      of == CASE op = "shl" -> n = 1 /\ Sign(Half, res) # cf
              [] op = "shr" -> n = 1 /\ Sign(Half, dest) = 1
              [] op = "sar" -> FALSE
  IN  [res |-> res, flags |-> Flags(Half, res, cf, Bit(of))]

\* Division and remainder of C, which round towards zero
Magnitude(n) == IF n < 0 THEN -n ELSE n
Quotient(n, d) == LET q == Magnitude(n) \div Magnitude(d)
                  IN  IF (n < 0) = (d < 0) THEN q ELSE -q
Remainder(n, d) == n - d * Quotient(n, d)

(* The conditions of instr_helper.h, on the flags of the moment *)
Conditions == {"e", "ne", "c", "a", "ae", "b", "be", "g", "ge", "l", "le", "s", "ns", "o", "no"}
Holds(cc) ==
  CASE cc = "e"  -> eflags.ZF = 1
    [] cc = "ne" -> eflags.ZF = 0
    [] cc = "c"  -> eflags.CF = 1
    [] cc = "a"  -> eflags.CF = 0 /\ eflags.ZF = 0
    [] cc = "ae" -> eflags.CF = 0 \/ eflags.ZF = 1
    [] cc = "b"  -> eflags.CF = 1 /\ eflags.ZF = 0
    [] cc = "be" -> eflags.CF = 1 \/ eflags.ZF = 1
    [] cc = "g"  -> eflags.SF = eflags.OF /\ eflags.ZF = 0
    [] cc = "ge" -> eflags.SF = eflags.OF \/ eflags.ZF = 1
    [] cc = "l"  -> eflags.SF # eflags.OF /\ eflags.ZF = 0
    [] cc = "le" -> eflags.SF # eflags.OF \/ eflags.ZF = 1
    [] cc = "s"  -> eflags.SF = 1
    [] cc = "ns" -> eflags.SF = 0
    [] cc = "o"  -> eflags.OF = 1
    [] cc = "no" -> eflags.OF = 0

(* What an instruction means: its kind and the numbers it was given *)
Kinds == {"nothing", "compared", "adding", "added", "subtracting", "subtracted",
          "shl", "shr", "sar", "product", "signed product", "divided",
          "extended", "signed divided"}
Means(kind, x, y) == [kind |-> kind, x |-> x, y |-> y]
Nothing == Means("nothing", 0, 0)
\* a move leaves the flags, and with them the outcome of a comparison
Compared == IF meaning.kind = "compared" THEN meaning ELSE Nothing

Pair == regs["edx"] * Base + regs["eax"]
SignedPair == Signed(regs["edx"]) * Base + regs["eax"]
-----------------------------------------------------------------------------
Init == /\ regs = [r \in Regs |-> 0]
        /\ eflags = [CF |-> 0, ZF |-> 0, SF |-> 0, OF |-> 0]
        /\ meaning = Nothing

Compute(r, out) == /\ regs' = [regs EXCEPT ![r] = out.res]
                   /\ eflags' = out.flags

Mov(r, s) == /\ regs' = [regs EXCEPT ![r] = s]
             /\ meaning' = Compared
             /\ UNCHANGED eflags

Add(r, s) == /\ Compute(r, Plus(Extended(s), Extended(regs[r]), 0))
             /\ meaning' = IF r = "eax" THEN Means("adding", Pair, s) ELSE Nothing

\* the upper halves, when the lower ones have just been added
Adc(r, s) == /\ Compute(r, Plus(Extended(s), Extended(regs[r]), eflags.CF))
             /\ meaning' = IF r = "edx" /\ meaning.kind = "adding"
                           THEN Means("added", meaning.x, s * Base + meaning.y)
                           ELSE Nothing

Sub(r, s) == /\ Compute(r, Minus(Extended(s), Extended(regs[r]), 0))
             /\ meaning' = IF r = "eax" THEN Means("subtracting", Pair, s) ELSE Nothing

Sbb(r, s) == /\ Compute(r, Minus(Extended(s), Extended(regs[r]), eflags.CF))
             /\ meaning' = IF r = "edx" /\ meaning.kind = "subtracting"
                           THEN Means("subtracted", meaning.x, s * Base + meaning.y)
                           ELSE Nothing

Cmp(r, s) == /\ eflags' = Minus(Extended(s), Extended(regs[r]), 0).flags
             /\ meaning' = Means("compared", regs[r], s)
             /\ UNCHANGED regs

\* INC, DEC, CMOV, BT, CLTD and IMUL of two and three operands have no b form
Inc(r) == VForm /\ Compute(r, Plus(1, regs[r], 0)) /\ meaning' = Nothing
Dec(r) == VForm /\ Compute(r, Minus(1, regs[r], 0)) /\ meaning' = Nothing

\* dest - src with a source of zero: the operand, not extended, is left as it is
Neg(r) == Compute(r, Minus(0, regs[r], 0)) /\ meaning' = Nothing

Logic(op, r, s) ==
  /\ \E res \in Gated(op, s, regs[r]) : Compute(r, [res |-> res, flags |-> Flags(Half, res, 0, 0)])
  /\ meaning' = Nothing

\* xor with all bits of data_size, of an operand that is not extended
Not(r) == Compute(r, Outcome(DataBase - 1 - regs[r], FALSE, FALSE)) /\ meaning' = Nothing

\* TEST of a register with itself is how programs compare it with zero
Test(r, s) ==
  /\ \E res \in Gated("and", s, regs[r]) : eflags' = Flags(Half, res, 0, 0)
  /\ meaning' = IF s = regs[r] THEN Means("compared", s, 0) ELSE Nothing
  /\ UNCHANGED regs

Shift(op, r, n) == /\ Compute(r, Shifted(op, n, regs[r]))
                   /\ meaning' = IF r = "eax" THEN Means(op, regs[r], n) ELSE Nothing

(* MUL, IMUL: EDX:EAX; CF and OF ask whether the product leaves the lower half *)
HighFlags(p) == [eflags EXCEPT !.CF = Bit(p), !.OF = Bit(p)]

Mul(s) == LET res == s * regs["eax"]
          IN  /\ regs' = [eax |-> res % Base, edx |-> res \div Base]
              /\ eflags' = HighFlags(res \div Base # 0)
              /\ meaning' = Means("product", regs["eax"], s)

\* res >> data_size is -1 of a negative product, and so never 0
Imul(s) == LET res == Signed(s) * Signed(regs["eax"])
           IN  /\ regs' = [eax |-> res % Base, edx |-> (res \div Base) % Base]
               /\ eflags' = HighFlags(res \div Base # 0)
               /\ meaning' = Means("signed product", Signed(regs["eax"]), Signed(s))

\* the forms with two and three operands keep the lower half only
ImulTo(r, s, t) == LET res == Signed(s) * Signed(t)
                   IN  /\ VForm
                       /\ regs' = [regs EXCEPT ![r] = res % Base]
                       /\ eflags' = HighFlags(res \div Base # 0)
                       /\ meaning' = Nothing

\* assert(src != 0); a quotient too long for EAX is cut off, with no fault
Div(s) == /\ s # 0
          /\ regs' = [eax |-> (Pair \div s) % Base, edx |-> Pair % s]
          /\ meaning' = Means("divided", Pair, s)
          /\ UNCHANGED eflags

\* the smallest dividend of 64 bits by -1 is a fault of the host: left out
Idiv(s) == /\ s # 0
           /\ ~(IntHalf = Half /\ SignedPair = -(Half * Base) /\ s = Base - 1)
           /\ regs' = [eax |-> Quotient(SignedPair, Signed(s)) % Base,
                       edx |-> Remainder(SignedPair, Signed(s)) % Base]
           /\ meaning' = Means("signed divided", SignedPair, Signed(s))
           /\ UNCHANGED eflags

\* Mutant: CLTD tests the zero extended operand, which is never negative
CltdZeroExtended == /\ VForm
                    /\ regs' = [regs EXCEPT !["edx"] = 0]
                    /\ meaning' = Means("extended", Signed(regs["eax"]), 0)
                    /\ UNCHANGED eflags

\* (int)ax.val, of an operand that is not extended: a word of 16 bits is never negative
Cltd == /\ VForm
        /\ regs' = [regs EXCEPT !["edx"] = IF regs["eax"] >= IntHalf THEN Base - 1 ELSE 0]
        /\ meaning' = Means("extended", Signed(regs["eax"]), 0)
        /\ UNCHANGED eflags

Setcc(cc, r) == /\ regs' = [regs EXCEPT ![r] = @ - (@ % ByteBase) + Bit(Holds(cc))]
                /\ meaning' = Compared
                /\ UNCHANGED eflags

Cmov(cc, r) == /\ VForm
               /\ regs' = IF Holds(cc) THEN [regs EXCEPT ![r] = regs[Other(r)]] ELSE regs
               /\ meaning' = Compared
               /\ UNCHANGED eflags

Bt(r, n) == /\ VForm
            /\ eflags' = [eflags EXCEPT !.CF = BitOf(regs[r], n)]
            /\ meaning' = Nothing
            /\ UNCHANGED regs

Clc == /\ eflags' = [eflags EXCEPT !.CF = 0]
       /\ meaning' = Nothing
       /\ UNCHANGED regs

OnWords == \E r \in Regs, s \in Word :
             \/ Mov(r, s) \/ Add(r, s) \/ Adc(r, s) \/ Sub(r, s) \/ Sbb(r, s)
             \/ Cmp(r, s) \/ Test(r, s) \/ ImulTo(r, s, regs[r]) \/ ImulTo(r, s, regs[Other(r)])
             \/ \E op \in {"and", "or", "xor"} : Logic(op, r, s)

OnPair == Cltd \/ \E s \in Word : Mul(s) \/ Imul(s) \/ Div(s) \/ Idiv(s)

OnOne == \E r \in Regs :
           \/ Inc(r) \/ Dec(r) \/ Neg(r) \/ Not(r)
           \/ \E op \in {"shl", "shr", "sar"}, n \in 1 .. Width - 1 : Shift(op, r, n)
           \/ \E cc \in Conditions : Setcc(cc, r) \/ Cmov(cc, r)
           \/ \E n \in 0 .. Width - 1 : Bt(r, n)

Next == OnWords \/ OnPair \/ OnOne \/ Clc

Spec == Init /\ [][Next]_vars
-----------------------------------------------------------------------------
Flag == {0, 1}

(* The registers hold words and the flags bits. *)
TypeOK == /\ regs \in [Regs -> Word]
          /\ eflags \in [CF : Flag, ZF : Flag, SF : Flag, OF : Flag]
          /\ meaning \in [kind : Kinds, x : Int, y : Int]

(* After CMP, or TEST of a register with itself, and any moves, SETcc and  *)
(* CMOVcc since, every condition of instr_helper.h that is named for a     *)
(* comparison decides it: a and b that of the words, g and l that of the   *)
(* signed numbers, of bytes too, which are compared at data_size           *)
(* (alu_sub(), cmp.c and the condition macros).                            *)
ComparisonsDecide ==
  meaning.kind = "compared" =>
    LET x == meaning.x
        y == meaning.y
    IN  /\ Holds("e") <=> x = y
        /\ Holds("ne") <=> x # y
        /\ Holds("a") <=> x > y
        /\ Holds("ae") <=> x >= y
        /\ Holds("b") <=> x < y
        /\ Holds("be") <=> x <= y
        /\ Holds("g") <=> Signed(x) > Signed(y)
        /\ Holds("ge") <=> Signed(x) >= Signed(y)
        /\ Holds("l") <=> Signed(x) < Signed(y)
        /\ Holds("le") <=> Signed(x) <= Signed(y)

(* ADD of the lower words and ADC of the upper ones, or SUB and SBB, give  *)
(* the exact sum or difference of the long numbers: CF is what leaves the  *)
(* upper word (the two comparisons by which alu_adc() and alu_sbb() find   *)
(* it).  SF and OF together have the sign of the exact signed result.  OF  *)
(* alone says whether that has overflowed the size at which the upper words*)
(* are added: the long number in the v forms, where DataHalf is Half; in   *)
(* the b forms (adc.c:10-12) data_size, which no sum of bytes overflows.   *)
Long == Base * Base
SignedLong(x) == IF x >= Half * Base THEN x - Long ELSE x
Fits(n) == -(DataHalf * Base) <= n /\ n < DataHalf * Base
SignedResult(n) == /\ eflags.OF = 0 <=> Fits(n)
                   /\ eflags.SF # eflags.OF <=> n < 0

AddsLow == meaning.kind = "adding" => Pair + eflags.CF * Base = meaning.x + meaning.y
AddsLong == meaning.kind = "added" =>
              /\ Pair + eflags.CF * Long = meaning.x + meaning.y
              /\ SignedResult(SignedLong(meaning.x) + SignedLong(meaning.y))
SubtractsLow == meaning.kind = "subtracting" => Pair - eflags.CF * Base = meaning.x - meaning.y
SubtractsLong == meaning.kind = "subtracted" =>
                   /\ Pair - eflags.CF * Long = meaning.x - meaning.y
                   /\ SignedResult(SignedLong(meaning.x) - SignedLong(meaning.y))

LongArithmetic == AddsLow /\ AddsLong /\ SubtractsLow /\ SubtractsLong

(* A shift by n bits is n shifts by one: CF is the last bit that has left  *)
(* the word, so that the word and CF together are exact.                   *)
ShiftsAreExact ==
  LET x == meaning.x
      n == meaning.y
  IN  /\ meaning.kind = "shl" =>
           eflags.CF * Base + regs["eax"] = (x * 2 ^ n) % (2 * Base)
      /\ meaning.kind = "shr" =>
           2 * regs["eax"] + eflags.CF = x \div 2 ^ (n - 1)
      /\ meaning.kind = "sar" =>
           2 * Signed(regs["eax"]) + eflags.CF = Signed(x) \div 2 ^ (n - 1)

(* EDX:EAX holds the product, unsigned of MUL and signed of IMUL; CF and   *)
(* OF of MUL say that it has an upper half.                                *)
ProductsAreExact ==
  LET x == meaning.x
      y == meaning.y
  IN  /\ meaning.kind = "product" =>
           /\ Pair = x * y
           /\ eflags.CF = 1 <=> x * y >= Base
           /\ eflags.OF = eflags.CF
      /\ meaning.kind = "signed product" => SignedPair = x * y

(* The quotient and the remainder of DIV and IDIV make up the dividend     *)
(* again whenever the quotient fits EAX; the remainder is smaller than the *)
(* divisor and has the sign of the dividend.  The dividend is what CLTD has*)
(* extended when CLTD can see its sign: in the form of 32 bits, or when it *)
(* is not negative.                                                        *)
QuotientsAreExact ==
  LET x == meaning.x
      y == meaning.y
      remainder == Signed(regs["edx"])
  IN  /\ meaning.kind = "divided" /\ x < y * Base =>
           /\ regs["eax"] * y + regs["edx"] = x
           /\ regs["edx"] < y
      /\ meaning.kind = "extended" /\ (IntHalf = Half \/ x >= 0) => SignedPair = x
      /\ meaning.kind = "signed divided" /\ Magnitude(x) < Magnitude(y) * Half =>
           /\ Signed(regs["eax"]) * y + remainder = x
           /\ Magnitude(remainder) < Magnitude(y)
           /\ remainder = 0 \/ (remainder < 0) = (x < 0)

(* What the registers and CF hold after a shift, a multiplication or a     *)
(* division is its exact result, no bit of it lost, where it takes several *)
(* instructions too; of CLTD before an IDIV this is so but for negative    *)
(* words of 16 bits (alu_shl() to alu_imod(), cltd.c).                     *)
ResultsAreExact == ShiftsAreExact /\ ProductsAreExact /\ QuotientsAreExact
=============================================================================
