-------------------------------- MODULE Cpu --------------------------------
(***************************************************************************)
(* The two units of the CPU that compute: the integer instructions of Alu  *)
(* and the stack of floating point numbers of Fpu.  They share no state,   *)
(* so that a program that uses both shows nothing that one of each does    *)
(* not show: here a program uses one unit.                                 *)
(***************************************************************************)
EXTENDS Alu, Fpu

VARIABLE unit           \* bound: the unit the program uses

alu == <<regs, eflags, meaning>>

CpuInit == Init /\ FpuInit /\ unit \in {"alu", "fpu"}
AluStep == unit = "alu" /\ Next /\ UNCHANGED <<fpu, unit>>
FpuStep == unit = "fpu" /\ FpuNext /\ UNCHANGED <<alu, unit>>
CpuSpec == CpuInit /\ [][AluStep \/ FpuStep]_<<alu, fpu, unit>>
-----------------------------------------------------------------------------
(* The ring of registers of fpu.c is a stack, and what its integers come   *)
(* to is the exact result rounded to the nearest number, with the signs    *)
(* and the exceptions of IEEE 754 for zeros and infinities.                *)
Stack == INSTANCE FloatStack WITH Loads <- LoadNumerals, stack <- Numerals
ImplementsFloatStack == Stack!Spec
-----------------------------------------------------------------------------
(* Numbers in memory for TLC: denormals, the smallest and the largest      *)
(* normal numbers, some between, and what is not a number.                 *)
MCLoads == {Float(0, 0, 1), Float(1, 0, 3), Float(0, 1, 0), Float(1, 2, 3), Float(0, 3, 1),
            Float(1, 4, 2), Float(0, 6, 3), Zero(1), Inf(0), NaN(0)}
=============================================================================
