------------------------------- MODULE I8259 -------------------------------
(***************************************************************************)
(* The data of NEMU's simulated i8259 (device/i8259_pic.c): the interrupt  *)
(* lines in use, and how a raise arbitrates for the only slot the PIC has. *)
(***************************************************************************)
EXTENDS Integers

IRQ_BASE == 32
NO_INTR  == 255     \* I8259_NO_INTR: the slot is empty

TIMER_IRQ    == 0
KEYBOARD_IRQ == 1
AUDIO_IRQ    == 2
IDE_IRQ      == 14

IRQs    == {TIMER_IRQ, KEYBOARD_IRQ, AUDIO_IRQ, IDE_IRQ}
Vectors == {irq + IRQ_BASE : irq \in IRQs}

(* Mutants of Arbitrate: the latest request wins; the first one stays.     *)
ArbitrateLatest(irq, s) == irq + IRQ_BASE
ArbitrateFirst(irq, s)  == IF s = NO_INTR THEN irq + IRQ_BASE ELSE s

(* The slot after a raise: an empty slot is taken, a lower line replaced,  *)
(* and a request that meets an equal or higher line is dropped.            *)
Arbitrate(irq, s) ==
  IF s = NO_INTR \/ irq > s - IRQ_BASE THEN irq + IRQ_BASE ELSE s
=============================================================================
