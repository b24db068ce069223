-------------------------- MODULE InterruptsProofs --------------------------
(***************************************************************************)
(* What holds of the interrupt path for every MaxSteps and every guest.    *)
(*                                                                         *)
(* The assertion of do_intr() reads cpu.intr and the slot at two different *)
(* moments, without the mutex.  It is safe because of an asymmetry: only   *)
(* the CPU thread empties the slot, the heartbeat thread only fills it.    *)
(* IInv states that asymmetry for each moment of do_intr().                *)
(***************************************************************************)
EXTENDS Interrupts, TLAPS

(* The heartbeat thread is between its stores only while it owns the mutex,  *)
(* or when the mutex has been destroyed under it.                            *)
MutexInv ==
  /\ mutex = "hb" => hb \in {"slot", "intr"}
  /\ hb \in {"slot", "intr"} => mutex \in {"hb", "destroyed"}

(* The slot is full whenever cpu.intr announces it or the heartbeat thread   *)
(* is about to; it stays full from the test of cpu.intr to the               *)
(* acknowledgement, and if it holds the IDE vector then, that was queried.   *)
TakenInv ==
  /\ intr = 1 => slot # NO_INTR
  /\ hb = "intr" => slot # NO_INTR
  /\ pc \in {"query", "ack"} => slot # NO_INTR
  /\ pc = "ack" => /\ intr_no # NO_INTR
                   /\ slot = IDE_IRQ + IRQ_BASE => intr_no = slot

IInv == TypeOK /\ MutexInv /\ TakenInv /\ PendingIsHighest /\ PendingIsAnnounced

-----------------------------------------------------------------------------

(* The four lines of the kernel's IDT and their vectors, as numbers. *)
LEMMA VectorValues == IRQs = {0, 1, 2, 14} /\ Vectors = {32, 33, 34, 46}
  BY DEF IRQs, Vectors, IRQ_BASE, TIMER_IRQ, KEYBOARD_IRQ, AUDIO_IRQ, IDE_IRQ

(* Arbitrate keeps the slot a vector, never empties it, never lowers it and  *)
(* never displaces the IDE line (the comparison of i8259_raise_intr); the    *)
(* audio line never becomes the IDE line.                                    *)
LEMMA ArbitrateFacts ==
  ASSUME NEW irq \in IRQs, NEW s \in Vectors \union {NO_INTR}
  PROVE  /\ Arbitrate(irq, s) \in Vectors
         /\ Arbitrate(irq, s) # NO_INTR
         /\ irq + IRQ_BASE <= Arbitrate(irq, s)
         /\ Arbitrate(irq, s) \in {irq + IRQ_BASE, s}
         /\ s # NO_INTR => s <= Arbitrate(irq, s)
         /\ s = IDE_IRQ + IRQ_BASE => Arbitrate(irq, s) = s
         /\ Arbitrate(AUDIO_IRQ, s) = IDE_IRQ + IRQ_BASE => Arbitrate(AUDIO_IRQ, s) = s
  <1>1. irq \in {0, 1, 2, 14} /\ s \in {32, 33, 34, 46, 255}
    BY VectorValues DEF NO_INTR
  <1> QED
    BY <1>1, VectorValues DEF Arbitrate, NO_INTR, IRQ_BASE, AUDIO_IRQ, IDE_IRQ

(* A raise on the CPU thread keeps the relation of the slot to the requests. *)
LEMMA RaisePreserves ==
  ASSUME NEW irq \in IRQs, IInv, Raise(irq)
  PROVE  /\ slot' \in Vectors /\ slot' # NO_INTR
         /\ intr' = 1
         /\ requests' \in SUBSET IRQs
         /\ PendingIsHighest'
         /\ mutex = "free"
  <1>1. slot \in Vectors \union {NO_INTR} /\ requests \in SUBSET IRQs
    BY DEF IInv, TypeOK
  <1>2. slot' = Arbitrate(irq, slot) /\ requests' = requests \union {irq}
    BY DEF Raise
  <1>3. PendingIsHighest
    BY DEF IInv
  <1>4. \A i \in IRQs : i \in Nat /\ i + IRQ_BASE # NO_INTR
    BY DEF IRQs, NO_INTR, IRQ_BASE, TIMER_IRQ, KEYBOARD_IRQ, AUDIO_IRQ, IDE_IRQ
  <1>5. slot' \in Vectors /\ slot' # NO_INTR
    BY <1>1, <1>2, ArbitrateFacts
  <1>6. \A i \in requests' : i + IRQ_BASE <= slot'
    <2> SUFFICES ASSUME NEW i \in requests' PROVE i + IRQ_BASE <= slot'
      OBVIOUS
    <2>1. CASE i = irq
      BY <1>1, <1>2, <2>1, ArbitrateFacts
    <2>2. CASE i \in requests
      <3>1. slot # NO_INTR /\ i + IRQ_BASE <= slot
        BY <1>3, <2>2 DEF PendingIsHighest
      <3>2. slot <= slot'
        BY <1>1, <1>2, <3>1, ArbitrateFacts
      <3>3. i \in Nat /\ slot \in Nat /\ slot' \in Nat
        BY <1>1, <1>4, <1>5, <2>2, <3>1 DEF Vectors, IRQ_BASE
      <3> QED
        BY <3>1, <3>2, <3>3 DEF IRQ_BASE
    <2> QED
      BY <1>2, <2>1, <2>2
  <1>7. slot' - IRQ_BASE \in requests'
    <2>1. CASE slot' = irq + IRQ_BASE
      BY <1>2, <1>4, <2>1 DEF IRQ_BASE
    <2>2. CASE slot' = slot
      BY <1>2, <1>3, <1>5, <2>2 DEF PendingIsHighest
    <2> QED
      BY <1>1, <1>2, <2>1, <2>2, ArbitrateFacts
  <1> QED
    BY <1>1, <1>2, <1>5, <1>6, <1>7 DEF Raise, PendingIsHighest

LEMMA InitIInv == Init => IInv
  <1> SUFFICES ASSUME Init PROVE IInv
    OBVIOUS
  <1>1. TypeOK
    <2>1. audio_active \in BOOLEAN /\ eflags_IF \in BOOLEAN /\ hlt \in BOOLEAN
      BY Zenon DEF Init
    <2> QED
      BY <2>1, MaxStepsAssumption DEF Init, TypeOK, Many
  <1>2. MutexInv /\ TakenInv
    BY DEF Init, MutexInv, TakenInv
  <1>3. PendingIsHighest /\ PendingIsAnnounced
    BY DEF Init, PendingIsHighest, PendingIsAnnounced
  <1> QED
    BY <1>1, <1>2, <1>3 DEF IInv

(* The inductive step, one case per action. *)
LEMMA NextIInv == IInv /\ [Next]_vars => IInv'
  <1> SUFFICES ASSUME IInv, [Next]_vars PROVE IInv'
    OBVIOUS
  <1> USE DEF IInv, TypeOK, MutexInv, TakenInv, PendingIsAnnounced, pic, cpu, beat
  <1>1. ASSUME NEW k \in 1 .. Many, Exec(k) PROVE IInv'
    BY <1>1, MaxStepsAssumption DEF Exec, PendingIsHighest
  <1>2. CASE ExecReturn
    BY <1>2 DEF ExecReturn, PendingIsHighest
  <1>3. CASE CloseSdl
    <2>1. audio_active' \in BOOLEAN
      BY Zenon, <1>3 DEF CloseSdl
    <2> QED
      BY <1>3, <2>1 DEF CloseSdl, PendingIsHighest
  <1>4. CASE Guest
    <2>1. CASE Fetch
      <3>1. n' \in 0 .. Many /\ pc' = "watch"
        BY <2>1, MaxStepsAssumption DEF Fetch, Running, Many
      <3>2. CASE Ordinary
        BY <3>1, <3>2 DEF Ordinary, PendingIsHighest
      <3>3. CASE SetIF
        BY <3>1, <3>3 DEF SetIF, PendingIsHighest
      <3>4. CASE Hlt
        BY <3>1, <3>4 DEF Hlt, PendingIsHighest
      <3>5. CASE IdeRead
        BY <3>1, <3>5, RaisePreserves DEF IdeRead, IRQs
      <3>6. CASE AudioPlay
        <4>1. audio_active' \in BOOLEAN
          BY Zenon, <3>6 DEF AudioPlay
        <4> QED
          BY <3>1, <3>6, <4>1 DEF AudioPlay, PendingIsHighest
      <3>7. CASE NemuTrap
        BY <3>1, <3>7 DEF NemuTrap, PendingIsHighest
      <3>8. CASE BreakPoint
        BY <3>1, <3>8 DEF BreakPoint, PendingIsHighest
      <3>9. CASE Halted
        BY <3>9 DEF Halted, PendingIsHighest
      <3> QED
        BY <1>4, <3>2, <3>3, <3>4, <3>5, <3>6, <3>7, <3>8, <3>9 DEF Guest
    <2>2. CASE Halted
      BY <2>2 DEF Halted, PendingIsHighest
    <2> QED
      BY <1>4, <2>1, <2>2
         DEF Guest, Ordinary, SetIF, Hlt, IdeRead, AudioPlay, NemuTrap, BreakPoint
  <1>5. CASE Devices
    <2>1. CASE TimerFires
      <3>1. CASE nemu_state = "RUN"
        BY <2>1, <3>1, RaisePreserves DEF TimerFires, IRQs
      <3>2. CASE nemu_state # "RUN"
        BY <2>1, <3>2 DEF TimerFires, PendingIsHighest
      <3> QED
        BY <3>1, <3>2
    <2>2. CASE TimerQuiet
      BY <2>2 DEF TimerQuiet, PendingIsHighest
    <2>3. CASE KeyEvent
      BY <2>3, RaisePreserves DEF KeyEvent, IRQs
    <2>4. CASE QuitEvent
      BY <2>4 DEF QuitEvent, PendingIsHighest
    <2>5. CASE QueueEmpty
      BY <2>5 DEF QueueEmpty, PendingIsHighest
    <2> QED
      BY <1>5, <2>1, <2>2, <2>3, <2>4, <2>5 DEF Devices
  <1>6. CASE DoIntr
    <2>1. CASE TestIntr
      <3>1. hlt' \in BOOLEAN
        BY Zenon, <2>1 DEF TestIntr
      <3> QED
        BY <2>1, <3>1 DEF TestIntr, PendingIsHighest
    <2>2. CASE QueryIntrNo
      BY <2>2 DEF QueryIntrNo, PendingIsHighest
    <2>3. CASE AckIntr
      BY <2>3 DEF AckIntr, Ack, PendingIsHighest
    <2>4. CASE RaiseIntr
      <3>1. eflags_IF' \in BOOLEAN
        BY Zenon, <2>4 DEF RaiseIntr
      <3> QED
        BY <2>4, <3>1 DEF RaiseIntr, PendingIsHighest
    <2> QED
      BY <1>6, <2>1, <2>2, <2>3, <2>4 DEF DoIntr
  <1>7. CASE Heartbeat
    <2>1. CASE HbTop
      BY <2>1 DEF HbTop, PendingIsHighest
    <2>2. CASE HbLock
      BY <2>2 DEF HbLock, PendingIsHighest
    <2>3. CASE HbSetSlot
      <3>1. slot' \in Vectors /\ slot' # NO_INTR
        BY <2>3, ArbitrateFacts DEF HbSetSlot, IRQs
      <3>2. pc = "ack" /\ slot' = IDE_IRQ + IRQ_BASE => intr_no' = slot'
        BY <2>3, ArbitrateFacts DEF HbSetSlot, IRQs
      <3>3. PendingIsHighest'
        <4>1. AUDIO_IRQ \in IRQs /\ \A i \in IRQs : i \in Nat
          BY DEF IRQs, TIMER_IRQ, KEYBOARD_IRQ, AUDIO_IRQ, IDE_IRQ
        <4>2. /\ slot' = AUDIO_IRQ + IRQ_BASE \/ slot' = slot
              /\ AUDIO_IRQ + IRQ_BASE <= slot'
              /\ slot # NO_INTR => slot <= slot'
          BY <2>3, <4>1, ArbitrateFacts DEF HbSetSlot
        <4>3. slot \in Nat /\ slot' \in Nat
          BY <3>1, <4>1 DEF Vectors, IRQ_BASE, NO_INTR
        <4>4. slot' - IRQ_BASE \in requests'
          <5>1. CASE slot' = AUDIO_IRQ + IRQ_BASE
            BY <2>3, <4>1, <5>1 DEF HbSetSlot, IRQ_BASE
          <5>2. CASE slot' = slot
            BY <2>3, <3>1, <5>2 DEF HbSetSlot, PendingIsHighest
          <5> QED
            BY <4>2, <5>1, <5>2
        <4>5. \A i \in requests' : i + IRQ_BASE <= slot'
          BY <2>3, <4>1, <4>2, <4>3 DEF HbSetSlot, PendingIsHighest, IRQ_BASE
        <4> QED
          BY <3>1, <4>4, <4>5 DEF PendingIsHighest
      <3> QED
        BY <2>3, <3>1, <3>2, <3>3 DEF HbSetSlot, IRQs
    <2>4. CASE HbSetIntr
      <3>1. MutexInv' /\ hb' = "sleep" /\ mutex' \in {"free", "hb", "destroyed"}
        BY <2>4 DEF HbSetIntr
      <3>2. slot # NO_INTR
        BY <2>4 DEF HbSetIntr
      <3> QED
        BY <2>4, <3>1, <3>2 DEF HbSetIntr, PendingIsHighest
    <2>5. CASE HbWake
      BY <2>5 DEF HbWake, PendingIsHighest
    <2> QED
      BY <1>7, <2>1, <2>2, <2>3, <2>4, <2>5 DEF Heartbeat
  <1>8. CASE Quit \/ Watch
    BY <1>8 DEF Quit, Watch, WatchHit, NoWatch, PendingIsHighest
  <1>9. CASE UNCHANGED vars
    BY <1>9 DEF vars, PendingIsHighest
  <1> QED
    BY <1>1, <1>2, <1>3, <1>4, <1>5, <1>6, <1>7, <1>8, <1>9 DEF Next, User, Cpu

(* Every reachable state of the interrupt path satisfies IInv. *)
THEOREM IInvHolds == Spec => []IInv
  <1>1. Init => IInv
    BY InitIInv
  <1>2. IInv /\ [Next]_vars => IInv'
    BY NextIInv
  <1> QED
    BY <1>1, <1>2, PTL DEF Spec

(* The variables keep their types. *)
THEOREM TypeCorrect == Spec => []TypeOK
  <1>1. IInv => TypeOK
    BY DEF IInv
  <1> QED
    BY <1>1, IInvHolds, PTL

(* The assertion `intr_no != I8259_NO_INTR' of do_intr() (cpu.c:162) holds *)
(* whatever the heartbeat thread does between its unlocked reads.          *)
THEOREM SpuriousVectorImpossible == Spec => []NoSpuriousVector
  <1>1. IInv => NoSpuriousVector
    BY DEF IInv, TakenInv, NoSpuriousVector
  <1> QED
    BY <1>1, IInvHolds, PTL

(* The one-slot PIC always holds the highest line raised since it was last *)
(* emptied (the priority test of i8259_raise_intr).                        *)
THEOREM HighestPending == Spec => []PendingIsHighest
  <1>1. IInv => PendingIsHighest
    BY DEF IInv
  <1> QED
    BY <1>1, IInvHolds, PTL

(* A full slot is announced by cpu.intr as soon as the raise is complete. *)
THEOREM PendingAnnounced == Spec => []PendingIsAnnounced
  <1>1. IInv => PendingIsAnnounced
    BY DEF IInv
  <1> QED
    BY <1>1, IInvHolds, PTL

(* A step that takes the IDE vector out of the slot is the acknowledgement *)
(* of that vector: ide_intr() of the kernel will run for it.               *)
THEOREM IdeIsDelivered == Spec => IdeNeverLost
  <1>1. ASSUME IInv, [Next]_vars, slot = IDE_IRQ + IRQ_BASE, slot' # slot
        PROVE  pc = "ack" /\ intr_no = slot
    <2>1. \A irq \in IRQs : ~ (slot' = Arbitrate(irq, slot))
      BY <1>1, ArbitrateFacts DEF IInv, TypeOK
    <2>2. \A irq \in IRQs : ~ Raise(irq)
      BY <2>1 DEF Raise
    <2>3. ~ HbSetSlot
      BY <2>1 DEF HbSetSlot, IRQs
    <2>4. AckIntr
      <3>1. slot' # slot
        BY <1>1
      <3>2. TIMER_IRQ \in IRQs /\ KEYBOARD_IRQ \in IRQs /\ IDE_IRQ \in IRQs
        BY DEF IRQs
      <3>3. ~ Devices
        BY <3>1, <3>2, <2>2
           DEF Devices, TimerFires, TimerQuiet, KeyEvent, QuitEvent, QueueEmpty, pic
      <3>4. ~ Guest
        BY <3>1, <3>2, <2>2
           DEF Guest, Ordinary, SetIF, Hlt, IdeRead, AudioPlay, NemuTrap, BreakPoint,
               Halted, pic
      <3>5. ~ Heartbeat
        BY <3>1, <2>3 DEF Heartbeat, HbTop, HbLock, HbSetIntr, HbWake, pic
      <3>6. DoIntr
        BY <1>1, <3>1, <3>3, <3>4, <3>5
           DEF Next, User, Cpu, Exec, ExecReturn, Quit, CloseSdl, Watch, WatchHit, NoWatch,
               vars, pic
      <3> QED
        BY <3>1, <3>6 DEF DoIntr, TestIntr, QueryIntrNo, RaiseIntr, pic
    <2> QED
      BY <1>1, <2>4 DEF AckIntr, IInv, TakenInv
  <1> QED
    BY <1>1, IInvHolds, PTL DEF Spec, IdeNeverLost
=============================================================================
