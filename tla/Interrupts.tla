----------------------------- MODULE Interrupts -----------------------------
(***************************************************************************)
(* NEMU's interrupt path: the one-slot i8259 (device/i8259_pic.c), the     *)
(* execution loop that polls the devices and takes interrupts (cpu/cpu.c), *)
(* the devices that raise them on the CPU thread (timer, keyboard, IDE)    *)
(* and the audio heartbeat thread that raises AUDIO_IRQ concurrently.      *)
(*                                                                         *)
(* Two threads share i8259_intr_no and cpu.intr.  Both write them only     *)
(* under i8259_mutex, but do_intr() reads both without it.  The critical   *)
(* sections of the CPU thread are therefore single steps (the other thread *)
(* never looks inside), those of the heartbeat thread are split.           *)
(*                                                                         *)
(* The guest is any program: each instruction it may execute that touches  *)
(* this state is an action, everything else is Ordinary.                   *)
(***************************************************************************)
EXTENDS I8259

CONSTANT MaxSteps   \* the largest N the user passes to `si N`

ASSUME MaxStepsAssumption == MaxSteps \in Nat \ {0}

(* Any count above MaxSteps; `c' is exec(-1), that is 2^32 - 1 of them.    *)
Many == MaxSteps + 1

VARIABLES
  slot,         \* i8259_intr_no: the vector pending, or NO_INTR
  intr,         \* cpu.intr
  mutex,        \* i8259_mutex: "free", held by "hb", or "destroyed"
  hb,           \* program counter of AUDIO_HB_Thread
  audio_active,
  pc,           \* program counter of the CPU thread (exec, do_devices, do_intr)
  nemu_state,
  n,            \* instructions exec() still has to run, or Many
  eflags_IF,    \* cpu.eflags.IF
  hlt,          \* is_nemu_hlt
  intr_no,      \* the local of do_intr()
  requests      \* history: the IRQs raised since the slot was last emptied

pic  == <<slot, intr, requests>>
cpu  == <<pc, nemu_state, n, eflags_IF, hlt, intr_no>>
beat == <<hb, audio_active>>
vars == <<pic, mutex, cpu, beat>>

-----------------------------------------------------------------------------
(* i8259_raise_intr and i8259_ack_intr, as the CPU thread runs them.       *)

(* Mutant of Raise: cpu.intr is not set.                                   *)
RaiseSilently(irq) ==
  /\ mutex = "free"
  /\ slot' = Arbitrate(irq, slot)
  /\ requests' = requests \union {irq}
  /\ UNCHANGED intr

Raise(irq) ==
  /\ mutex = "free"
  /\ slot' = Arbitrate(irq, slot)
  /\ intr' = 1
  /\ requests' = requests \union {irq}

(* Mutant of Ack: the mutex is not taken.                                  *)
AckUnlocked ==
  /\ slot' = NO_INTR
  /\ intr' = 0
  /\ requests' = {}

Ack ==
  /\ mutex = "free"
  /\ slot' = NO_INTR
  /\ intr' = 0
  /\ requests' = {}

-----------------------------------------------------------------------------
(* The monitor: `c' is exec(-1), `si N' is exec(N).                        *)

Exec(k) ==
  /\ pc = "ui"
  /\ pc' = "loop" /\ nemu_state' = "RUN" /\ n' = k
  /\ UNCHANGED <<pic, mutex, beat, eflags_IF, hlt, intr_no>>

(* The loop of exec() ends: NEMU_STOP destroys the PIC's mutex, anything   *)
(* else returns to the monitor.                                            *)
ExecReturn ==
  /\ pc = "loop"
  /\ n = 0 \/ nemu_state # "RUN"
  /\ IF nemu_state = "STOP"
       THEN pc' = "closing" /\ mutex' = "destroyed" /\ UNCHANGED nemu_state
       ELSE /\ pc' = "ui" /\ UNCHANGED mutex
            /\ nemu_state' = IF n = 0 THEN "READY" ELSE nemu_state
  /\ UNCHANGED <<pic, beat, n, eflags_IF, hlt, intr_no>>

(* `q' leaves the monitor with the mutex alive.                            *)
Quit ==
  /\ pc = "ui"
  /\ pc' = "closing"
  /\ UNCHANGED <<pic, mutex, beat, nemu_state, n, eflags_IF, hlt, intr_no>>

(* main() after ui_mainloop(): close_sdl() and its audio_stop().           *)
CloseSdl ==
  /\ pc = "closing"
  /\ pc' = "closed" /\ audio_active' = FALSE
  /\ UNCHANGED <<pic, mutex, hb, nemu_state, n, eflags_IF, hlt, intr_no>>

-----------------------------------------------------------------------------
(* One instruction of the guest, followed by do_devices() and do_intr().   *)

(* Mutant of Running: the count is not looked at.                          *)
RunningOn == pc = "loop" /\ nemu_state = "RUN"

Running == pc = "loop" /\ n > 0 /\ nemu_state = "RUN"

(* exec_inst(), unless the CPU is halted: n counts instructions only, and  *)
(* one less than many may be many.                                         *)
Fetch ==
  /\ Running /\ ~hlt
  /\ \/ n' = n - 1
     \/ n = Many /\ n' = Many
  /\ pc' = "watch"

Ordinary ==
  /\ Fetch
  /\ UNCHANGED <<pic, mutex, beat, nemu_state, eflags_IF, hlt, intr_no>>

(* cli, sti, int and iret, which loads whatever eflags the guest stacked.  *)
SetIF ==
  /\ Fetch
  /\ eflags_IF' \in BOOLEAN
  /\ UNCHANGED <<pic, mutex, beat, nemu_state, hlt, intr_no>>

Hlt ==
  /\ Fetch
  /\ hlt' = TRUE
  /\ UNCHANGED <<pic, mutex, beat, nemu_state, eflags_IF, intr_no>>

(* out of the read command to the IDE: the data is ready at once.          *)
IdeRead ==
  /\ Fetch
  /\ Raise(IDE_IRQ)
  /\ UNCHANGED <<mutex, beat, nemu_state, eflags_IF, hlt, intr_no>>

(* out of `play` to AUDIO_CTL: the heartbeat thread is created once.       *)
AudioPlay ==
  /\ Fetch
  /\ IF hb = "none" THEN hb' = "top" /\ audio_active' = TRUE ELSE UNCHANGED beat
  /\ UNCHANGED <<pic, mutex, nemu_state, eflags_IF, hlt, intr_no>>

NemuTrap ==
  /\ Fetch
  /\ nemu_state' = "STOP"
  /\ UNCHANGED <<pic, mutex, beat, eflags_IF, hlt, intr_no>>

(* BREAK_POINT in the code, or a breakpoint of the monitor.                *)
BreakPoint ==
  /\ Fetch
  /\ nemu_state' = "BREAK"
  /\ UNCHANGED <<pic, mutex, beat, eflags_IF, hlt, intr_no>>

(* A watchpoint whose value the instruction changed ends exec() at once,   *)
(* whatever the instruction did to nemu_state.                             *)
WatchHit ==
  /\ pc = "watch"
  /\ pc' = "ui" /\ nemu_state' = "READY"
  /\ UNCHANGED <<pic, mutex, beat, n, eflags_IF, hlt, intr_no>>

NoWatch ==
  /\ pc = "watch"
  /\ pc' = "timer"
  /\ UNCHANGED <<pic, mutex, beat, nemu_state, n, eflags_IF, hlt, intr_no>>

(* Mutant of Halted: a halted CPU does not poll the devices.               *)
HaltedUnpolled ==
  /\ Running /\ hlt
  /\ pc' = "intr"
  /\ UNCHANGED <<pic, mutex, beat, nemu_state, n, eflags_IF, hlt, intr_no>>

(* A halted CPU runs no instruction, but the loop goes on polling.         *)
Halted ==
  /\ Running /\ hlt
  /\ pc' = "timer"
  /\ UNCHANGED <<pic, mutex, beat, nemu_state, n, eflags_IF, hlt, intr_no>>

Guest == \/ Ordinary \/ SetIF \/ Hlt \/ IdeRead \/ AudioPlay \/ NemuTrap
         \/ BreakPoint \/ Halted

Watch == WatchHit \/ NoWatch

-----------------------------------------------------------------------------
(* do_devices(): do_timer() then do_keyboard(); do_vga() raises nothing.   *)

(* The interval has elapsed; timer_intr() raises only while running.       *)
TimerFires ==
  /\ pc = "timer"
  /\ IF nemu_state = "RUN" THEN Raise(TIMER_IRQ) ELSE UNCHANGED pic
  /\ pc' = "keyboard"
  /\ UNCHANGED <<mutex, beat, nemu_state, n, eflags_IF, hlt, intr_no>>

TimerQuiet ==
  /\ pc = "timer"
  /\ pc' = "keyboard"
  /\ UNCHANGED <<pic, mutex, beat, nemu_state, n, eflags_IF, hlt, intr_no>>

(* do_keyboard() drains the SDL queue: key events raise, SDL_QUIT stops.   *)
KeyEvent ==
  /\ pc = "keyboard"
  /\ Raise(KEYBOARD_IRQ)
  /\ UNCHANGED <<mutex, beat, cpu>>

QuitEvent ==
  /\ pc = "keyboard"
  /\ nemu_state' = "STOP"
  /\ UNCHANGED <<pic, mutex, beat, pc, n, eflags_IF, hlt, intr_no>>

QueueEmpty ==
  /\ pc = "keyboard"
  /\ pc' = "intr"
  /\ UNCHANGED <<pic, mutex, beat, nemu_state, n, eflags_IF, hlt, intr_no>>

Devices == TimerFires \/ TimerQuiet \/ KeyEvent \/ QuitEvent \/ QueueEmpty

-----------------------------------------------------------------------------
(* do_intr(): the test and the query read shared state without the mutex.  *)

TestIntr ==
  /\ pc = "intr"
  /\ IF intr = 1 /\ eflags_IF
       THEN hlt' = FALSE /\ pc' = "query"
       ELSE pc' = "loop" /\ UNCHANGED hlt
  /\ UNCHANGED <<pic, mutex, beat, nemu_state, n, eflags_IF, intr_no>>

QueryIntrNo ==
  /\ pc = "query"
  /\ intr_no' = slot
  /\ pc' = "ack"
  /\ UNCHANGED <<pic, mutex, beat, nemu_state, n, eflags_IF, hlt>>

AckIntr ==
  /\ pc = "ack"
  /\ Ack
  /\ pc' = "vector"
  /\ UNCHANGED <<mutex, beat, nemu_state, n, eflags_IF, hlt, intr_no>>

(* raise_intr(): every hardware line the kernel uses has an interrupt gate. *)
RaiseIntr ==
  /\ pc = "vector"
  /\ eflags_IF' = FALSE
  /\ pc' = "loop"
  /\ UNCHANGED <<pic, mutex, beat, nemu_state, n, hlt, intr_no>>

DoIntr == TestIntr \/ QueryIntrNo \/ AckIntr \/ RaiseIntr

-----------------------------------------------------------------------------
(* AUDIO_HB_Thread: raise AUDIO_IRQ, sleep, and again while audio_active.  *)

HbTop ==
  /\ hb = "top"
  /\ hb' = IF audio_active THEN "lock" ELSE "done"
  /\ UNCHANGED <<pic, mutex, cpu, audio_active>>

(* SDL_LockMutex on a live mutex waits for it.  On a destroyed one its     *)
(* result is undefined: it may fail, and raise gives up on NEMU_STOP, or   *)
(* it may appear to succeed.                                               *)
HbLock ==
  /\ hb = "lock"
  /\ \/ mutex = "free" /\ mutex' = "hb" /\ hb' = "slot"
     \/ mutex = "destroyed" /\ hb' \in {"slot", "sleep"} /\ UNCHANGED mutex
  /\ UNCHANGED <<pic, cpu, audio_active>>

HbSetSlot ==
  /\ hb = "slot"
  /\ slot' = Arbitrate(AUDIO_IRQ, slot)
  /\ requests' = requests \union {AUDIO_IRQ}
  /\ hb' = "intr"
  /\ UNCHANGED <<intr, mutex, cpu, audio_active>>

HbSetIntr ==
  /\ hb = "intr"
  /\ intr' = 1
  /\ mutex' = IF mutex = "hb" THEN "free" ELSE mutex
  /\ hb' = "sleep"
  /\ UNCHANGED <<slot, requests, cpu, audio_active>>

HbWake ==
  /\ hb = "sleep"
  /\ hb' = "top"
  /\ UNCHANGED <<pic, mutex, cpu, audio_active>>

Heartbeat == HbTop \/ HbLock \/ HbSetSlot \/ HbSetIntr \/ HbWake

-----------------------------------------------------------------------------
(* restart(): init_cpu(), i8259_init(), audio_start(); then the monitor.   *)
Init ==
  /\ slot = NO_INTR /\ intr = 0 /\ requests = {}
  /\ mutex = "free"
  /\ hb = "none" /\ audio_active = FALSE
  /\ pc = "ui" /\ nemu_state = "READY" /\ n = 0
  /\ eflags_IF = FALSE /\ hlt = FALSE /\ intr_no = NO_INTR

User == (\E k \in 1 .. Many : Exec(k)) \/ Quit

Cpu == ExecReturn \/ CloseSdl \/ Guest \/ Watch \/ Devices \/ DoIntr

Next == User \/ Cpu \/ Heartbeat

Spec == Init /\ [][Next]_vars

(* Both threads keep running, the user need not; the host clock advances,  *)
(* so a polled timer does fire; the SDL queue is finite; and the mutex,    *)
(* held for a few instructions once a second, does not starve the CPU.     *)
Fairness ==
  /\ WF_vars(Cpu) /\ WF_vars(Heartbeat)
  /\ SF_vars(TimerFires) /\ SF_vars(QueueEmpty) /\ SF_vars(AckIntr)

FairSpec == Spec /\ Fairness

-----------------------------------------------------------------------------
(* The type of the state of i8259_pic.c, cpu.c and the heartbeat thread.   *)
TypeOK ==
  /\ slot \in Vectors \union {NO_INTR}
  /\ intr \in {0, 1}
  /\ requests \in SUBSET IRQs
  /\ mutex \in {"free", "hb", "destroyed"}
  /\ hb \in {"none", "top", "lock", "slot", "intr", "sleep", "done"}
  /\ audio_active \in BOOLEAN
  /\ pc \in {"ui", "loop", "watch", "timer", "keyboard", "intr", "query", "ack",
             "vector", "closing", "closed"}
  /\ nemu_state \in {"READY", "RUN", "BREAK", "STOP"}
  /\ n \in 0 .. Many
  /\ eflags_IF \in BOOLEAN
  /\ hlt \in BOOLEAN
  /\ intr_no \in Vectors \union {NO_INTR}

(* The assertion of do_intr() never fails, although cpu.intr and the slot  *)
(* are read without the mutex while the heartbeat thread changes them.     *)
NoSpuriousVector == pc = "ack" => intr_no # NO_INTR

(* Whatever was raised since the slot was last emptied, the slot holds the *)
(* highest of those lines, and it is empty only if nothing was raised.     *)
PendingIsHighest ==
  /\ slot = NO_INTR <=> requests = {}
  /\ slot # NO_INTR => /\ slot - IRQ_BASE \in requests
                       /\ \A irq \in requests : irq + IRQ_BASE <= slot

(* A pending vector is announced by cpu.intr unless the heartbeat thread   *)
(* is between its two stores: no request stays unnoticed by do_intr().     *)
PendingIsAnnounced ==
  slot # NO_INTR /\ hb # "intr" => intr = 1

(* A pending IDE interrupt leaves the slot only by being delivered: no     *)
(* other line, from either thread, can displace it.                        *)
IdeNeverLost ==
  [][slot = IDE_IRQ + IRQ_BASE /\ slot' # slot
       => pc = "ack" /\ intr_no = slot]_vars

(* A CPU halted with interrupts enabled wakes up, unless the monitor takes *)
(* over: the timer sees to it whatever the other devices do.               *)
HaltWakes == (hlt /\ eflags_IF /\ nemu_state = "RUN") ~> (~hlt \/ nemu_state # "RUN")

(* What the PIC is told was received is what do_intr() received            *)
(* (cpu.c:163, "tell the PIC interrupt info received").                    *)
AckIsOfTheVectorReceived == [][AckIntr => slot = intr_no]_vars
=============================================================================
