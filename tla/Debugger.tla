------------------------------ MODULE Debugger ------------------------------
(***************************************************************************)
(* NEMU's monitor: breakpoints and watchpoints (monitor/breakpoint.c), the *)
(* commands that set and delete them (monitor/ui.c) and the loop of exec() *)
(* that stops at them (cpu/cpu.c).                                         *)
(*                                                                         *)
(* A breakpoint is the byte INT3 written over an instruction of the guest; *)
(* stopping at it puts the instruction back, and resuming executes that    *)
(* one instruction before every breakpoint is armed again.                 *)
(*                                                                         *)
(* The guest is any program: an instruction may go anywhere and change the *)
(* variable x the user watches.  One instruction is one byte.              *)
(***************************************************************************)
EXTENDS Integers, SequencesExt

CONSTANTS
  NR_BP,        \* size of bp_list
  NAddr,        \* addresses of instructions of the guest
  Handler,      \* the address interrupts go to
  Breaks,       \* the addresses that hold a BREAK_POINT of the guest's own
  Vals,         \* values of x
  MaxSteps,     \* the largest N the user gives to `si N'; 0: only `c'
  RunsOut,      \* whether a `c' may run out of its 2^32 - 1 instructions
  Duplicates,   \* whether the user sets two breakpoints at one address
  Watches,      \* whether the user sets watchpoints
  None

Addrs == 0 .. NAddr - 1
NOs   == 0 .. NR_BP - 1

ASSUME DebuggerAssumption ==
  /\ NR_BP \in Nat \ {0} /\ NAddr \in Nat \ {0}
  /\ Handler \in Addrs /\ Breaks \subseteq Addrs
  /\ MaxSteps \in Nat /\ {RunsOut, Duplicates, Watches} \subseteq BOOLEAN
  /\ None \notin Addrs

(* Any number of instructions above MaxSteps: `c' is exec(-1), unsigned.   *)
Many == MaxSteps + 1

VARIABLES
  text,         \* the byte at each address: "int3" or an instruction "op"
  eip,
  x,            \* the guest variable watched
  iret,         \* where the interrupt handler returns to; None outside it
  head,         \* the points in use, last set first
  free_,        \* the NOs of the free ones
  nemu_state,
  n,            \* instructions left to exec(), or Many
  rerun,        \* hit_break_rerun
  bp,           \* address of the static bp of exec()
  pc            \* "ui", in the loop ("loop", "devices"), "quit" or "abort"

guest == <<text, eip, x, iret>>
list  == <<head, free_>>
loop  == <<nemu_state, n, rerun, bp, pc>>
vars  == <<guest, list, loop>>

Original(a) == IF a \in Breaks THEN "int3" ELSE "op"

Break(no, a, ori) == [NO |-> no, type |-> "B", addr |-> a, ori_byte |-> ori, old_val |-> None]
Watch(no, val)    == [NO |-> no, type |-> "W", addr |-> None, ori_byte |-> None, old_val |-> val]

Points(type) == {i \in DOMAIN head : head[i].type = type}
BpAddrs      == {head[i].addr : i \in Points("B")}
At(a)        == {i \in Points("B") : head[i].addr = a}

(* i is the first of the places S in the list.                             *)
IsFirst(i, S) == i \in S /\ \A k \in S : i <= k

-----------------------------------------------------------------------------
(* The commands.  new_BP() asserts that a point is free.                   *)

Command == pc = "ui"

Abort ==
  /\ pc' = "abort"
  /\ UNCHANGED <<guest, list, nemu_state, n, rerun, bp>>

SetBreakpoint(a) ==
  /\ Command
  /\ a \in BpAddrs => Duplicates
  /\ IF free_ = <<>> THEN Abort
     ELSE /\ head' = <<Break(free_[1], a, text[a])>> \o head
          /\ free_' = Tail(free_)
          /\ text' = [text EXCEPT ![a] = "int3"]
          /\ UNCHANGED <<eip, x, iret, loop>>

SetWatchpoint ==
  /\ Command /\ Watches
  /\ IF free_ = <<>> THEN Abort
     ELSE /\ head' = <<Watch(free_[1], x)>> \o head
          /\ free_' = Tail(free_)
          /\ UNCHANGED <<guest, loop>>

(* Mutant of Restored: the byte is not put back.                           *)
RestoredNot(t, p) == t

(* free_BP puts the byte of a breakpoint back.                             *)
Restored(t, p) == IF p.type = "B" THEN [t EXCEPT ![p.addr] = p.ori_byte] ELSE t

(* Mutant of DeleteBreakpoint: INT3 stays in the code.                     *)
DeleteLeavesInt3(i) ==
  /\ Command
  /\ head' = RemoveAt(head, i)
  /\ free_' = <<head[i].NO>> \o free_
  /\ UNCHANGED <<guest, loop>>

DeleteBreakpoint(i) ==
  /\ Command
  /\ text' = Restored(text, head[i])
  /\ head' = RemoveAt(head, i)
  /\ free_' = <<head[i].NO>> \o free_
  /\ UNCHANGED <<eip, x, iret, loop>>

AllRestored ==
  [a \in Addrs |->
     IF a \in BpAddrs
       THEN head[CHOOSE i \in At(a) : IsFirst(i, At(a))].ori_byte
       ELSE text[a]]

(* Mutant of DeleteAll: the points are not given back.                     *)
DeleteAllLeaks ==
  /\ Command
  /\ text' = AllRestored
  /\ head' = <<>>
  /\ UNCHANGED <<eip, x, iret, free_, loop>>

(* The recursion frees the tail of the list first: the byte an address is  *)
(* left with is that of its first breakpoint in the list.                  *)
DeleteAll ==
  /\ Command
  /\ text' = AllRestored
  /\ free_' = [i \in DOMAIN head |-> head[i].NO] \o free_
  /\ head' = <<>>
  /\ UNCHANGED <<eip, x, iret, loop>>

(* `q', and a monitor that finds NEMU_STOP after a command.                *)
Quit ==
  /\ Command
  /\ pc' = "quit"
  /\ UNCHANGED <<guest, list, nemu_state, n, rerun, bp>>

(* Mutant of Exec: a stop at a breakpoint is forgotten.                    *)
ExecForgets(k) ==
  /\ Command
  /\ rerun' = FALSE
  /\ nemu_state' = "RUN" /\ n' = k /\ pc' = "loop"
  /\ UNCHANGED <<guest, list, bp>>

(* `c' is exec(-1), `si N' is exec(N).                                     *)
Exec(k) ==
  /\ Command
  /\ rerun' = (nemu_state = "BREAK")
  /\ nemu_state' = "RUN" /\ n' = k /\ pc' = "loop"
  /\ UNCHANGED <<guest, list, bp>>

-----------------------------------------------------------------------------
(* The loop of exec().                                                     *)

Running == pc = "loop" /\ n > 0 /\ nemu_state = "RUN"

ExecReturn ==
  /\ pc = "loop" /\ ~Running
  /\ IF nemu_state = "STOP" THEN pc' = "quit" /\ UNCHANGED nemu_state
     ELSE pc' = "ui" /\ nemu_state' = IF n = 0 THEN "READY" ELSE nemu_state
  /\ UNCHANGED <<guest, list, n, rerun, bp>>

(* Mutant of Resumed: nothing is armed again.                              *)
ResumedNot == text

(* resume_breakpoints(), after the first instruction of a rerun.           *)
Resumed == IF rerun THEN [a \in Addrs |-> IF a \in BpAddrs THEN "int3" ELSE text[a]]
           ELSE text

(* scan_watchpoint(), after an instruction that leaves v in x and s in     *)
(* nemu_state: the first watchpoint whose value has changed is reported,   *)
(* and ends exec() with READY.                                             *)
ScanWatchpoints(v, s) ==
  LET changed == {i \in Points("W") : head[i].old_val # v}
  IN IF changed = {}
       THEN pc' = "devices" /\ nemu_state' = s /\ UNCHANGED head
       ELSE /\ pc' = "ui" /\ nemu_state' = "READY"
            /\ \E i \in changed :
                 IsFirst(i, changed) /\ head' = [head EXCEPT ![i].old_val = v]

(* One less than many may be many, or MaxSteps.                            *)
Fetch(byte) ==
  /\ Running /\ text[eip] = byte
  /\ \/ n = Many /\ n' = Many
     \/ (n = Many => RunsOut) /\ n' = n - 1
  /\ rerun' = FALSE
  /\ UNCHANGED free_

(* An instruction of the guest.                                            *)
Ordinary ==
  /\ Fetch("op")
  /\ eip' \in Addrs
  /\ text' = Resumed
  /\ \E v \in Vals : x' = v /\ ScanWatchpoints(v, "RUN")
  /\ UNCHANGED <<iret, bp>>

Iret ==
  /\ Fetch("op") /\ iret # None
  /\ eip' = iret /\ iret' = None
  /\ text' = Resumed
  /\ ScanWatchpoints(x, "RUN")
  /\ UNCHANGED <<x, bp>>

NemuTrap ==
  /\ Fetch("op")
  /\ eip' = (eip + 1) % NAddr
  /\ text' = Resumed
  /\ ScanWatchpoints(x, "STOP")
  /\ UNCHANGED <<x, iret, bp>>

(* INT3: a breakpoint in the list is stopped at with its byte put back;    *)
(* any other is taken for a BREAK_POINT of the guest and passed.           *)
HitBreakpoint ==
  /\ Fetch("int3")
  /\ \E i \in At(eip) :
       IsFirst(i, At(eip)) /\ text' = Restored(Resumed, head[i])
  /\ bp' = eip
  /\ UNCHANGED <<eip, x, iret>>
  /\ ScanWatchpoints(x, "BREAK")

PassBreak ==
  /\ Fetch("int3") /\ At(eip) = {}
  /\ text' = Resumed
  /\ eip' = (eip + 1) % NAddr
  /\ bp' = None
  /\ UNCHANGED <<x, iret>>
  /\ ScanWatchpoints(x, "BREAK")

(* do_devices() and do_intr() come also after an instruction that stopped: *)
(* nothing happens, the window is closed, or an interrupt is taken.        *)
NoEvent ==
  /\ pc = "devices"
  /\ pc' = "loop"
  /\ UNCHANGED <<guest, list, nemu_state, n, rerun, bp>>

WindowClosed ==
  /\ pc = "devices"
  /\ pc' = "loop" /\ nemu_state' = "STOP"
  /\ UNCHANGED <<guest, list, n, rerun, bp>>

Interrupt ==
  /\ pc = "devices" /\ iret = None
  /\ pc' = "loop" /\ eip' = Handler /\ iret' = eip
  /\ UNCHANGED <<text, x, list, nemu_state, n, rerun, bp>>

-----------------------------------------------------------------------------
(* restart() and load_exec(); x is whatever the image holds.               *)
Init ==
  /\ text = [a \in Addrs |-> Original(a)]
  /\ eip = 0 /\ x \in Vals /\ iret = None
  /\ head = <<>> /\ free_ = [i \in 1 .. NR_BP |-> i - 1]
  /\ nemu_state = "READY" /\ n = 0 /\ rerun = FALSE /\ bp = None /\ pc = "ui"

User == \/ \E a \in Addrs : SetBreakpoint(a)
        \/ SetWatchpoint
        \/ \E i \in DOMAIN head : DeleteBreakpoint(i)
        \/ DeleteAll \/ Quit
        \/ \E k \in 1 .. Many : Exec(k)

Machine == \/ ExecReturn \/ Ordinary \/ Iret \/ NemuTrap \/ HitBreakpoint \/ PassBreak
           \/ NoEvent \/ WindowClosed \/ Interrupt

Next == User \/ Machine

Spec == Init /\ [][Next]_vars

-----------------------------------------------------------------------------
Point ==
  [NO : NOs, type : {"B"}, addr : Addrs, ori_byte : {"op", "int3"}, old_val : {None}]
  \union
  [NO : NOs, type : {"W"}, addr : {None}, ori_byte : {None}, old_val : Vals]

(* The type of the monitor's state.                                        *)
TypeOK ==
  /\ text \in [Addrs -> {"op", "int3"}]
  /\ eip \in Addrs /\ x \in Vals /\ iret \in Addrs \union {None}
  /\ head \in Seq(Point) /\ free_ \in Seq(NOs)
  /\ nemu_state \in {"READY", "RUN", "BREAK", "STOP"}
  /\ n \in 0 .. Many
  /\ rerun \in BOOLEAN /\ bp \in Addrs \union {None}
  /\ pc \in {"ui", "loop", "devices", "quit", "abort"}

(* The two lists share out bp_list: every point is in one of them, and     *)
(* together they have no room for a point to be there twice.               *)
PoolIsShared ==
  /\ Len(head) + Len(free_) = NR_BP
  /\ \A no \in NOs : \/ \E i \in DOMAIN head : head[i].NO = no
                     \/ \E i \in DOMAIN free_ : free_[i] = no

(* Deleting the breakpoints gives the guest its code back: memory differs  *)
(* from the original only by the INT3 of a point in the list, which has    *)
(* kept the byte it stands for.                                            *)
CodeIsKept ==
  /\ \A a \in Addrs \ BpAddrs : text[a] = Original(a)
  /\ \A i \in Points("B") : /\ head[i].ori_byte = Original(head[i].addr)
                            /\ text[head[i].addr] \in {"int3", Original(head[i].addr)}

(* An INT3 that is not in the list is the guest's own (cpu.c:87, "not      *)
(* found, it is triggered by BREAK_POINT in the code").                    *)
NotFoundIsTheGuests == [][PassBreak => eip \in Breaks]_vars
=============================================================================
