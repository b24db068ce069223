------------------------------- MODULE Typing -------------------------------
(***************************************************************************)
(* The typing game (game/src/typing/) on the kernel's table of interrupt   *)
(* handlers (kernel/src/irq/irq_handle.c), the keyboard controller         *)
(* (nemu/src/device/dev/keyboard.c) and the one-slot PIC.                  *)
(*                                                                         *)
(* Letters fall; the key of a letter sends it up again.  They are nodes of *)
(* a doubly linked list with a pool of its own (game/include/adt/          *)
(* linklist.h), modelled with its pointers.  The main loop catches up with *)
(* the ticks that the timer handler counts.                                *)
(*                                                                         *)
(* The loop shares tick and letter_pressed with the handlers, so it can be *)
(* interrupted where it reads or writes them: nothing else it does can     *)
(* tell when an interrupt came.  Heights are in half lines, the speed of   *)
(* fall being 0.5.                                                         *)
(***************************************************************************)
EXTENDS I8259, SequencesExt

CONSTANTS
  Letters,
  Other,      \* any other scan code: of another key, or of a key released
  SIZE,       \* of LINKLIST_IMPL(fly, SIZE)
  Null,
  Bottom,     \* the lowest height on the screen: 2 * (SCR_HEIGHT - 7.9), rounded
  Rise,       \* the speed of a struck letter: 2 * 3
  Period,     \* HZ / CHARACTER_PER_SECOND, ticks between two letters
  MaxOwed     \* bound: ticks a game that runs may be late; at hlt, one more

Nodes == 0 .. SIZE          \* fly_pool; the last one is never given out

ASSUME TypingAssumption ==
  /\ Letters # {} /\ Other \notin Letters
  /\ SIZE \in Nat \ {0} /\ Null \notin Nodes
  /\ Bottom \in Nat /\ Rise \in Nat \ {0}
  /\ Period \in Nat \ {0} /\ MaxOwed \in Nat \ {0}

(* The pool is large enough: a letter falls for Bottom ticks and takes at  *)
(* most Bottom \div Rise to be up again, and one appears in each Period.   *)
(* (In the code: 384 + 64 ticks, a letter in 33 of them, 1000 nodes.)      *)
Lifetime == Bottom + Bottom \div Rise

ASSUME PoolAssumption == Lifetime < Period * SIZE

VARIABLES
  slot,            \* the PIC: the vector pending, or NO_INTR
  eflags_IF,
  scan_code_buf,   \* the keyboard's only scan code: that of a letter, or Other
  handles,         \* handles[irq]: the routines called for a line, in order
  handler,         \* whether the keyboard's interrupt is being handled
  letter_pressed,  \* the letters whose flag is set
  owed,            \* tick - now
  behind,          \* target - now
  phase,           \* now % Period
  pc,              \* where the game is
  it,              \* the local of update_letter_pos()
  next, prev,      \* _next and _prev of each node of the pool
  free_head,       \* fly_free_head
  head,
  fly              \* what the nodes in the list hold

pic   == <<slot, scan_code_buf>>
ticks == <<owed, behind, phase>>
pool  == <<next, prev, free_head, head, fly>>
vars  == <<pic, eflags_IF, handles, handler, letter_pressed, ticks, pc, it, pool>>

Live    == DOMAIN fly
Falling == {n \in Live : fly[n].v > 0}

-----------------------------------------------------------------------------
(* The devices.  do_devices() polls them after each instruction, so events *)
(* come at any point; the model has them where an interrupt can matter.    *)

Interruptible == handler \/ pc \in {"boot", "loop", "hlt", "check", "keys", "chase"}

(* timer_intr().  The timer waits for a game that runs, not at a hlt.      *)
TimerFires ==
  /\ Interruptible
  /\ owed < MaxOwed \/ pc = "hlt"
  /\ slot' = Arbitrate(TIMER_IRQ, slot)
  /\ UNCHANGED <<eflags_IF, scan_code_buf, handles, handler, letter_pressed, ticks, pc, it, pool>>

(* Called, a history: since a letter appeared, its key was pressed, and no *)
(* other letter has been struck with that press.                           *)
Called(text) ==
  [n \in Live |-> IF fly[n].text = text THEN [fly[n] EXCEPT !.called = TRUE] ELSE fly[n]]

(* keyboard_down() and keyboard_up(): the newest event has the buffer.     *)
KeyEvent(code) ==
  /\ Interruptible
  /\ scan_code_buf' = code
  /\ slot' = Arbitrate(KEYBOARD_IRQ, slot)
  /\ fly' = Called(code)
  /\ UNCHANGED <<eflags_IF, handles, handler, letter_pressed, ticks, pc, it, next, prev, free_head, head>>

-----------------------------------------------------------------------------
(* Interrupts: do_intr() of NEMU, irq_handle() of the kernel, and the      *)
(* game's routines.  The gates are interrupt gates: IF is off in a handler.*)

Calls(irq, routine) == Contains(handles[irq], routine)

Pending == eflags_IF /\ slot # NO_INTR

(* A taken interrupt wakes the CPU from hlt.                               *)
Woken == IF pc = "hlt" THEN "check" ELSE pc

(* timer_event(): tick++.                                                  *)
TimerIntr ==
  /\ Pending /\ slot = TIMER_IRQ + IRQ_BASE
  /\ slot' = NO_INTR
  /\ owed' = IF Calls(TIMER_IRQ, "timer_event") THEN owed + 1 ELSE owed
  /\ pc' = Woken
  /\ UNCHANGED <<eflags_IF, scan_code_buf, handles, handler, letter_pressed, behind, phase, it, pool>>

KeyboardIntr ==
  /\ Pending /\ slot = KEYBOARD_IRQ + IRQ_BASE
  /\ slot' = NO_INTR
  /\ eflags_IF' = FALSE /\ handler' = TRUE
  /\ pc' = Woken
  /\ UNCHANGED <<scan_code_buf, handles, letter_pressed, ticks, it, pool>>

(* keyboard_event(): the buffer is read now, not when the interrupt came.  *)
ReadKey ==
  /\ handler
  /\ IF Calls(KEYBOARD_IRQ, "keyboard_event") /\ scan_code_buf # Other
       THEN letter_pressed' = letter_pressed \union {scan_code_buf}
       ELSE UNCHANGED letter_pressed
  /\ handler' = FALSE /\ eflags_IF' = TRUE
  /\ UNCHANGED <<pic, handles, ticks, pc, it, pool>>

-----------------------------------------------------------------------------
(* The game.  A pending interrupt is taken before the next instruction.    *)

At(p) == pc = p /\ ~handler /\ ~Pending

(* game_init(): two system calls, which add a handler with interrupts off. *)
AddIrqHandle(irq, routine) ==
  handles' = [handles EXCEPT ![irq] = <<routine>> \o @]

Boot ==
  /\ At("boot")
  /\ IF Calls(TIMER_IRQ, "timer_event")
       THEN AddIrqHandle(KEYBOARD_IRQ, "keyboard_event") /\ pc' = "loop"
       ELSE AddIrqHandle(TIMER_IRQ, "timer_event") /\ UNCHANGED pc
  /\ UNCHANGED <<pic, eflags_IF, handler, letter_pressed, ticks, it, pool>>

Hlt ==
  /\ At("loop")
  /\ pc' = "hlt"
  /\ UNCHANGED <<pic, eflags_IF, handles, handler, letter_pressed, ticks, it, pool>>

(* Mutant of Check: sti() is left out before `continue'.                   *)
CheckQuiet ==
  /\ At("check")
  /\ IF owed = 0 THEN pc' = "loop" /\ eflags_IF' = FALSE /\ UNCHANGED behind
     ELSE pc' = "keys" /\ behind' = owed /\ UNCHANGED eflags_IF
  /\ UNCHANGED <<pic, handles, handler, letter_pressed, owed, phase, it, pool>>

(* From cli() to sti() after the hlt.                                      *)
Check ==
  /\ At("check")
  /\ IF owed = 0 THEN pc' = "loop" /\ UNCHANGED behind
     ELSE pc' = "keys" /\ behind' = owed
  /\ UNCHANGED <<pic, eflags_IF, handles, handler, letter_pressed, owed, phase, it, pool>>

(* update_keypress().  With a letter found it returns with interrupts off, *)
(* and is called again.  No two letters that fall have one height.         *)
Targets == {n \in Falling : fly[n].text \in letter_pressed}

IsLowest(n) == n \in Targets /\ \A m \in Targets : fly[m].x <= fly[n].x

(* The press is used up: of the history, for the other letters too, unless *)
(* an event of that key has yet to be read.                                *)
Unread(text) == scan_code_buf = text /\ slot = KEYBOARD_IRQ + IRQ_BASE

Struck(n) ==
  [m \in Live |->
     IF m = n THEN [fly[n] EXCEPT !.v = -Rise]
     ELSE IF fly[m].text = fly[n].text THEN [fly[m] EXCEPT !.called = @ /\ Unread(fly[n].text)]
     ELSE fly[m]]

(* Mutant of Strike: the key stays pressed.                                *)
StrikeAgain(n) ==
  /\ At("keys") /\ IsLowest(n)
  /\ fly' = Struck(n)
  /\ eflags_IF' = FALSE
  /\ UNCHANGED <<pic, handles, handler, letter_pressed, ticks, pc, it, next, prev, free_head, head>>

Strike(n) ==
  /\ At("keys") /\ IsLowest(n)
  /\ letter_pressed' = letter_pressed \ {fly[n].text}
  /\ fly' = Struck(n)
  /\ eflags_IF' = FALSE
  /\ UNCHANGED <<pic, handles, handler, ticks, pc, it, next, prev, free_head, head>>

(* Mutant of KeysDone: sti() is left out.                                  *)
KeysDoneQuiet ==
  /\ At("keys") /\ Targets = {}
  /\ pc' = "chase"
  /\ UNCHANGED <<pic, eflags_IF, handles, handler, letter_pressed, ticks, it, pool>>

KeysDone ==
  /\ At("keys") /\ Targets = {}
  /\ eflags_IF' = TRUE
  /\ pc' = "chase"
  /\ UNCHANGED <<pic, handles, handler, letter_pressed, ticks, it, pool>>

-----------------------------------------------------------------------------
(* fly_new(): a pool without a free list is threaded first.                *)
Threaded  == IF free_head = Null
               THEN [n \in Nodes |-> IF n < SIZE THEN n + 1 ELSE next[n]] ELSE next
FirstFree == IF free_head = Null THEN 0 ELSE free_head

Letter(l) == [x |-> 0, v |-> 1, text |-> l, called |-> FALSE]

(* `assert(free_head->_next != NULL)' of fly_new().                        *)
IsFree == Threaded[FirstFree] # Null

(* create_new_letter(): a node is inserted at the head of the list, and    *)
(* its key released.                                                       *)
Created(l) ==
  LET node == FirstFree IN
  /\ free_head' = Threaded[node]
  /\ next' = [Threaded EXCEPT ![node] = head]
  /\ prev' = [n \in Nodes |-> IF n = node THEN Null ELSE IF n = head THEN node ELSE prev[n]]
  /\ head' = node
  /\ fly' = [n \in Live \union {node} |-> IF n = node THEN Letter(l) ELSE fly[n]]

CreateNewLetter(l) ==
  /\ At("chase") /\ behind > 0 /\ phase = 0
  /\ IF IsFree THEN /\ Created(l) /\ letter_pressed' = letter_pressed \ {l}
                    /\ pc' = "move" /\ it' = head'
     ELSE pc' = "abort" /\ UNCHANGED <<pool, letter_pressed, it>>
  /\ UNCHANGED <<pic, eflags_IF, handles, handler, ticks>>

NoNewLetter ==
  /\ At("chase") /\ behind > 0 /\ phase # 0
  /\ pc' = "move" /\ it' = head
  /\ UNCHANGED <<pic, eflags_IF, handles, handler, letter_pressed, ticks, pool>>

(* The body of the loop of update_letter_pos(): the letter moves, or is    *)
(* removed from the list and freed.                                        *)
Moved(n)  == fly[n].x + fly[n].v
Leaves(n) == Moved(n) < 0 \/ Moved(n) > Bottom

MoveLetter ==
  /\ pc = "move" /\ it # Null /\ ~Leaves(it)
  /\ fly' = [fly EXCEPT ![it].x = Moved(it)]
  /\ it' = next[it]
  /\ UNCHANGED <<pic, eflags_IF, handles, handler, letter_pressed, ticks, pc, next, prev, free_head, head>>

(* Mutant of Removed: the node is not freed.                               *)
RemovedOnly(n) ==
  /\ next' = [m \in Nodes |-> IF m = prev[n] THEN next[n] ELSE next[m]]
  /\ prev' = [m \in Nodes |-> IF m = next[n] THEN prev[n] ELSE prev[m]]
  /\ fly' = [m \in Live \ {n} |-> fly[m]]
  /\ UNCHANGED free_head

(* fly_remove() and fly_free().                                            *)
Removed(n) ==
  /\ next' = [m \in Nodes |-> IF m = n THEN free_head ELSE IF m = prev[n] THEN next[n] ELSE next[m]]
  /\ prev' = [m \in Nodes |-> IF m = next[n] THEN prev[n] ELSE prev[m]]
  /\ free_head' = n
  /\ fly' = [m \in Live \ {n} |-> fly[m]]

(* Mutant of RemoveLetter: the head of the list is not moved on.           *)
RemoveKeepsHead ==
  /\ pc = "move" /\ it # Null /\ Leaves(it)
  /\ Removed(it)
  /\ it' = next[it]
  /\ UNCHANGED <<pic, eflags_IF, handles, handler, letter_pressed, ticks, pc, head>>

RemoveLetter ==
  /\ pc = "move" /\ it # Null /\ Leaves(it)
  /\ Removed(it)
  /\ head' = IF it = head THEN next[it] ELSE head
  /\ it' = next[it]
  /\ UNCHANGED <<pic, eflags_IF, handles, handler, letter_pressed, ticks, pc>>

(* now++.                                                                  *)
TickDone ==
  /\ pc = "move" /\ it = Null
  /\ pc' = "chase"
  /\ owed' = owed - 1 /\ behind' = behind - 1 /\ phase' = (phase + 1) % Period
  /\ UNCHANGED <<pic, eflags_IF, handles, handler, letter_pressed, it, pool>>

(* The screen is drawn, which changes nothing here.                        *)
CaughtUp ==
  /\ At("chase") /\ behind = 0
  /\ pc' = "loop"
  /\ UNCHANGED <<pic, eflags_IF, handles, handler, letter_pressed, ticks, it, pool>>

-----------------------------------------------------------------------------
(* The kernel has loaded the game: its own handlers are in the table, and  *)
(* interrupts are on.                                                      *)
Init ==
  /\ slot = NO_INTR /\ eflags_IF = TRUE /\ handler = FALSE
  /\ scan_code_buf = Other
  /\ handles = [irq \in IRQs |-> CASE irq = TIMER_IRQ -> <<"ide_writeback">>
                                   [] irq = IDE_IRQ   -> <<"ide_intr">>
                                   [] OTHER           -> <<>>]
  /\ letter_pressed = {}
  /\ owed = 0 /\ behind = 0 /\ phase = 0
  /\ pc = "boot" /\ it = Null
  /\ next = [n \in Nodes |-> Null] /\ prev = [n \in Nodes |-> Null]
  /\ free_head = Null /\ head = Null /\ fly = [n \in {} |-> Letter(n)]

User    == \E code \in Letters \union {Other} : KeyEvent(code)
Handler == TimerIntr \/ KeyboardIntr \/ ReadKey
Game    == \/ Boot \/ Hlt \/ Check \/ KeysDone \/ NoNewLetter \/ MoveLetter \/ RemoveLetter
           \/ TickDone \/ CaughtUp
           \/ \E n \in Nodes : Strike(n)
           \/ \E l \in Letters : CreateNewLetter(l)

Next == User \/ TimerFires \/ Handler \/ Game

(* Each thing goes on, and handlers run as soon as they may.  The queue of *)
(* events is looked at once in a millisecond (keyboard.c:54), thousands of *)
(* instructions, and the timer once in ten: no user types so that there is *)
(* an event in each handler, or one with each tick.                        *)
Fairness ==
  /\ WF_vars(Handler) /\ SF_vars(Game)
  /\ SF_vars(slot = NO_INTR /\ ReadKey)
  /\ SF_vars(eflags_IF /\ slot = NO_INTR /\ TimerFires) /\ SF_vars(TimerIntr)

Spec == Init /\ [][Next]_vars /\ Fairness

-----------------------------------------------------------------------------
Fly == [x : 0 .. Bottom, v : {1, -Rise}, text : Letters, called : BOOLEAN]

TypeOK ==
  /\ slot \in Vectors \union {NO_INTR} /\ {eflags_IF, handler} \subseteq BOOLEAN
  /\ scan_code_buf \in Letters \union {Other}
  /\ letter_pressed \subseteq Letters
  /\ owed \in 0 .. MaxOwed + 1 /\ behind \in 0 .. owed /\ phase \in 0 .. Period - 1
  /\ pc \in {"boot", "loop", "hlt", "check", "keys", "chase", "move", "abort"}
  /\ it \in Nodes \union {Null}
  /\ {next, prev} \subseteq [Nodes -> Nodes \union {Null}]
  /\ {free_head, head} \subseteq Nodes \union {Null}
  /\ Live \subseteq Nodes /\ fly \in [Live -> Fly]

(* The main loop waits with interrupts on, whatever update_keypress() has  *)
(* left them at (effect.c:97).                                             *)
WaitsWithInterruptsOn == pc \in {"loop", "hlt", "check", "chase"} => eflags_IF \/ handler

(* The nodes in use and the free ones (once there is a pool) share it: each*)
(* list is linked through its own nodes only, in both directions in use,   *)
(* only the head of a list has no node before it, and each node is reached *)
(* from one of the two heads: none is lost (linklist.h:61-69).             *)
Free == IF free_head = Null THEN {} ELSE Nodes \ Live

ListInUse ==
  /\ (head = Null) <=> (Live = {})
  /\ head # Null => head \in Live /\ prev[head] = Null
  /\ \A n \in Live : /\ next[n] # Null => next[n] \in Live /\ prev[next[n]] = n
                     /\ prev[n] # Null => prev[n] \in Live /\ next[prev[n]] = n
                     /\ prev[n] = Null => n = head

FreeList ==
  /\ free_head # Null => free_head \in Free
  /\ free_head = Null => Live = {}
  /\ \A n \in Free : /\ next[n] = Null <=> n = SIZE
                     /\ next[n] # Null => next[n] \in Free /\ next[n] # free_head
                     /\ \A m \in Free : next[m] = next[n] => m = n

(* What is reached along _next: the nodes of every set that has the start  *)
(* and, with a node, the next one.                                         *)
Closed(S) == \A n \in S : next[n] # Null => next[n] \in S

Reached(start) ==
  {n \in Nodes : /\ start # Null
                 /\ \A S \in SUBSET Nodes : start \in S /\ Closed(S) => n \in S}

NothingLeaks == free_head # Null => Reached(head) = Live /\ Reached(free_head) = Free

ListsShareThePool == ListInUse /\ FreeList /\ NothingLeaks

(* The pool is never empty: `assert(free_head->_next != NULL)' holds.      *)
PoolLasts == pc # "abort"

(* A letter is struck only by a key event of its own that came since it    *)
(* appeared, however late the handler reads the one buffer, and if it      *)
(* reads one event twice (keyboard.c:14, effect.c:53 and 97).              *)
StruckByItsOwnPress ==
  [][\A n \in Falling : n \in DOMAIN fly' /\ fly'[n].v < 0 => fly[n].called]_vars

(* Ticks are played for ever: none that is counted stays unplayed, the game*)
(* wakes from each hlt, and update_keypress() ends.                        *)
GamePlays == []<>(pc = "move")
=============================================================================
