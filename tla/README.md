# NEMU in TLA+

NEMU is a full-system emulator of an IA-32 machine, with a small kernel that
runs on it and the games that run on the kernel. This directory models the
parts of it in which order, boundaries or precision matter: the interrupt path
and its threads, the disk driver under its own timer handler, the memory cache,
virtual memory, the screen and the sound card, the CPU's arithmetic, the
monitor, and a game that lives on interrupts. TLC checks each model on a small
instance; TLAPS proves the safety properties, but for those of two recursive
modules, for every value of the constants.

Paths below are relative to `src/`.

## 1. The system

NEMU (`nemu/`) is one process. Its CPU thread runs `exec()`: an instruction,
then the watchpoints, then `do_devices()` (timer, keyboard, VGA refresh), then
`do_intr()`. Devices raise interrupts in a one-slot PIC. An instruction `in` or
`out` calls the device's handler at once, a store to mapped memory likewise. The
audio device has threads of its own. The monitor (`ui.c`) starts and stops
`exec()`. The kernel (`kernel/`) is a guest: it sets up segments, paging and the
IDT, loads the user program from the disk through its IDE driver, and serves
interrupts and system calls. The games (`game/`) are user programs that run on
timer, keyboard and audio interrupts.

| Component | State | Operations | Talks to | What is hard, what must hold |
|---|---|---|---|---|
| PIC `nemu/src/device/i8259_pic.c` | `i8259_intr_no`, `cpu.intr`, a mutex | raise, query, ack | all devices, `do_intr` | one slot for all lines, two threads, reads without the mutex; the slot is never found empty, priority is kept, the disk's interrupt is not lost |
| Execution loop `nemu/src/cpu/cpu.c` | `nemu_state`, `is_nemu_hlt`, the count of `si N`, the rerun flag | `exec`, `exec_inst`, `do_intr` | monitor, PIC, devices | stops, halts and interrupts in any order; a halted CPU wakes |
| Audio `nemu/src/device/dev/audio.c` | as built (`PA_ONLINE`): a heartbeat thread; else two chunks with a mutex each, SDL's callback, a monitor and copy threads | play, pause, data port, callback | PIC, web player or SDL | who may touch which chunk when; blocks in order, and the next one asked for in time |
| Timer, keyboard `timer.c`, `keyboard.c` | last tick; one scan code | poll, port read | SDL, PIC | events that come faster than they are read |
| IDE controller `nemu/src/device/dev/ide.c` | position, byte count, `ide_write`, the image file | command port, data port | kernel driver, PIC | assertions on the protocol its driver must keep |
| IDE driver `kernel/src/driver/ide/` | sector cache, `has_ide_intr`, write-back counter | `ide_read`, `ide_write`, two handlers | loader, file system, device | the timer handler drives the disk the interrupted code drives |
| Memory cache `nemu/src/memory/mmu/cache.c` | valid bits, tags, data | `cache_read`, `cache_write` | `paddr_read`, `paddr_write` | accesses across lines; it must not be seen |
| MMU `tlb.c`, `page.c`, `segment.c` | TLB, hidden parts of segment registers | translation | CPU, memory | nothing flushes the TLB; accesses across pages |
| Monitor `nemu/src/monitor/` | breakpoint pool, symbol table | `c`, `si`, `b`, `w`, `d`, `p`, `x` | `exec`, guest memory | INT3 in the guest's code must always be traceable to a breakpoint; expressions must mean what C says |
| VGA `vga.c` | CRTC registers, dirty lines, palette | port and memory handlers, refresh | SDL | dirty lines must cover what changed, and all of it must be drawn |
| Instruction set `nemu/src/cpu/` | registers, flags, FPU stack | one function per opcode | memory, I/O | carries, signs and rounding at the boundaries |
| Kernel `kernel/src/` | page tables, handler lists, brk | interrupts, system calls, loading | all of the above | a frame has one owner; limits of its pools |
| Games `game/src/` | letters, ticks, key states | main loops, event handlers | kernel's handler table | handlers against main loops; a linked list with its own pool |

`PROJECT.json` lists every component with its status, and the hazards each has
at the line where it bites.

## 2. Modules

| Module | What it is |
|---|---|
| `I8259` | the lines of the PIC and the rule by which a raise replaces the pending vector (`Arbitrate`) |
| `Interrupts` | CPU thread and heartbeat thread on the PIC; extends `I8259` |
| `SectorStore` | abstract: a disk that remembers and serves every request |
| `IdeDriver`, `MCIdeDriver` | the kernel's driver and cache on the device, with its handlers; extends `I8259`, refines `SectorStore` |
| `PhysMem`, `FlatMemory` | addresses and accesses; abstract: memory without a cache |
| `MemCache` | the cache; refines `FlatMemory` |
| `Debugger`, `DebugStops` | breakpoints, watchpoints, the commands and the loop that stops at them; the same with a memory of the stops `exec()` forgets |
| `Typing` | the typing game, its keys, letters and handlers, on keyboard controller and PIC; extends `I8259` |
| `Display`, `Vga` | abstract: a screen that shows memory; the VGA with dirty lines, DAC and CRTC, refines `Display` |
| `SoundQueue`, `Audio` | abstract: a queue of blocks of sound; the sound card's threads and the credits player, refines `SoundQueue` |
| `Devices`, `MCDevices` | a game with `Vga` or with `Audio` |
| `Paging`, `MCPaging` | page tables, loader, heap, TLB, accesses across pages |
| `Alu` | integer instructions, flags and conditions |
| `Ieee754`, `FloatStack`, `Fpu` | floating point numbers and their rounded results; abstract: a stack of them; the FPU, refines `FloatStack` |
| `Cpu` | a program that uses `Alu` or `Fpu` |
| `Expr`, `MCExpr` | the monitor's evaluator of expressions |
| `*Proofs` | TLAPS proofs about the module of that name (`DebuggerProofs`: about `DebugStops` too; `CpuProofs`: about `Alu` and `Fpu`) |

Operators named "Mutant of X" are plausible bugs of X. They are used nowhere in
a specification; each property was seen to fail when its mutant replaces X.

### Interrupts

`pc` is where the CPU thread is in `exec()`, `do_devices()` and `do_intr()`;
`hb` where the heartbeat thread is in `AUDIO_HB_Thread` and `i8259_raise_intr`.
The code takes `i8259_mutex` to write the slot and `cpu.intr`, but `do_intr()`
reads both without it. So the CPU thread's own raise and ack are one step each
(guarded by the mutex, since the other thread could hold it), while the test of
`cpu.intr`, the query and the ack are three, and the heartbeat's raise is a lock
and two stores. The guest is any program: `Ordinary`, `SetIF` (cli, sti, iret),
`Hlt`, `IdeRead` (the command that raises at once), `AudioPlay`, `NemuTrap` and
`BreakPoint` in any order. `requests` is a history variable: the lines raised
since the slot was last emptied. `NEMU_STOP` destroys the mutex
(`cpu.c:122`); what locking a destroyed mutex does is undefined, and `HbLock`
has both outcomes.

### IdeDriver

A caller of `ide_read` or `ide_write` runs with interrupts on, so each port
access, and each store a handler can see, is a step; `At(p)` says that a pending
interrupt is taken first. The handlers run with interrupts off and are one step
each: `TimerIntr` with `ide_writeback()`, `IdeIntr`. `TimerIntr` writes back
every dirty line, as `cache_writeback()` does, and leaves the ports and the
device as the last of these transfers leaves them. If the disk is not ready it
spins for ever (`pc = "spin"`), since nobody else can run. `AbortInLong` is the
device's assertion failing. A sector number has two digits of base `Radix`
where the code has four of base 256; a sector has `SectorWords` longs.

The refinement maps a sector of the abstract disk to the line that holds it, if
any, and to the image otherwise; a write takes effect when its byte is stored,
not when the line is marked dirty.

`ide_write` has no caller in this tree: the model's writes are latent code.

### MemCache

An access is one step: nothing runs between its parts. An address is tag, set
and position. The code's recursion for an access that runs over a line is
unfolded once in `ReadAcross` and `Write`, since an access is at most as long as
a line (`Lens \subseteq 1 .. BlockSize`). A write that misses is not carried on
to the next line, as in the code. `WritesCross` says whether the program writes
across lines at all; it separates what holds from what does not. The option
`CACHE_ENABLED` is off in `include/config.h`.

### Debugger, DebugStops

`text` is the byte at each address: `"int3"` or an instruction; `head` and
`free_` are the lists `new_BP()` and `free_BP()` keep, in their order. An
instruction of the guest is a step with everything `exec()` does up to
`do_devices()`: `resume_breakpoints()` after the first of a rerun, the breakpoint
found at `eip`, the watchpoints. After it an interrupt may be taken, the window
closed, or nothing happen, also when the instruction stopped. The guest jumps
anywhere and stores any value in the watched variable. `c` is `exec(-1)`, a count
of 2^32 - 1: `Many` stands for every count above `MaxSteps`, and one instruction
less than `Many` is `Many` still or, where a `c` may run out, `MaxSteps`.

`exec()` forgets that the guest has stopped at a breakpoint when the stop comes
with the last instruction of `si N`, or when a watchpoint is found with it
(`cpu.c:125`, `cpu.c:100`): nothing arms that breakpoint again, while the list
shows it as enabled. `DebugStops` adds a history variable, `forgotten`, with
these addresses, and states what holds of all the others.

### Typing

The main loop of `game.c` and its two handlers. The handlers run with interrupts
off; the loop can be interrupted where it reads or writes what they write
(`tick`, `letter_pressed`), and elsewhere an interrupt cannot be told from one
that comes a little later. The list of letters is modelled with its pointers,
the pool it takes its nodes from included. `owed`, `behind` and `phase` are
`tick - now`, `target - now` and `now` in its period, so that no counter grows.
Heights are in half lines, the speed of a falling letter being 0.5. The field
`called` of a letter is history: a key event of that letter came since it
appeared, and no other letter has been struck with it. Colours, the counts of
hits and misses and drawing are left out.

### Vga

A store, a frame copied by `rep movsl` (one instruction for NEMU, so that no
poll comes in the middle), and `update_screen()`, on lines with dirty flags; the
guest's `write_palette()` on the DAC, whose pointer walks over colours of four
bytes while three are sent; the CRTC's index and data ports. A pixel stands for
the 2 x 2 drawn. A store that ran over the end of a line would mark only the
line it begins in; aligned stores to lines of 320 bytes do not.

### Audio

The build without `PA_ONLINE`. Four threads: the CPU thread with the player of
`credits.c` on it, whose `out` to the data port copies a block into the idle
chunk; SDL's callback `fill_audio()`, which plays the other; the monitor thread,
which turns the callback's `switch_buf` into an interrupt; and the copy threads.
Each locks, unlocks, reads and writes what others write in steps of its own. The
copy threads take their number from the address of a loop variable that goes on
changing: they may both get the same one, or one too high (`audio.c:128`). What
is then not copied is noise, which `SoundQueue` allows in the place of a byte; it
allows nothing else. Pauses and the end of NEMU are left out (the callback
returns with a mutex held then, `audio.c:242`). `do_intr()` is two steps here as
in `Interrupts`: `Query` reads the vector, `TimerIntr` or `AudioIntr` acknowledges
what the PIC holds by then and runs the handler; the timer, which the CPU thread
polls itself, cannot come between them, the monitor's raise can. `lost` is history:
a request was made in one of the three windows in which a store of another thread
forgets it (`audio.c:151`, `cpu.c:163`, `credits.c:51`). In this tree the player's
`fopen()` ends in a stub of the kernel's `fs.c`; the model is of the player's
loop with a file.

`Devices` puts the two in one run: it extends `Audio` and has the screen as
`Screen == INSTANCE Vga`. They share no state; a variable chosen at the start
says which of the two the game uses, so that their states are not multiplied.
`Cpu` does the same for `Alu` and `Fpu`.

### Paging

The kernel's tables (`kvm.c`, `mm.c`, `vmem.c`), the loader (`elf.c`) and
`mm_brk()` on one side; `page_walk()`, the TLB with its random victim and
accesses that run over a page on the other. Nothing flushes the TLB: not
`write_cr3()`, not a new page. Accesses that fill the TLB come between any two
steps. Memory is byte by byte, a byte of the program holding the address it
belongs to. `mm_malloc()` comes as an object file and is external: it gives
frames, in order, to those pages of a range that have none. The option
`TLB_ENABLED` is off in `include/config.h`; the rest is as built.

### Alu, Fpu

The operands of an instruction have `Width` bits; `DataHalf` is the sign bit of a
word of `data_size`. In the `v` forms the two sizes are one. In the `b` forms the
operands are bytes, sign-extended (`Extended`) and added or compared at
`data_size`, 32 or 16 (`add.c:10-12` and its like): what is written back and CF are
the byte's, ZF, SF and OF those of the longer word. `IntHalf` is the sign bit of
C's `int`, which CLTD tests, and SETcc writes the lowest `ByteBase` of a word.
Floating point numbers have `ExpBits` and `FracBits`. The code's comparisons,
masks, guard, round and sticky bits are kept as they are. No instruction means much by itself: CMP means something to the jump after it, ADD
to the ADC, CLTD to the IDIV. `meaning` remembers what the last instructions
have computed in the integers, and the invariants compare it with registers and
flags. `Ieee754` knows nothing of significands: every finite number is a whole
number of smallest denormals, and the nearest one to an exact result is found by
comparing integers. A loop of `internal_normalize()` is its number of turns, the
first at which its condition fails, and a shift by so many places (`Right`,
`Left`, `Squeeze`). `Fpu` implements `FloatStack`, a stack whose operations have
results of that table. Below the normal numbers the code rounds twice or drops
bits, and a quotient may be one off, as `fpu_test.c` allows; there the
abstraction promises less.

### Expr

The user thinks of an expression and writes it down with no more brackets than
C asks for; `Eval` is `eval()` on the tokens. It splits them at the operator it
finds with a table of levels, and knows no grammar; `ValuesAreOfC` says that it
has one all the same.

## 3. Runs

Sizes are distinct states; every run ends within three minutes on two workers.

| Run | Instance | What it shows |
|---|---|---|
| `interrupts` | `si` up to 2; 104 936 | `NoSpuriousVector`: the assertion of `do_intr()` holds although it reads without the mutex. `PendingIsHighest`, `PendingIsAnnounced`: no raise lowers the slot, and none is left unannounced. `IdeNeverLost`: only delivery takes the disk's vector from the slot. `HaltWakes`: a CPU halted with interrupts on wakes |
| `ack_race` | `si` up to 1 | violated: the vector acknowledged is the vector received (`cpu.c:163`). A request raised between query and ack is lost |
| `ide` | reads and writes of two sectors on one line, no write-back falls due; 73 229 | write misses, dirty victims and read-back implement a disk that serves every request (`ImplementsStore`), with ticks and disk interrupts at every placement |
| `ide_writeback` | write-backs at any instruction, all four sectors, image `"rb"`; 70 308 | `CountInSector`: `assert(byte_cnt <= 512)` is safe even so. `SpinsOnlyInsideAWrite`: only an unfinished write of the interrupted caller can hang the handler |
| `cache` | 3 tags, 1 set, 2 ways; 4 736 | a block is in one line only, lines are copies of memory, transparency, with every choice of a victim |
| `cache_stale` | 2 tags, 2 sets, 1 way, writes may cross | violated: transparency. A write that misses and runs over leaves the next line stale |
| `debug` | 3 points, 3 addresses, a handler, watchpoints, `si` 1 and 2; 4 126 992 | no point leaks, the code is restored exactly, an INT3 not in the list is the guest's own; in the monitor every listed breakpoint is armed, except the one stopped at and those known to be forgotten; no instruction with another breakpoint runs |
| `typing` | 3 nodes, 3 lines, two letters and another key; 367 314 | no `hlt` with interrupts off, no node leaks or is in two lists, the pool lasts for the letters a screen has room for, a letter is struck by a press of its own key, the game goes on |
| `devices` | screen 2 x 2 in 3 lines of memory, palette of 2; blocks of 4 for streams of 3, 3 blocks; 254 204 | the screen shows memory, whole, again and again; DAC and CRTC hold what was written; blocks are heard in order through two chunks and four threads; the sound goes on unless a request falls in one of three windows, the race of `ack_race` among them |
| `paging` | 6 frames of 2 bytes, TLB of 2; 79 118 | no stale translation is used without any flush, a frame has one owner, the program lies where its headers say, an access over a page boundary goes where its bytes are |
| `expr` | expressions of up to 7 tokens over the numbers 1 and 6; 324 457 | `eval()` has the precedence and associativity of C, and refuses nothing whose signs it can read |
| `cpu` | words of 3 bits in the `v` form of 32 bits, floats of 3 + 2 bits, a ring of 2; 36 484 | conditional jumps decide the comparisons they are named for, ADC and SBB carry, no shift, product or quotient loses a bit; the FPU is a stack of correctly rounded arithmetic |

Every module has a `TypeOK`; a run checks it for `interrupts` only, where the
program counters of two threads make it worth it. Elsewhere it is part of the
invariants proved, or of a refinement that would fail with it.

### Bounds, and why they are enough

- `MaxSteps` bounds `N` of `si N`. The count only matters when it reaches 0,
  before or at the same time as a stop; 2 has both. `interrupts` and `debug` let
  a `c` run out of its 2^32 - 1 instructions as well.
- Disk: two digits, two lines and two words: a sector number that is half
  written, two sectors that share a line and two that do not, a transfer that is
  half done. `TickLimit = WritebackTicks` lets any number of write-backs fall
  due; `TickLimit = 1` (in `ide`) lets ticks come, but never one that writes
  back.
- Cache: two bytes to a block, with lengths 1 and 2, have accesses at each
  position, within a line and across. Three blocks for two ways force
  replacement; two sets, with the overflow from set to tag, are in `cache_stale`.
  The proofs of section 5 need no bound.
- Monitor: three points: a pool with one free, with none, and the assertion of
  `new_BP()`. Three addresses, one with a `BREAK_POINT` of the guest's own, one
  where interrupts go, and one plain.
- One breakpoint to an address (`Duplicates = FALSE`). With `TRUE`, the second
  saves INT3 as the original byte, deleting both leaves it in the code, and
  `NotFoundIsTheGuests` fails: `breakpoint.c:57` is exposed to this.
- Typing: a letter lives for four ticks and a new one comes every second tick, so
  that lists of none, one and several nodes are unlinked from at both ends; two
  keys that are letters and one that is not, so that a scan code can be
  overwritten by either kind. `MaxOwed = 1` bounds how late a running game is; a
  tick may still come on top of it at `hlt`, and the loop then plays two.
- Screen: two rows, and a line of memory beyond them for stores that miss the
  screen; stores of one cell and of two; a palette of two colours has a pointer
  that goes on to the next and one that has reached the end.
- Sound: a stream of 3 for blocks of 4 is served within a chunk, across the end
  of one, and at its end exactly; three blocks bring the first chunk back.
- Paging: a page of two bytes has accesses that cross it; a TLB of two entries
  must replace; six frames are two for the kernel and four to give, so that a heap
  can grow into all of them. `MCPrograms` has programs of one or two segments that
  meet in a page, run over the end of a page or a table, or end in zeroes.
- Expressions: seven tokens hold three binary operators, or two with brackets or
  signs: every pair of levels meets on both sides. Arithmetic is modulo 2^3; 6 is
  negative as a signed number, and 1 and 6 tell the operators apart.
- Words of three bits have both signs, the two extremes and a middle; floats of
  three and two have denormals, infinities, and results that are rounded both
  ways and to even; a dividend of 10 bits (`DividendBits`) is as long as a
  quotient of that format needs, as the 64 of the code are for a float. The
  run is of the form whose operand, `data_size` and `int` have one size. The three
  properties of integers were checked by hand on the other forms too, with words
  of 3 bits: `IntHalf` 8 in the place of 4, as with 16 bits, and `DataHalf` 8 or 16
  with `IntHalf` 8 or 64, as with bytes. The proofs about `Alu` and `Fpu` are for
  every width and every form.

`CHECK_DEADLOCK FALSE` stands where the system may stop: NEMU ends (`pc =
"closed"`, `"quit"`), an assertion aborts it, or the handler spins for ever. It
is checked in all runs but `interrupts`, `ack_race`, `ide_writeback` and `debug`.

## 4. Fairness

- `Interrupts`: weak fairness of each thread (the host schedules both; the user
  need not do anything, so `User` has none). Strong fairness of `TimerFires`
  (the polled interval does elapse in host time), of `QueueEmpty` (the event
  queue is finite) and of `AckIntr` (the heartbeat thread holds the mutex for a
  few instructions each second).
- `IdeDriver`: weak fairness of the handlers, which run as soon as they are
  pending; strong fairness of the caller, which executes many instructions
  between two ticks 10 ms apart.
- `Typing`: weak fairness of the handlers; strong fairness of the main loop, of
  the timer's interrupt, and of a tick and of the end of a handler at a moment
  when no other interrupt is pending. `do_devices()` polls the keyboard once in a
  millisecond (`keyboard.c:54`) and the timer fires once in ten, so that the CPU
  runs thousands of instructions between two events: no user types so that there
  is an event in each handler, or one with each tick.
- `Vga`: weak fairness of `UpdateScreen`: `do_devices()` polls it after each
  instruction, and while the CPU is halted.
- `Audio`: weak fairness of `do_intr()` with the handlers, of the monitor thread and
  of a tick while no interrupt is pending (the host schedules the threads, the timer goes
  on). Strong fairness of the player and of the callback, which wait for mutexes
  the other takes and gives back again and again; the callback gives way between
  two looks (`SDL_Delay(1)`).

## 5. Proofs

**InterruptsProofs**, for every `MaxSteps`: `TypeCorrect`,
`SpuriousVectorImpossible`, `HighestPending`, `PendingAnnounced` and
`IdeIsDelivered`. The properties are not inductive by themselves: that the slot
is full at the query depends on its having been full since the test, through any
step of the other thread. `IInv` adds `MutexInv` (who holds the mutex, and that a
thread in its critical section holds it or found it destroyed) and `TakenInv`
(the slot stays full from the test of `cpu.intr` to the acknowledgement, and if
it holds the IDE vector at the acknowledgement, that is the vector queried).
`ArbitrateFacts` is all that is used of the PIC's rule: the slot never gets
empty or lower, and the disk's line wins.

**MemCacheProofs**, for every number of tags, sets and ways and every size of
block: `TypeCorrect` and `NeverCachedTwice` without condition;
`CacheIsCoherent` and `CacheIsTransparent` (`Spec => Flat!Spec`) under
`~WritesCross`, the condition that `cache_stale` shows to be needed.
`FillPreserves` and `WritePreserves` carry the invariant, `StepRefines` maps
every access to the same access of a flat memory.

**DebuggerProofs**, for every size of the pool, every guest and every sequence of
commands: `TypeCorrect` and `PoolShared` without condition, `CodeKept` and
`NotFound` under `~Duplicates`, which section 3 shows to be needed. `PoolInv` is
inductive by itself. `CodeIsKept` is not: it must be known that no two
breakpoints have one address (`Distinct`), since the byte one of them saved would
be the other's INT3. `CodeInv` adds that, and states the code in a form (`CodeIn`)
that holds of the bytes resuming leaves, too. Over `DebugStops`, under the same
condition: `ListedArmed` and `BreakpointsAreStops`. They need more than what holds
in the monitor (`AllArmed`): at every moment of `exec()`, a listed breakpoint has
its INT3 in memory, or is the one stopped at or resumed from (`StoppedAt`), or is
one of those known to be forgotten.

**IdeDriverProofs**, for every disk, cache and write-back period: `TypeCorrect`,
`CountStaysInSector` and `SpinsInsideAWrite` without condition, write-backs at any
instruction included. They rest on `CountInv`: only an unfinished write leaves the
disk busy, and whoever still has words of a sector to move is right about their
number, or a write-back has left the device in its state for writes. The rest
holds as long as no write-back comes into a transfer (`Undisturbed`) and what is
written reaches the image (`Kept`): the lines in the cache are of the sectors they
are found by (`LinesInv`); the transfer is that of the caller's request, or of the
dirty line it replaces (`TransferInv`); a line that has been filled is right
although its tag is not written yet (`FilledInv`); all others agree with the disk
or are dirty (`SavedInv`). From these, `DriverIsADisk`: each step is one of
`SectorStore` or none; and `NeverStuck`. That the two conditions can be met is
proved as well: `SparedIsUndisturbed` says that callers who only read are never
disturbed, since then no line is dirty (this tree has no others: nothing calls
`ide_write`), and that nobody is before the first write-back falls due. Hence
`CleanLinesMatch` and `ImplementsStoreSafely`, under conditions on the constants
alone. That they cannot be dropped was seen with TLC (section 6).

**TypingProofs**, for every pool, screen and set of letters: `SleepsInterruptibly`,
`PressesAreTheLetters`, `PoolIsShared` and `PoolNeverEmpty`. `KeyInv` is types, that the main loop is masked only
where it looks at the keys (`MaskedAtKeysOnly`), and `PressInv`: a falling letter
whose key is recorded as pressed, or whose key event is on its way in the scan
code buffer, has been called by that event.

`PoolIsShared` is about lists of any length. What can be reached from a head is
defined without recursion, as what every set has that contains the head and is
closed under `next` (`Reached`). `LinkInv` states both lists in these terms: no
two nodes have one successor, nobody points at a head, and every closed set with
the head is the whole list (`WholeBy`). Lemmas show that this survives a node put
in front (`new`, `free`, `insert`) and one cut out anywhere (`remove`); the node
the loop is at is always one in use.

`PoolNeverEmpty` says that the assertion of the pool's `new` holds, by counting.
`AgeInv` asserts that there are numbers `turn[n]`, how many Periods ago each letter
appeared, all different, with which a letter's height, and whether it rises, say
how many moves it has made (`Lives`): at most `Lifetime`, that is, down the screen
and up again. So all `turn[n]` are at most `Lifetime \div Period`, and there are no
more letters than that. It needs that each letter is moved exactly once in a tick,
by a loop that walks a list from which it removes (`LeftToMove`).
`PoolAssumption`, that the pool is larger, is the condition: in the code 448 ticks,
a letter in 33 of them, and 1000 nodes (`effect.c:11`, `game.c:7`).

**DevicesProofs** is about `DevicesSpec` with both devices in it, under
`AudioAssumption` and `ScreenAssumption`; a step of one leaves the other alone.

Of the screen, for every screen, memory and palette: `CleanLinesShown` (inductive
with types: stores mark, refreshes show), `ScreenShowsMemory`, the safety half of
the refinement of `Display`, `CrtcPortIsRegister` and `PaletteIsLoaded`, for
which the pointer into the palette must be known to be four times the colour plus
the bytes sent.

Of the sound card, for every size of block and stream and every number of blocks:
`IdleChunkIsFilled`, and `SoundIsQueued`, the refinement of `SoundQueue`. The double
buffer is safe for a reason that is in no single place: at most one request for a
block is on its way, from `switch_buf` through the interrupt and the player to
the data port, and while it is, the idle chunk is not ready (`RequestInv`). So
the chunk that is written is never the one that is played, and the next block
always lands behind it. `RequestsAreKept` is the other half, that there is such a
request as long as the chunk is not ready, unless one of the three stores has
forgotten it: an interrupt of the timer that is queried cannot take a request with
it without `lost`, for `do_intr()` runs to its end between two instructions
(`Polled`). Without it `SoundStaysOn` could not hold; that the request is served is
liveness, and stays with TLC.

**PagingProofs**, for every number of frames, size of TLB and program:
`TlbIsCurrent`, `FramesOwned`, `AccessesCross` and `ProgramLoaded`. The TLB is never flushed, so that its entries
agree with the present tables for two reasons (`TlbInv`): those made before the
switch of page tables are of kernel pages, which both tables map alike, or of
low pages that map to themselves where a user table maps them at all; those made
after it are of program pages, which are mapped once and never changed.
`GivenFacts` is the arithmetic of the allocator: it gives distinct frames that
nobody has.

`AccessesCross` is of every access to an address of the machine, whoever makes it
and with whichever tables, whose pages they map: the two halves `laddr_read()` makes
of it are the bytes that translation gives one by one. It needs that quotient and
remainder are unique (`DivisionIsUnique`) and that the TLB is current.

`ProgramLoaded` is why the loader may copy a segment from the frame of its first
byte on, without a look at the other pages. `OrderInv`: while segments are loaded,
the page of `brk` has the last frame that was given out, and no page above it has
one. So the next segment either begins in that page, and its other pages follow in
frames as in addresses, or all its pages are new (`SegmentFrames`). `LoadedInv`:
what has been loaded stays in the byte where it is, which a later segment does not
touch (`PhysInjective`, from `FramesAreOwn`), nor the video mapping, which changes
pages of the first table only, nor the heap. `StackInv` and `HeapInv` say what
`mm_malloc()` has left mapped. The assumptions on programs are those of the ELF
format and of ld: segments in the order of their addresses, above the identity
mapping, below the stack. A program linked below 4 MB would lose pages to the video
mapping (`vmem.c:27`); `PagingAssumption` excludes it, as ld's default address does.

**CpuProofs**, about both units, for every width of word, exponent and fraction.
The integers: `ConditionsDecide`, `LongNumbers` and `ResultsExact`. Powers of two
are the library's count of subsets (`PowerFacts`), division is shown unique, and
the few facts that need induction are obtained from the least number for which
they would fail (`LeastNumber`). All three are of the `v` and the `b` forms alike:
`PlusFacts` and `MinusFacts` say what a sum or difference at `data_size` of two
extended words leaves of the words themselves. CF is exact, since sign extension
keeps the order of words; SF and OF together have the sign of the exact signed
result, which is what the conditions g and l need; OF alone is the overflow of
`data_size`, which no bytes reach. `LongNumbers` needs that between ADD and ADC
nobody touches the upper word (`LowInv`). `ResultsExact` promises the sign that
CLTD gives to an IDIV where `int` has the size of the operand, or the word is not
negative (`ExtensionIsExact`). A unit that is not in use stutters
(`CpuIsAlu`), so that what holds of `Alu` holds of the program.

The FPU: `FloatsImplemented` says that the ring is the stack of `FloatStack`, and
`FpuTypes` is the invariant it needs: the registers hold numbers of the format,
with no NaNs but the two of the code, or a table of corner cases would miss one.
The arithmetic goes from the loops to the table of results in four parts.

1. *Numbers are counted.* The numbers of one sign, taken by exponent and
   fraction, are weights that rise with their rank, two neighbours being as far
   apart as the exponent says (`WeightRises`). So the nearest number to `n / d` is
   found where `n / d` lies between two neighbours (`NearestBetween`,
   `NearestInfinity`), not by counting.
2. *What a shift forgets.* A significand stands for an exact amount if it is that
   amount, or an odd number just beside it (`Near`): this is what the sticky bit is
   for, and shifting keeps it (`SqueezeKeeps`, `NearSqueezed`). `RoundingIsNearest`:
   what `Round` makes of such a significand is the number nearest to the amount,
   to the even one in the middle, the carry into the exponent and into infinity
   included. A quotient is cut off without a sticky bit (`Truncated`), so that one
   just above the middle looks like the middle; `TruncatedIsNearby`: it is off by
   one rank at most.
3. *What the loops leave.* `Right` and `Left` stop as soon as the significand
   has as many places as it should or the exponent is at its end (`RightTurns`,
   `LeftStops`): what is rounded has its hidden bit in place, or is a denormal.
   With that, `Normalize` of an aligned sum gives its nearest number (`Alignment`,
   `SumIsNearest`); of a product or a quotient too, unless it lies below the normal
   numbers, where it stays small (`ProductIsRounded`, `RatioIsRounded`).
   `FormatAssumption` is what `RatioIsRounded` needs: a dividend of
   `2 * FracBits + 6` bits, moved to their left end (`LeftPlace`), leaves the quotient
   of two normal numbers all bits of the fraction and the three below.
4. *The corner cases*, one by one: the tables of `fpu.c` with their fall-through
   answer what IEEE 754 does, up to the choice between the two NaNs
   (`ResultAnswers`).

What the ring does is then the bookkeeping of a stack: push, pop and exchange are
facts on `(top + i) % NR_REG`.

The assumptions are those on the constants, named in the modules that declare
them, which TLC evaluates in every run.

Only model-checked, since it is out of the prover's reach: liveness (`HaltWakes`,
`GamePlays`, `SoundStaysOn`, and the liveness in `ImplementsStore` and
`ImplementsDisplay`, whose safety is proved), and what is computed by recursion
(`Expr`'s `ValuesAreOfC` and `ReadableIsPrinted`).
Every other property of the runs that pass is a theorem.

## 6. What the models say about the code

Two disagreements between the code and what it says of itself are runs that
expect a violation:

- `cpu.c:161-163`: an interrupt raised by the audio thread between query and
  acknowledgement is acknowledged unread (`ack_race`). As built it is a
  heartbeat, and the next comes a second later. With local playback it may be the
  only request for the next block, and the sound stops.
- `nemu/src/memory/mmu/cache.c:67-71`: a write that misses and runs over
  (`cache_stale`).

The rest appears in the models as what they do, and in the properties as what is
excepted:

- `disk.c:20-36`, kernel `cache.c:24-35`: write-back from the timer is not safe
  inside a transfer. With `Writable = TRUE` in `IdeWriteback.cfg`,
  `CleanLinesMatchDisk` fails: a write-back between two port writes leaves the
  caller another sector's number. It can also make the device's
  `assert(!ide_write)` fail inside a read (`AbortInLong`), and hang inside a
  write. With the image opened `"rb"` (`nemu/src/device/dev/ide.c:15`) what is
  written back is lost. All of it is latent: nothing calls `ide_write`.
- `cpu.c:125-128` and `cpu.c:100`: `si N` that ends at a breakpoint, or a
  watchpoint found with it, forgets the stop: `DebugStops.forgotten` exempts
  these addresses from `ListedIsArmed`.
- `audio.c:151`, `credits.c:51`, `cpu.c:163`: a request for a block that comes before
  the one before it is cleared, or while another vector is being acknowledged, is
  lost, and the sound stops; `SoundStaysOn` excepts these three windows, and says
  that there is no fourth. The loop variable handed to the copy threads by address
  (`audio.c:128`) can leave half of a block as noise.
- A 16-bit CLTD tests the zero-extended operand as an `int`, so that the upper word
  is always 0 (`cltd.c:15-19`); `QuotientsAreExact` speaks of it where the operand is
  not negative. NEG leaves its operand as it is: it subtracts 0 from it
  (`neg.c:8`). The `b` forms of ADD, ADC, SUB, SBB and CMP compute ZF, SF and OF at
  `data_size` (`adc.c:10-12`), so that OF is never set where the signed byte
  overflows, and 80h added to itself leaves 0 without ZF; NEG and NOT of bytes do so
  without extending the operand. `LongArithmetic` and `ComparisonsDecide` say what
  holds all the same. CF and OF of IMUL are wrong for negative products, and
  `ProductsAreExact` speaks of those of MUL only. The conditions b, l,
  ae and ge look at ZF, which they need not; `ComparisonsDecide` holds all the
  same.
- Floating-point results below the normal numbers are not the nearest ones
  (0x00800000 * 0x3f7fffff is 0), although `nemu/src/cpu/test/fpu_test.c:161` and
  `:175` ask for the host's products exactly; the theorem `FloatsImplemented` promises
  of such products and quotients only that they are small.
- `eval()` refuses `1 - -2` and accepts `1 ! 2`. Where the operand of a `*` cannot be
  read, it reads memory at -1 before it reports the failure (`expr.c:408`), which may
  end NEMU; the model only fails.

## 7. Not modelled

- Most lines of this repository are fonts and NEMU-PAL, a port of a third-party
  game engine. What is written for NEMU, its kernel and its games is a tenth of
  them. NEMU-PAL cannot run in this tree, since it opens files, and `open`,
  `read`, `lseek` and `close` of the kernel's `fs.c` panic; nor can the credits
  player, of which only the loop that feeds the sound card is modelled.
- Formatting, logging, drawing, sockets, files other than the disk image.
- The DMA path of the driver, which is compiled out and which the device ignores;
  the serial port, the decoder, the symbol table and start-up, which keep no
  state worth a model.
- Operands in memory, the stack, string instructions, the parity flag, segments
  (flat as the kernel sets them up), the frame `raise_intr()` pushes.
- CRTC indices above 18, for which `vga.c:123` reads and writes past the array,
  and texts of more than 32 tokens, past which `expr.c` does: what happens then
  is another program's state. So is the handler too many that the assertion at
  `irq_handle.c:24` lets in.
- Libraries and what is vendored: newlib, SDL, the reference implementation.

## 8. Plan

Done, in this order because a mistake in an earlier part breaks the later ones:
interrupts, disk, memory cache, monitor, the typing game, sound, screen, paging,
integer and floating-point arithmetic, expressions. Left:

1. The kernel's table of handlers and its pool (`irq_handle.c`), string
   instructions with their repeat count, comparisons of the FPU.
2. Segments, once something other than the flat ones is loaded.
