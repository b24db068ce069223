----------------------------- MODULE IdeDriver -----------------------------
(***************************************************************************)
(* The kernel's IDE driver with its sector cache (kernel/src/driver/ide/)  *)
(* on NEMU's IDE controller (nemu/src/device/dev/ide.c), interrupted by    *)
(* the timer handler that writes the cache back.                           *)
(*                                                                         *)
(* The kernel calls ide_read and ide_write with interrupts enabled, so a   *)
(* pending interrupt is taken between any two of the caller's              *)
(* instructions; every port access and every store the handler can observe *)
(* is a step of its own.  The handlers run with IF = 0: each is one step.  *)
(*                                                                         *)
(* A sector is a few words; its number is written to the ports in two      *)
(* digits of base Radix (four of base 256 in the code).                    *)
(***************************************************************************)
EXTENDS I8259

CONSTANTS
  Radix,          \* base of a digit of a sector number (256)
  NR_SEC_CACHE,   \* lines of the sector cache (128)
  SectorWords,    \* words of a sector (128)
  WritebackTicks, \* WRITEBACK_TIME * HZ (100)
  TickLimit,      \* bound: no tick comes once counter has reached it
  Data,           \* what a word may hold
  Zero,           \* the word of static storage
  Image,          \* the disk image: [Sectors -> [Words -> Data]]
  Accessed,       \* bound: the sectors the callers read and write
  Written,        \* the words the callers of ide_write write; {} if none does
  Writable,       \* whether the image is open for writing
  NoReq           \* no request is being served

Sectors == 0 .. Radix * Radix - 1
Words   == 0 .. SectorWords - 1
Lines   == 0 .. NR_SEC_CACHE - 1

ASSUME IdeAssumption ==
  /\ Radix \in Nat \ {0} /\ NR_SEC_CACHE \in Nat \ {0}
  /\ SectorWords \in Nat \ {0} /\ WritebackTicks \in Nat \ {0}
  /\ TickLimit \in 0 .. WritebackTicks
  /\ Accessed \subseteq Sectors
  /\ Zero \in Data /\ Written \subseteq Data
  /\ Image \in [Sectors -> [Words -> Data]]
  /\ Writable \in BOOLEAN

VARIABLES
  slot,         \* the interrupt pending in the PIC
  has_ide_intr,
  counter,      \* of ide_writeback()
  cache,        \* the array of struct SectorCache
  port,         \* the IDE ports: sector digits (3..6) and status (7)
  dev,          \* the statics of handler_ide: sector, word of it, ide_write
  disk,         \* the file behind disk_fp
  pc,           \* where the caller of ide_read or ide_write is
  req,          \* what it asked for
  xfer,         \* the transfer under way: command and sector
  ret           \* what the last ide_read returned

kernel == <<has_ide_intr, counter, cache>>
device == <<port, dev, disk>>
caller == <<pc, req, xfer, ret>>
vars   == <<slot, kernel, device, caller>>

READ  == 32         \* 0x20
WRITE == 48         \* 0x30
READY == 64         \* 0x40

-----------------------------------------------------------------------------
(* handler_ide: the device's answer to a command written to port 7.        *)

(* Mutants of Command: the word count is not reset; a read command leaves  *)
(* the disk busy.                                                          *)
CommandKeepsCount(cmd) ==
  /\ dev' = [sector |-> port.lo + Radix * port.hi, word |-> dev.word,
             ide_write |-> cmd = WRITE]
  /\ port' = [port EXCEPT !.status = IF cmd = READ THEN READY ELSE WRITE]
  /\ slot' = IF cmd = READ THEN Arbitrate(IDE_IRQ, slot) ELSE slot

CommandBusy(cmd) ==
  /\ dev' = [sector |-> port.lo + Radix * port.hi, word |-> 0,
             ide_write |-> cmd = WRITE]
  /\ port' = [port EXCEPT !.status = cmd]
  /\ slot' = IF cmd = READ THEN Arbitrate(IDE_IRQ, slot) ELSE slot

(* Position at the sector in the ports.  A read command is done at once    *)
(* and raises IDE_IRQ; a write command leaves port 7 as it was written.    *)
Command(cmd) ==
  /\ dev' = [sector |-> port.lo + Radix * port.hi, word |-> 0,
             ide_write |-> cmd = WRITE]
  /\ port' = [port EXCEPT !.status = IF cmd = READ THEN READY ELSE WRITE]
  /\ slot' = IF cmd = READ THEN Arbitrate(IDE_IRQ, slot) ELSE slot

(* One long through port 0 moves on, and the last of a sector sets READY.  *)
Advance ==
  /\ dev' = [dev EXCEPT !.word = @ + 1]
  /\ port' = IF dev.word + 1 = SectorWords
               THEN [port EXCEPT !.status = READY] ELSE port

(* What the file holds after d is written at sector s, word w: fwrite on a *)
(* stream opened "rb" (init_ide) fails, and its result is not looked at.   *)
Stored(s, w, d) ==
  IF Writable THEN [disk EXCEPT ![s][w] = d] ELSE disk

-----------------------------------------------------------------------------
(* cache.c and disk.c, as the caller runs them.                            *)

Line(s) == cache[s % NR_SEC_CACHE]
SetLine(s, field, v) ==
  cache' = [cache EXCEPT ![s % NR_SEC_CACHE] = [@ EXCEPT ![field] = v]]

(* With IF = 1 a pending interrupt comes before the next instruction.      *)
At(p) == pc = p /\ slot = NO_INTR

Call(r) ==
  /\ At("idle")
  /\ req' = r /\ pc' = "fetch"
  /\ UNCHANGED <<slot, kernel, device, xfer, ret>>

(* cache_fetch: a hit, a dirty victim to write back first, or a read.      *)
Hit ==
  /\ At("fetch")
  /\ Line(req.sector).used /\ Line(req.sector).sector = req.sector
  /\ pc' = "access"
  /\ UNCHANGED <<slot, kernel, device, req, xfer, ret>>

(* Mutant of Miss: a dirty victim is not written back.                     *)
MissDropsVictim ==
  /\ At("fetch")
  /\ ~(Line(req.sector).used /\ Line(req.sector).sector = req.sector)
  /\ xfer' = [cmd |-> READ, sector |-> req.sector]
  /\ pc' = "clear"
  /\ UNCHANGED <<slot, kernel, device, req, ret>>

Miss ==
  /\ At("fetch")
  /\ ~(Line(req.sector).used /\ Line(req.sector).sector = req.sector)
  /\ IF Line(req.sector).used /\ Line(req.sector).dirty
       THEN /\ xfer' = [cmd |-> WRITE, sector |-> Line(req.sector).sector]
            /\ pc' = "wait"
       ELSE /\ xfer' = [cmd |-> READ, sector |-> req.sector]
            /\ pc' = "clear"
  /\ UNCHANGED <<slot, kernel, device, req, ret>>

ClearIdeIntr ==
  /\ At("clear")
  /\ has_ide_intr' = 0 /\ pc' = "wait"
  /\ UNCHANGED <<slot, counter, cache, device, req, xfer, ret>>

(* ide_prepare: waitdisk, then the digits of the sector one port at a time. *)
WaitDisk ==
  /\ At("wait")
  /\ port.status = READY
  /\ pc' = "low"
  /\ UNCHANGED <<slot, kernel, device, req, xfer, ret>>

SetLow ==
  /\ At("low")
  /\ port' = [port EXCEPT !.lo = xfer.sector % Radix] /\ pc' = "high"
  /\ UNCHANGED <<slot, kernel, dev, disk, req, xfer, ret>>

(* Mutant of SetHigh: the sector is not shifted.                           *)
SetHighUnshifted ==
  /\ At("high")
  /\ port' = [port EXCEPT !.hi = xfer.sector % Radix] /\ pc' = "issue"
  /\ UNCHANGED <<slot, kernel, dev, disk, req, xfer, ret>>

SetHigh ==
  /\ At("high")
  /\ port' = [port EXCEPT !.hi = xfer.sector \div Radix] /\ pc' = "issue"
  /\ UNCHANGED <<slot, kernel, dev, disk, req, xfer, ret>>

(* issue_read or issue_write.                                              *)
Issue ==
  /\ At("issue")
  /\ Command(xfer.cmd)
  /\ pc' = IF xfer.cmd = READ THEN "intr" ELSE "out"
  /\ UNCHANGED <<kernel, disk, req, xfer, ret>>

(* disk_do_write's loop; then cache_fetch goes on to read the new sector.  *)
OutLong ==
  /\ At("out")
  /\ disk' = Stored(dev.sector, dev.word, Line(xfer.sector).content[dev.word])
  /\ Advance
  /\ IF dev.word + 1 = SectorWords
       THEN pc' = "clear" /\ xfer' = [cmd |-> READ, sector |-> req.sector]
       ELSE UNCHANGED <<pc, xfer>>
  /\ UNCHANGED <<slot, kernel, req, ret>>

(* wait_ide_intr: halts until ide_intr() has run, then clears its flag.    *)
WaitIdeIntr ==
  /\ At("intr")
  /\ has_ide_intr = 1
  /\ has_ide_intr' = 0 /\ pc' = "in"
  /\ UNCHANGED <<slot, counter, cache, device, req, xfer, ret>>

(* disk_do_read's loop: the device asserts that no write was begun.        *)
InLong ==
  /\ At("in") /\ ~dev.ide_write
  /\ SetLine(req.sector, "content",
       [Line(req.sector).content EXCEPT ![dev.word] = disk[dev.sector][dev.word]])
  /\ Advance
  /\ pc' = IF dev.word + 1 = SectorWords THEN "used" ELSE "in"
  /\ UNCHANGED <<slot, has_ide_intr, counter, disk, req, xfer, ret>>

AbortInLong ==
  /\ At("in") /\ dev.ide_write
  /\ pc' = "abort"
  /\ UNCHANGED <<slot, kernel, device, req, xfer, ret>>

(* cache_fetch marks the line, one store at a time.                        *)
SetUsed ==
  /\ At("used")
  /\ SetLine(req.sector, "used", TRUE) /\ pc' = "tag"
  /\ UNCHANGED <<slot, has_ide_intr, counter, device, req, xfer, ret>>

SetTag ==
  /\ At("tag")
  /\ SetLine(req.sector, "sector", req.sector) /\ pc' = "clean"
  /\ UNCHANGED <<slot, has_ide_intr, counter, device, req, xfer, ret>>

SetClean ==
  /\ At("clean")
  /\ SetLine(req.sector, "dirty", FALSE) /\ pc' = "access"
  /\ UNCHANGED <<slot, has_ide_intr, counter, device, req, xfer, ret>>

(* read_byte returns; write_byte stores, and then marks the line dirty.    *)
ReadByte ==
  /\ At("access") /\ req.op = "read"
  /\ ret' = Line(req.sector).content[req.word]
  /\ pc' = "idle" /\ req' = NoReq
  /\ UNCHANGED <<slot, kernel, device, xfer>>

WriteByte ==
  /\ At("access") /\ req.op = "write"
  /\ SetLine(req.sector, "content",
       [Line(req.sector).content EXCEPT ![req.word] = req.data])
  /\ pc' = "mark"
  /\ UNCHANGED <<slot, has_ide_intr, counter, device, req, xfer, ret>>

MarkDirty ==
  /\ At("mark")
  /\ SetLine(req.sector, "dirty", TRUE)
  /\ pc' = "idle" /\ req' = NoReq
  /\ UNCHANGED <<slot, has_ide_intr, counter, device, xfer, ret>>

-----------------------------------------------------------------------------
(* The interrupt handlers.                                                 *)

DirtyLines == {l \in Lines : cache[l].dirty}

(* cache_writeback: disk_do_write of every dirty line in turn, the last    *)
(* one leaving its number in the ports and the device.  waitdisk never     *)
(* returns if the interrupted code has left a write unfinished: no one     *)
(* else can finish it while IF = 0.                                        *)
WriteBack ==
  IF port.status # READY
    THEN pc' = "spin" /\ UNCHANGED <<cache, device>>
    ELSE LET last == CHOOSE l \in DirtyLines : \A k \in DirtyLines : k <= l
             s    == cache[last].sector
         IN /\ disk' = IF ~Writable THEN disk
                       ELSE [t \in Sectors |->
                              IF \E l \in DirtyLines : cache[l].sector = t
                                THEN cache[t % NR_SEC_CACHE].content ELSE disk[t]]
            /\ cache' = [l \in Lines |-> [cache[l] EXCEPT !.dirty = FALSE]]
            /\ port' = [lo |-> s % Radix, hi |-> s \div Radix, status |-> READY]
            /\ dev' = [sector |-> s, word |-> SectorWords, ide_write |-> TRUE]
            /\ UNCHANGED pc

NextCount(c) == IF c + 1 = WritebackTicks THEN 0 ELSE c + 1

(* irq0 runs ide_writeback(): every WritebackTicks-th tick writes back.    *)
TimerIntr ==
  /\ slot = TIMER_IRQ + IRQ_BASE
  /\ pc \notin {"spin", "abort"}
  /\ slot' = NO_INTR
  /\ counter' = NextCount(counter)
  /\ IF counter' = 0 /\ DirtyLines # {}
       THEN WriteBack
       ELSE UNCHANGED <<cache, device, pc>>
  /\ UNCHANGED <<has_ide_intr, req, xfer, ret>>

(* irq14 runs ide_intr().                                                  *)
IdeIntr ==
  /\ slot = IDE_IRQ + IRQ_BASE
  /\ pc \notin {"spin", "abort"}
  /\ slot' = NO_INTR
  /\ has_ide_intr' = 1
  /\ UNCHANGED <<counter, cache, device, caller>>

(* do_timer(): the tick is dropped if a higher line is already pending.    *)
Tick ==
  /\ pc # "abort" /\ counter < TickLimit
  /\ slot' = Arbitrate(TIMER_IRQ, slot)
  /\ UNCHANGED <<kernel, device, caller>>

-----------------------------------------------------------------------------
Requests == [op : {"read"},  sector : Accessed, word : Words]
            \union
            [op : {"write"}, sector : Accessed, word : Words, data : Written]

ASSUME NoReqAssumption == NoReq \notin Requests

(* After init_ide() of both sides: static storage, and the device READY.   *)
Init ==
  /\ slot = NO_INTR /\ has_ide_intr = 0 /\ counter = 0
  /\ cache = [l \in Lines |-> [used |-> FALSE, dirty |-> FALSE, sector |-> 0,
                               content |-> [w \in Words |-> Zero]]]
  /\ port = [lo |-> 0, hi |-> 0, status |-> READY]
  /\ dev = [sector |-> 0, word |-> 0, ide_write |-> FALSE]
  /\ disk = Image
  /\ pc = "idle" /\ req = NoReq /\ ret = Zero
  /\ xfer = [cmd |-> READ, sector |-> 0]

Fetch    == Hit \/ Miss
Transfer == \/ ClearIdeIntr \/ WaitDisk \/ SetLow \/ SetHigh \/ Issue
            \/ OutLong \/ WaitIdeIntr \/ InLong \/ AbortInLong
Fill     == SetUsed \/ SetTag \/ SetClean
Access   == ReadByte \/ WriteByte \/ MarkDirty

Serve    == Fetch \/ Transfer \/ Fill \/ Access
Handlers == TimerIntr \/ IdeIntr

Next == (\E r \in Requests : Call(r)) \/ Serve \/ Handlers \/ Tick

Spec == Init /\ [][Next]_vars

(* A handler runs as soon as its interrupt is pending; ticks are 10 ms     *)
(* apart, so the caller executes instructions between them.                *)
FairSpec == Spec /\ SF_vars(Serve) /\ WF_vars(Handlers)

-----------------------------------------------------------------------------
(* The type of the driver's and the device's state.                        *)
TypeOK ==
  /\ slot \in {NO_INTR, TIMER_IRQ + IRQ_BASE, IDE_IRQ + IRQ_BASE}
  /\ has_ide_intr \in {0, 1}
  /\ counter \in 0 .. WritebackTicks - 1
  /\ cache \in [Lines -> [used : BOOLEAN, dirty : BOOLEAN, sector : Sectors,
                          content : [Words -> Data]]]
  /\ port \in [lo : 0 .. Radix - 1, hi : 0 .. Radix - 1, status : {WRITE, READY}]
  /\ dev \in [sector : Sectors, word : Nat, ide_write : BOOLEAN]
  /\ disk \in [Sectors -> [Words -> Data]]
  /\ pc \in {"idle", "fetch", "clear", "wait", "low", "high", "issue", "out",
             "intr", "in", "used", "tag", "clean", "access", "mark", "spin",
             "abort"}
  /\ req \in Requests \union {NoReq}
  /\ xfer \in [cmd : {READ, WRITE}, sector : Sectors]
  /\ ret \in Data

(* A line whose content cache_fetch is replacing.                          *)
Filling(s) ==
  /\ pc \in {"in", "used", "tag", "clean", "abort"}
  /\ s % NR_SEC_CACHE = req.sector % NR_SEC_CACHE

(* `assert(byte_cnt <= 512)' of handler_ide: a sector's worth of longs is  *)
(* never exceeded, although two pieces of code drive the device.           *)
CountInSector == dev.word <= SectorWords

(* A clean line holds what the disk holds of its sector: a hit may return  *)
(* it as it is (cache.c:44), and it may be dropped without writing it.     *)
CleanLinesMatchDisk ==
  \A l \in Lines :
    cache[l].used /\ ~cache[l].dirty /\ ~Filling(l) /\ pc # "mark"
      => cache[l].content = disk[cache[l].sector]

(* The handler can be caught in waitdisk only by a write the interrupted   *)
(* caller has begun: a read leaves the disk ready throughout.              *)
SpinsOnlyInsideAWrite ==
  [][pc' = "spin" /\ pc # "spin" => pc = "out" /\ DirtyLines # {}]_vars

(* The disk's contents as a caller of ide_read is to see them.             *)
Contents(s) ==
  IF Line(s).used /\ Line(s).sector = s /\ ~Filling(s)
    THEN Line(s).content ELSE disk[s]

Store == INSTANCE SectorStore WITH
           store <- [s \in Sectors |-> Contents(s)],
           req   <- IF pc = "mark" THEN NoReq ELSE req

(* The driver is a disk that remembers what was written to it and serves   *)
(* every request.                                                          *)
ImplementsStore == Store!Spec
=============================================================================
