-------------------------- MODULE IdeDriverProofs --------------------------
(***************************************************************************)
(* What holds of the IDE driver for every size of the cache and of a       *)
(* sector, every image and every caller.                                   *)
(*                                                                         *)
(* Two programs drive one device: the caller of ide_read or ide_write, one *)
(* port access at a time, and the timer handler, which may write the cache *)
(* back between any two of these. Whatever it does, the device's count of  *)
(* words stays within the sector and the handler is caught in waitdisk     *)
(* only inside a write (CountInv). That the driver is a disk needs more:   *)
(* that no write-back falls between the first and the last access of a     *)
(* transfer (Undisturbed) - it is so as long as no write-back is due, and  *)
(* for good if nobody writes. Then every moment of a transfer says where   *)
(* the sector's data are (TransferInv).                                    *)
(***************************************************************************)
EXTENDS IdeDriver, WellFoundedInduction, TLAPS

(* The device counts the words of a sector; READY is what says that it is  *)
(* at none. A write-back in the middle of a read ends with the count full, *)
(* and with ide_write set, so that the next in_long goes no further.       *)
CountInv ==
  /\ dev.word <= SectorWords
  /\ pc = "out" => port.status = WRITE /\ dev.word < SectorWords
  /\ pc \notin {"out", "spin"} => port.status = READY
  /\ pc \in {"intr", "in"} => dev.word < SectorWords \/ dev.ide_write

RequestInv == IF pc = "idle" THEN req = NoReq ELSE req \in Requests

IInv == TypeOK /\ CountInv /\ RequestInv

-----------------------------------------------------------------------------
(* The line of the request.                                                *)
Mine == req.sector % NR_SEC_CACHE

(* The line found by a sector's number is that sector's line, except while *)
(* the tag of a line that had none is stored.                              *)
LinesInv ==
  \A l \in Lines :
    /\ cache[l].dirty => cache[l].used /\ Written # {}
    /\ cache[l].used /\ ~(pc = "tag" /\ l = Mine)
         => cache[l].sector % NR_SEC_CACHE = l

Prepares == pc \in {"wait", "low", "high", "issue"}
Reading  == pc \in {"clear", "intr", "in"} \/ (Prepares /\ xfer.cmd = READ)
Writing  == pc = "out" \/ (Prepares /\ xfer.cmd = WRITE)

(* What is transferred: the sector asked for, or the dirty line's.         *)
TransferInv ==
  /\ Reading => xfer.cmd = READ /\ xfer.sector = req.sector
  /\ Writing => /\ cache[Mine].used /\ cache[Mine].dirty
                /\ xfer.cmd = WRITE /\ xfer.sector = cache[Mine].sector
  /\ pc \in {"high", "issue"} => port.lo = xfer.sector % Radix
  /\ pc = "issue" => port.hi = xfer.sector \div Radix
  /\ pc \in {"out", "intr", "in"} => dev.sector = xfer.sector
  /\ pc = "out" => \A w \in Words : w < dev.word =>
                     disk[dev.sector][w] = cache[Mine].content[w]
  /\ pc = "intr" => dev.word = 0
  /\ pc \in {"intr", "in"} => ~dev.ide_write
  /\ pc = "in"  => \A w \in Words : w < dev.word =>
                     cache[Mine].content[w] = disk[dev.sector][w]

(* What the line holds once it is read, store by store.                    *)
FilledInv ==
  /\ pc \in {"used", "tag", "clean"} => cache[Mine].content = disk[req.sector]
  /\ pc \in {"tag", "clean", "access", "mark"} => cache[Mine].used
  /\ pc \in {"clean", "access", "mark"} => cache[Mine].sector = req.sector
  /\ pc = "mark" => req.op = "write"
  /\ pc \notin {"spin", "abort"}

Replaced(l) == pc \in {"in", "used", "tag", "clean", "mark"} /\ l = Mine

(* A clean line is on the disk; so is the line that is about to be         *)
(* replaced, marked dirty though it may be.                                *)
SavedInv ==
  \A l \in Lines :
    /\ cache[l].used
    /\ ~Replaced(l)
    /\ cache[l].dirty => Reading /\ l = Mine
    => cache[l].content = disk[cache[l].sector]

DataInv == LinesInv /\ TransferInv /\ FilledInv /\ SavedInv

(* The timer handler writes the cache back in this step.                   *)
WritesBack ==
  /\ slot = TIMER_IRQ + IRQ_BASE /\ slot' # slot
  /\ counter' = 0 /\ DirtyLines # {}

(* None comes between the accesses of a transfer.                          *)
Quiet == WritesBack => pc \in {"idle", "fetch", "access", "mark"}
Undisturbed == [][Quiet]_vars

(* What is written reaches the disk.                                       *)
Kept == Writable = TRUE \/ Written = {}

-----------------------------------------------------------------------------
(* Sector numbers, lines and the slot. *)

(* A sector's number is its two digits.                                    *)
LEMMA DigitFacts ==
  ASSUME NEW s \in Sectors
  PROVE  /\ s % Radix \in 0 .. Radix - 1 /\ s \div Radix \in 0 .. Radix - 1
         /\ (s % Radix) + Radix * (s \div Radix) = s
  <1> DEFINE q == s \div Radix  r == s % Radix
  <1>1. Radix \in Nat \ {0} /\ s \in Nat /\ s < Radix * Radix
    <2>1. Radix \in Nat \ {0}
      BY IdeAssumption
    <2>2. Radix * Radix \in Nat
      BY <2>1
    <2> QED
      BY <2>1, <2>2 DEF Sectors
  <1>2. q \in Nat /\ r \in 0 .. Radix - 1 /\ s = Radix * q + r
    BY <1>1, SMTT(30)
  <1> HIDE DEF q, r
  <1>3. q < Radix
    <2> SUFFICES ASSUME q >= Radix PROVE FALSE
      BY <1>1, <1>2
    <2>1. Radix * q >= Radix * Radix
      BY <1>1, <1>2
    <2> QED
      BY <1>1, <1>2, <2>1
  <1>4. r + Radix * q = s
    BY <1>1, <1>2
  <1> QED
    BY <1>1, <1>2, <1>3, <1>4 DEF q, r

LEMMA NumberFacts ==
  ASSUME NEW lo \in 0 .. Radix - 1, NEW hi \in 0 .. Radix - 1
  PROVE  lo + Radix * hi \in Sectors
  <1>1. Radix \in Nat \ {0}
    BY IdeAssumption
  <1>2. Radix * hi <= Radix * (Radix - 1) /\ Radix * hi \in Nat
    BY <1>1
  <1>3. Radix * (Radix - 1) = Radix * Radix - Radix
    BY <1>1
  <1> QED
    BY <1>1, <1>2, <1>3 DEF Sectors

LEMMA LineFacts == \A s \in Sectors : s % NR_SEC_CACHE \in Lines
  <1>1. NR_SEC_CACHE \in Nat \ {0} /\ Sectors \subseteq Int
    BY IdeAssumption DEF Sectors
  <1>2. \A s \in Int : s % NR_SEC_CACHE \in 0 .. NR_SEC_CACHE - 1
    BY <1>1, SMTT(30)
  <1> QED
    BY <1>1, <1>2 DEF Lines

LEMMA RequestFacts ==
  ASSUME NEW r \in Requests
  PROVE  /\ r.sector \in Sectors /\ r.word \in Words /\ r.sector % NR_SEC_CACHE \in Lines
         /\ r.op \in {"read", "write"} /\ r # NoReq
         /\ r.op = "write" => r.data \in Data /\ r.data \in Written
  <1>1. /\ r.sector \in Accessed /\ r.word \in Words /\ r.op \in {"read", "write"}
        /\ r.op = "write" => r.data \in Written
    BY DEF Requests
  <1> QED
    BY <1>1, LineFacts, IdeAssumption, NoReqAssumption

(* Of the dirty lines one is the last that cache_writeback() comes to.     *)
LEMMA LastLine ==
  ASSUME NEW S, S \subseteq Lines, S # {}
  PROVE  \E l \in S : \A k \in S : k <= l
  <1> DEFINE Above == {n \in Nat : \A k \in S : k <= n}
             Below == {p \in Nat \X Nat : p[1] < p[2]}
  <1>1. Below = OpToRel(<, Nat)
    BY Zenon DEF OpToRel
  <1>2. IsWellFoundedOn(Below, Nat)
    BY <1>1, NatLessThanWellFounded, Zenon
  <1>3. \A a, b \in Nat : <<a, b>> \notin Below => b <= a
    OBVIOUS
  <1>4. S \subseteq Nat /\ NR_SEC_CACHE \in Above /\ Above \subseteq Nat
    BY IdeAssumption DEF Lines
  <1> HIDE DEF Below
  <1>5. PICK m \in Above : \A k \in Above : ~ (<<k, m>> \in Below)
    BY <1>2, <1>4, WFMin, Zenon
  <1>6. \A k \in Above : m <= k
    BY <1>3, <1>4, <1>5
  <1>7. m \in S
    <2> SUFFICES ASSUME m \notin S PROVE FALSE
      OBVIOUS
    <2>1. \A k \in S : k < m
      BY <1>4
    <2>2. m - 1 \in Above
      <3>1. m - 1 \in Nat
        <4>1. PICK k \in S : k < m
          BY <2>1
        <4> QED
          BY <1>4, <4>1
      <3>2. \A k \in S : k <= m - 1
        BY <1>4, <2>1
      <3> QED
        BY <3>1, <3>2
    <2> QED
      BY <1>4, <1>6, <2>2
  <1> QED
    BY <1>7

Slots == {NO_INTR, TIMER_IRQ + IRQ_BASE, IDE_IRQ + IRQ_BASE}

LEMMA SlotFacts ==
  /\ \A s \in Slots : Arbitrate(TIMER_IRQ, s) \in Slots /\ Arbitrate(IDE_IRQ, s) \in Slots
  /\ NO_INTR # TIMER_IRQ + IRQ_BASE /\ NO_INTR # IDE_IRQ + IRQ_BASE
  /\ TIMER_IRQ + IRQ_BASE # IDE_IRQ + IRQ_BASE
  BY DEF Slots, Arbitrate, NO_INTR, TIMER_IRQ, IDE_IRQ, IRQ_BASE

SectorData == [Words -> Data]
CacheLine  == [used : BOOLEAN, dirty : BOOLEAN, sector : Sectors, content : SectorData]

(* One store of cache.c changes one field of one line.                     *)
LEMMA SetLineFacts ==
  ASSUME cache \in [Lines -> CacheLine], NEW s \in Sectors, NEW v,
         NEW field \in {"used", "dirty", "sector", "content"},
         SetLine(s, field, v),
         field \in {"used", "dirty"} => v \in BOOLEAN,
         field = "sector" => v \in Sectors,
         field = "content" => v \in SectorData
  PROVE  /\ cache' \in [Lines -> CacheLine]
         /\ \A l \in Lines : l # s % NR_SEC_CACHE => cache'[l] = cache[l]
         /\ cache'[s % NR_SEC_CACHE].used = IF field = "used" THEN v ELSE Line(s).used
         /\ cache'[s % NR_SEC_CACHE].dirty = IF field = "dirty" THEN v ELSE Line(s).dirty
         /\ cache'[s % NR_SEC_CACHE].sector = IF field = "sector" THEN v ELSE Line(s).sector
         /\ cache'[s % NR_SEC_CACHE].content = IF field = "content" THEN v ELSE Line(s).content
  <1>1. PICK k \in Lines : k = s % NR_SEC_CACHE
    BY LineFacts
  <1>2. cache' = [cache EXCEPT ![k] = [@ EXCEPT ![field] = v]]
    BY <1>1, Zenon DEF SetLine
  <1>3. PICK c \in CacheLine : c = cache[k]
    BY <1>1
  <1>4. [c EXCEPT ![field] = v] \in CacheLine
    BY <1>3 DEF CacheLine
  <1>5. cache' \in [Lines -> CacheLine] /\ cache'[k] = [c EXCEPT ![field] = v]
        /\ \A l \in Lines : l # k => cache'[l] = cache[l]
    BY <1>2, <1>3, <1>4
  <1>6. /\ cache'[k].used = IF field = "used" THEN v ELSE c.used
        /\ cache'[k].dirty = IF field = "dirty" THEN v ELSE c.dirty
        /\ cache'[k].sector = IF field = "sector" THEN v ELSE c.sector
        /\ cache'[k].content = IF field = "content" THEN v ELSE c.content
    BY <1>3, <1>5 DEF CacheLine
  <1> QED
    BY <1>1, <1>3, <1>5, <1>6 DEF Line
(* The same of a word of the line's content.                               *)
LEMMA ContentFacts ==
  ASSUME NEW c \in SectorData, NEW w \in Words, NEW d \in Data
  PROVE  /\ [c EXCEPT ![w] = d] \in SectorData
         /\ \A u \in Words : [c EXCEPT ![w] = d][u] = IF u = w THEN d ELSE c[u]
  BY DEF SectorData

Ports   == [lo : 0 .. Radix - 1, hi : 0 .. Radix - 1, status : {WRITE, READY}]
Devices == [sector : Sectors, word : Nat, ide_write : BOOLEAN]

LEMMA CommandFacts ==
  ASSUME TypeOK, NEW cmd \in {READ, WRITE}, Command(cmd)
  PROVE  /\ dev' \in Devices /\ port' \in Ports /\ slot' \in Slots
         /\ dev'.word = 0 /\ dev'.sector = port.lo + Radix * port.hi
         /\ dev'.ide_write <=> cmd = WRITE
         /\ port'.status = IF cmd = READ THEN READY ELSE WRITE
         /\ port'.lo = port.lo /\ port'.hi = port.hi
  <1>1. port \in Ports /\ slot \in Slots
    BY DEF TypeOK, Ports, Slots
  <1>2. port.lo \in 0 .. Radix - 1 /\ port.hi \in 0 .. Radix - 1
    BY <1>1 DEF Ports
  <1>3. PICK w \in BOOLEAN : w <=> cmd = WRITE
    OBVIOUS
  <1>4. dev' = [sector |-> port.lo + Radix * port.hi, word |-> 0, ide_write |-> w]
    BY <1>3, Zenon DEF Command
  <1>5. PICK n \in Sectors : n = port.lo + Radix * port.hi
    BY <1>2, NumberFacts
  <1>6. dev' = [sector |-> n, word |-> 0, ide_write |-> w]
    BY <1>4, <1>5, Zenon
  <1>7. dev' \in Devices /\ dev'.word = 0 /\ dev'.sector = n /\ dev'.ide_write = w
    BY <1>6 DEF Devices
  <1>8. port' = [port EXCEPT !.status = IF cmd = READ THEN READY ELSE WRITE]
    BY DEF Command
  <1>9. /\ port' \in Ports /\ port'.status = IF cmd = READ THEN READY ELSE WRITE
        /\ port'.lo = port.lo /\ port'.hi = port.hi
    BY <1>1, <1>8 DEF Ports
  <1>10. slot' \in Slots
    BY <1>1, SlotFacts DEF Command
  <1> QED
    BY <1>3, <1>5, <1>7, <1>9, <1>10, Zenon

LEMMA AdvanceFacts ==
  ASSUME TypeOK, Advance
  PROVE  /\ dev' \in Devices /\ port' \in Ports
         /\ dev'.word = dev.word + 1 /\ dev'.sector = dev.sector
         /\ dev'.ide_write = dev.ide_write
         /\ port'.status = IF dev.word + 1 = SectorWords THEN READY ELSE port.status
         /\ port'.lo = port.lo /\ port'.hi = port.hi
  <1>1. port \in Ports /\ dev \in Devices
    BY DEF TypeOK, Ports, Devices
  <1>2. dev' = [dev EXCEPT !.word = @ + 1]
    BY DEF Advance
  <1>3. port' = IF dev.word + 1 = SectorWords THEN [port EXCEPT !.status = READY] ELSE port
    BY DEF Advance
  <1> QED
    BY <1>1, <1>2, <1>3 DEF Ports, Devices

(* cache_writeback() with the disk ready.                                  *)
LEMMA WriteBackFacts ==
  ASSUME TypeOK, DirtyLines # {}, port.status = READY, WriteBack
  PROVE  /\ cache' \in [Lines -> CacheLine] /\ disk' \in [Sectors -> SectorData]
         /\ \A l \in Lines : /\ cache'[l].dirty = FALSE
                             /\ cache'[l].used = cache[l].used
                             /\ cache'[l].sector = cache[l].sector
                             /\ cache'[l].content = cache[l].content
         /\ Writable # TRUE => disk' = disk
         /\ Writable = TRUE => \A t \in Sectors :
              disk'[t] = IF \E l \in DirtyLines : cache[l].sector = t
                           THEN cache[t % NR_SEC_CACHE].content ELSE disk[t]
         /\ dev' \in Devices /\ port' \in Ports
         /\ dev'.word = SectorWords /\ dev'.ide_write = TRUE /\ port'.status = READY
         /\ pc' = pc
  <1>1. cache \in [Lines -> CacheLine] /\ disk \in [Sectors -> SectorData] /\ SectorWords \in Nat
    BY IdeAssumption DEF TypeOK, CacheLine, SectorData
  <1>2. DirtyLines \subseteq Lines
    BY DEF DirtyLines
  <1> DEFINE last == CHOOSE l \in DirtyLines : \A k \in DirtyLines : k <= l
  <1>3. last \in DirtyLines
    BY <1>2, LastLine
  <1>4. last \in Lines /\ cache[last].sector \in Sectors
    BY <1>1, <1>2, <1>3 DEF CacheLine
  <1> DEFINE s == cache[last].sector
  <1>5. /\ disk' = IF ~Writable THEN disk
                   ELSE [t \in Sectors |->
                           IF \E l \in DirtyLines : cache[l].sector = t
                             THEN cache[t % NR_SEC_CACHE].content ELSE disk[t]]
        /\ cache' = [l \in Lines |-> [cache[l] EXCEPT !.dirty = FALSE]]
        /\ port' = [lo |-> s % Radix, hi |-> s \div Radix, status |-> READY]
        /\ dev' = [sector |-> s, word |-> SectorWords, ide_write |-> TRUE]
        /\ pc' = pc
    BY Zenon DEF WriteBack
  <1>6. s \in Sectors
    BY <1>4
  <1> HIDE DEF s
  <1>7. s % Radix \in 0 .. Radix - 1 /\ s \div Radix \in 0 .. Radix - 1
    BY <1>6, DigitFacts
  <1>8. port' \in Ports /\ port'.status = READY
    BY <1>5, <1>7 DEF Ports
  <1>9. dev' \in Devices /\ dev'.word = SectorWords /\ dev'.ide_write = TRUE
    BY <1>1, <1>5, <1>6 DEF Devices
  <1>10. /\ cache' \in [Lines -> CacheLine]
         /\ \A l \in Lines : /\ cache'[l].dirty = FALSE
                             /\ cache'[l].used = cache[l].used
                             /\ cache'[l].sector = cache[l].sector
                             /\ cache'[l].content = cache[l].content
    BY <1>1, <1>5 DEF CacheLine
  <1>11. \A t \in Sectors : cache[t % NR_SEC_CACHE].content \in SectorData
    BY <1>1, LineFacts DEF CacheLine
  <1>12. CASE Writable = TRUE
    <2>1. disk' = [t \in Sectors |->
                     IF \E l \in DirtyLines : cache[l].sector = t
                       THEN cache[t % NR_SEC_CACHE].content ELSE disk[t]]
      BY <1>5, <1>12, Zenon
    <2>2. disk' \in [Sectors -> SectorData]
      BY <1>1, <1>11, <2>1
    <2> QED
      BY <1>5, <1>8, <1>9, <1>10, <1>12, <2>1, <2>2, Zenon
  <1>13. CASE Writable # TRUE
    <2>1. Writable = FALSE
      BY <1>13, IdeAssumption
    <2>2. disk' = disk
      BY <1>5, <2>1, Zenon
    <2> QED
      BY <1>1, <1>5, <1>8, <1>9, <1>10, <1>13, <2>2, Zenon
  <1> QED
    BY <1>12, <1>13

(* What a word written through port 0 does to the file.                    *)
LEMMA StoredFacts ==
  ASSUME disk \in [Sectors -> SectorData],
         NEW s \in Sectors, NEW w \in Words, NEW d \in Data
  PROVE  /\ Stored(s, w, d) \in [Sectors -> SectorData]
         /\ \A t \in Sectors : t # s => Stored(s, w, d)[t] = disk[t]
         /\ Writable = TRUE => Stored(s, w, d)[s] = [disk[s] EXCEPT ![w] = d]
  <1>1. CASE Writable = TRUE
    <2>1. Stored(s, w, d) = [disk EXCEPT ![s] = [@ EXCEPT ![w] = d]]
      BY <1>1, Zenon DEF Stored
    <2>2. [disk[s] EXCEPT ![w] = d] \in SectorData
      BY ContentFacts
    <2> QED
      BY <2>1, <2>2
  <1>2. CASE Writable # TRUE
    <2>1. Writable = FALSE
      BY <1>2, IdeAssumption
    <2>2. Stored(s, w, d) = disk
      BY <2>1, Zenon DEF Stored
    <2> QED
      BY <1>2, <2>2
  <1> QED
    BY <1>1, <1>2

-----------------------------------------------------------------------------
(* The count of words, whatever the timer does. *)

LEMMA InitIInv == Init => IInv
  <1> SUFFICES ASSUME Init PROVE IInv
    OBVIOUS
  <1>1. 0 \in Sectors
    <2>1. Radix * Radix >= 1
      BY IdeAssumption
    <2> QED
      BY IdeAssumption, <2>1 DEF Sectors
  <1>2. cache \in [Lines -> CacheLine]
    BY <1>1, IdeAssumption DEF Init, CacheLine, SectorData
  <1>3. port \in Ports /\ dev \in Devices /\ xfer \in [cmd : {READ, WRITE}, sector : Sectors]
    BY <1>1, IdeAssumption DEF Init, Ports, Devices
  <1>4. TypeOK
    BY <1>2, <1>3, IdeAssumption DEF Init, TypeOK, CacheLine, SectorData, Ports, Devices
  <1>5. CountInv /\ RequestInv
    BY IdeAssumption DEF Init, CountInv, RequestInv
  <1> QED
    BY <1>4, <1>5 DEF IInv

(* The type of what the caller's next step works on.                       *)
LEMMA TypesOfRequest ==
  ASSUME IInv
  PROVE  /\ cache \in [Lines -> CacheLine] /\ disk \in [Sectors -> SectorData]
         /\ port \in Ports /\ dev \in Devices /\ slot \in Slots
         /\ xfer.cmd \in {READ, WRITE} /\ xfer.sector \in Sectors
         /\ pc # "idle" => /\ req \in Requests /\ req.sector \in Sectors
                           /\ Mine \in Lines /\ Line(req.sector) = cache[Mine]
                           /\ cache[Mine] \in CacheLine
  <1>1. /\ cache \in [Lines -> CacheLine] /\ disk \in [Sectors -> SectorData]
        /\ port \in Ports /\ dev \in Devices /\ slot \in Slots
        /\ xfer.cmd \in {READ, WRITE} /\ xfer.sector \in Sectors
    BY DEF IInv, TypeOK, CacheLine, SectorData, Ports, Devices, Slots
  <1>2. pc # "idle" => req \in Requests
    BY DEF IInv, RequestInv
  <1> QED
    BY <1>1, <1>2, RequestFacts DEF Mine, Line

LEMMA NextIInv ==
  ASSUME IInv, [Next]_vars
  PROVE  IInv'
  <1> USE DEF kernel, device, caller
  <1>1. CASE UNCHANGED vars
    BY <1>1 DEF IInv, TypeOK, CountInv, RequestInv, vars
  <1>2. ASSUME NEW r \in Requests, Call(r) PROVE IInv'
    BY <1>2 DEF IInv, TypeOK, CountInv, RequestInv, Call, At
  <1>3. CASE Hit
    BY <1>3 DEF IInv, TypeOK, CountInv, RequestInv, Hit, At
  <1>4. CASE Miss
    <2>1. pc = "fetch" /\ pc' \in {"wait", "clear"}
      BY <1>4 DEF Miss, At
    <2>2. xfer' \in [cmd : {READ, WRITE}, sector : Sectors]
      BY <1>4, <2>1, TypesOfRequest DEF Miss, CacheLine
    <2> QED
      BY <1>4, <2>1, <2>2 DEF IInv, TypeOK, CountInv, RequestInv, Miss
  <1>5. CASE ClearIdeIntr
    BY <1>5 DEF IInv, TypeOK, CountInv, RequestInv, ClearIdeIntr, At
  <1>6. CASE WaitDisk
    BY <1>6 DEF IInv, TypeOK, CountInv, RequestInv, WaitDisk, At
  <1>7. CASE SetLow
    <2>1. xfer.sector % Radix \in 0 .. Radix - 1
      BY TypesOfRequest, DigitFacts
    <2> QED
      BY <1>7, <2>1 DEF IInv, TypeOK, CountInv, RequestInv, SetLow, At
  <1>8. CASE SetHigh
    <2>1. xfer.sector \div Radix \in 0 .. Radix - 1
      BY TypesOfRequest, DigitFacts
    <2> QED
      BY <1>8, <2>1 DEF IInv, TypeOK, CountInv, RequestInv, SetHigh, At
  <1>9. CASE Issue
    <2>1. TypeOK /\ xfer.cmd \in {READ, WRITE} /\ Command(xfer.cmd)
      BY <1>9, TypesOfRequest DEF IInv, Issue
    <2>2. /\ dev' \in Devices /\ port' \in Ports /\ slot' \in Slots /\ dev'.word = 0
          /\ port'.status = IF xfer.cmd = READ THEN READY ELSE WRITE
      BY <2>1, CommandFacts
    <2> QED
      BY <1>9, <2>1, <2>2, IdeAssumption
         DEF IInv, TypeOK, CountInv, RequestInv, Issue, At, Devices, Ports, Slots
  <1>10. CASE OutLong
    <2>1. /\ pc = "out" /\ port.status = WRITE /\ dev.word < SectorWords /\ dev.word \in Words
          /\ dev.sector \in Sectors /\ SectorWords \in Nat
      BY <1>10, IdeAssumption DEF IInv, TypeOK, CountInv, OutLong, At, Words
    <2>2. TypeOK /\ Advance
      BY <1>10 DEF IInv, OutLong
    <2>3. /\ dev' \in Devices /\ port' \in Ports /\ dev'.word = dev.word + 1
          /\ port'.status = IF dev.word + 1 = SectorWords THEN READY ELSE port.status
      BY <2>2, AdvanceFacts
    <2>4. Line(xfer.sector).content[dev.word] \in Data
      BY <2>1, TypesOfRequest, LineFacts DEF Line, CacheLine, SectorData
    <2>5. disk' \in [Sectors -> SectorData]
      BY <1>10, <2>1, <2>4, TypesOfRequest, StoredFacts DEF OutLong
    <2>6. xfer' \in [cmd : {READ, WRITE}, sector : Sectors] /\ pc' \in {"out", "clear"}
      BY <1>10, <2>1, TypesOfRequest DEF OutLong, IInv, TypeOK
    <2>7. dev.word \in Nat
      BY TypesOfRequest DEF Devices
    <2>8. pc' = IF dev.word + 1 = SectorWords THEN "clear" ELSE "out"
      BY <1>10, <2>1 DEF OutLong
    <2>9. CountInv'
      BY <2>1, <2>3, <2>7, <2>8 DEF CountInv
    <2>10. TypeOK'
      BY <1>10, <2>2, <2>3, <2>5, <2>6 DEF TypeOK, OutLong, Devices, Ports, SectorData
    <2> QED
      BY <1>10, <2>1, <2>8, <2>9, <2>10 DEF IInv, RequestInv, OutLong
  <1>11. CASE WaitIdeIntr
    BY <1>11 DEF IInv, TypeOK, CountInv, RequestInv, WaitIdeIntr, At
  <1>12. CASE InLong
    <2>1. /\ pc = "in" /\ ~dev.ide_write /\ dev.word < SectorWords /\ dev.word \in Words
          /\ port.status = READY /\ dev.sector \in Sectors /\ SectorWords \in Nat
      BY <1>12, IdeAssumption DEF IInv, TypeOK, CountInv, InLong, At, Words
    <2>2. TypeOK /\ Advance
      BY <1>12 DEF IInv, InLong
    <2>3. /\ dev' \in Devices /\ port' \in Ports /\ dev'.word = dev.word + 1
          /\ port'.status = IF dev.word + 1 = SectorWords THEN READY ELSE port.status
      BY <2>2, AdvanceFacts
    <2>4. /\ disk[dev.sector][dev.word] \in Data /\ Line(req.sector).content \in SectorData
          /\ req.sector \in Sectors
      BY <2>1, TypesOfRequest DEF CacheLine, SectorData
    <2>5. cache' \in [Lines -> CacheLine]
      BY <1>12, <2>1, <2>4, TypesOfRequest, SetLineFacts, ContentFacts DEF InLong
    <2>6. dev.word \in Nat
      BY TypesOfRequest DEF Devices
    <2>7. pc' = IF dev.word + 1 = SectorWords THEN "used" ELSE "in"
      BY <1>12 DEF InLong
    <2>8. CountInv'
      BY <2>1, <2>3, <2>6, <2>7 DEF CountInv
    <2>9. TypeOK'
      BY <1>12, <2>2, <2>3, <2>5 DEF TypeOK, InLong, Devices, Ports, CacheLine, SectorData
    <2> QED
      BY <1>12, <2>1, <2>7, <2>8, <2>9 DEF IInv, RequestInv, InLong
  <1>13. CASE AbortInLong
    BY <1>13 DEF IInv, TypeOK, CountInv, RequestInv, AbortInLong, At
  <1>14. CASE Fill \/ WriteByte \/ MarkDirty
    <2>1. cache' \in [Lines -> CacheLine]
      <3>1. pc # "idle" /\ req \in Requests /\ req.sector \in Sectors
        BY <1>14, TypesOfRequest DEF Fill, SetUsed, SetTag, SetClean, WriteByte, MarkDirty, At
      <3>2. CASE Fill \/ MarkDirty
        BY <3>1, <3>2, TypesOfRequest, SetLineFacts DEF Fill, SetUsed, SetTag, SetClean, MarkDirty
      <3>3. CASE WriteByte
        <4>1. req.word \in Words /\ req.data \in Data /\ Line(req.sector).content \in SectorData
          BY <3>1, <3>3, TypesOfRequest, RequestFacts DEF WriteByte, CacheLine
        <4> QED
          BY <3>1, <3>3, <4>1, TypesOfRequest, SetLineFacts, ContentFacts DEF WriteByte
      <3> QED
        BY <1>14, <3>2, <3>3
    <2> QED
      BY <1>14, <2>1 DEF IInv, TypeOK, CountInv, RequestInv, CacheLine, SectorData,
           Fill, SetUsed, SetTag, SetClean, WriteByte, MarkDirty, At
  <1>15. CASE ReadByte
    <2>1. Line(req.sector).content[req.word] \in Data
      BY <1>15, TypesOfRequest, RequestFacts DEF ReadByte, At, CacheLine, SectorData
    <2> QED
      BY <1>15, <2>1 DEF IInv, TypeOK, CountInv, RequestInv, ReadByte, At
  <1>16. CASE TimerIntr
    <2>1. counter' \in 0 .. WritebackTicks - 1
      BY <1>16, IdeAssumption DEF TimerIntr, NextCount, IInv, TypeOK
    <2>2. CASE UNCHANGED <<cache, device, pc>>
      BY <1>16, <2>1, <2>2 DEF IInv, TypeOK, CountInv, RequestInv, TimerIntr
    <2>3. CASE DirtyLines # {} /\ WriteBack /\ port.status # READY
      <3>1. pc = "out" /\ pc' = "spin" /\ UNCHANGED <<cache, device>>
        BY <1>16, <2>3 DEF TimerIntr, WriteBack, IInv, CountInv
      <3> QED
        BY <1>16, <2>1, <3>1 DEF IInv, TypeOK, CountInv, RequestInv, TimerIntr
    <2>4. CASE DirtyLines # {} /\ WriteBack /\ port.status = READY
      <3>1. /\ cache' \in [Lines -> CacheLine] /\ disk' \in [Sectors -> SectorData]
            /\ dev' \in Devices /\ port' \in Ports
            /\ dev'.word = SectorWords /\ dev'.ide_write = TRUE /\ port'.status = READY
            /\ pc' = pc
        BY <2>4, WriteBackFacts DEF IInv
      <3>2. pc # "out"
        BY <2>4 DEF IInv, CountInv, WRITE, READY
      <3> QED
        BY <1>16, <2>1, <3>1, <3>2, IdeAssumption
           DEF IInv, TypeOK, CountInv, RequestInv, TimerIntr, Devices, Ports, CacheLine, SectorData
    <2> QED
      BY <1>16, <2>2, <2>3, <2>4 DEF TimerIntr
  <1>17. CASE IdeIntr
    BY <1>17 DEF IInv, TypeOK, CountInv, RequestInv, IdeIntr
  <1>18. CASE Tick
    <2>1. slot' \in Slots
      BY <1>18, TypesOfRequest, SlotFacts DEF Tick
    <2> QED
      BY <1>18, <2>1 DEF IInv, TypeOK, CountInv, RequestInv, Tick, Slots
  <1> QED
    BY <1>1, <1>2, <1>3, <1>4, <1>5, <1>6, <1>7, <1>8, <1>9, <1>10, <1>11, <1>12, <1>13,
       <1>14, <1>15, <1>16, <1>17, <1>18
       DEF Next, Serve, Fetch, Transfer, Access, Handlers

THEOREM IInvHolds == Spec => []IInv
  BY InitIInv, NextIInv, PTL DEF Spec

(* The driver's state and the device's keep their types, for every size of *)
(* the cache and of a sector and every number of ticks.                    *)
THEOREM TypeCorrect == Spec => []TypeOK
  <1>1. IInv => TypeOK
    BY DEF IInv
  <1> QED
    BY <1>1, IInvHolds, PTL

(* The assertion of handler_ide on byte_cnt: with two pieces of code that  *)
(* drive the device, write-backs in the middle of a transfer included.     *)
THEOREM CountStaysInSector == Spec => []CountInSector
  <1>1. IInv => CountInSector
    BY DEF IInv, CountInv, CountInSector
  <1> QED
    BY <1>1, IInvHolds, PTL

(* The handler waits forever in waitdisk() only for a write that the       *)
(* interrupted caller has begun, and only if it has a line to write.       *)
THEOREM SpinsInsideAWrite == Spec => SpinsOnlyInsideAWrite
  <1>1. ASSUME IInv, [Next]_vars, pc' = "spin", pc # "spin"
        PROVE  pc = "out" /\ DirtyLines # {}
    <2>1. TimerIntr
      BY <1>1 DEF Next, Serve, Fetch, Transfer, Fill, Access, Handlers, Call, Hit, Miss,
           ClearIdeIntr, WaitDisk, SetLow, SetHigh, Issue, OutLong, WaitIdeIntr, InLong,
           AbortInLong, SetUsed, SetTag, SetClean, ReadByte, WriteByte, MarkDirty, IdeIntr,
           Tick, At, vars, caller
    <2>2. DirtyLines # {} /\ WriteBack
      BY <1>1, <2>1 DEF TimerIntr
    <2>3. port.status # READY
      BY <1>1, <2>2 DEF WriteBack
    <2> QED
      BY <1>1, <2>2, <2>3 DEF IInv, CountInv
  <1>2. IInv /\ [Next]_vars => [pc' = "spin" /\ pc # "spin" => pc = "out" /\ DirtyLines # {}]_vars
    BY <1>1
  <1> QED
    BY <1>2, IInvHolds, PTL DEF Spec, SpinsOnlyInsideAWrite

-----------------------------------------------------------------------------
(* Where the data are, as long as no write-back disturbs a transfer. *)

LEMMA InitDataInv == Init => DataInv
  BY DEF Init, DataInv, LinesInv, TransferInv, FilledInv, SavedInv, Reading, Writing, Prepares

(* The caller's steps that store into nothing but pc, the ports and the    *)
(* device.                                                                 *)
LEMMA StepKeepsLines ==
  ASSUME IInv, DataInv, UNCHANGED <<cache, disk>>,
         \/ \E r \in Requests : Call(r)
         \/ Hit \/ Miss \/ ClearIdeIntr \/ WaitDisk \/ SetLow \/ SetHigh \/ Issue
         \/ WaitIdeIntr \/ ReadByte
  PROVE  DataInv'
  <1> USE DEF kernel, device, caller
  <1>0. /\ cache \in [Lines -> CacheLine] /\ disk \in [Sectors -> SectorData]
        /\ pc # "idle" => /\ Mine \in Lines /\ Line(req.sector) = cache[Mine]
                          /\ cache[Mine] \in CacheLine
    BY TypesOfRequest
  <1>a. LinesInv /\ TransferInv /\ FilledInv /\ SavedInv
    BY DEF DataInv
  <1>1. CASE \E r \in Requests : Call(r)
    BY <1>1, <1>a DEF Call, At, DataInv, LinesInv, TransferInv, FilledInv, SavedInv,
                      Reading, Writing, Prepares, Replaced
  <1>2. CASE Hit
    <2>1. cache[Mine].used /\ cache[Mine].sector = req.sector /\ Mine' = Mine
      BY <1>0, <1>2 DEF Hit, At, Mine
    <2> QED
      BY <1>2, <1>a, <2>1 DEF Hit, At, DataInv, LinesInv, TransferInv, FilledInv, SavedInv,
                      Reading, Writing, Prepares, Replaced
  <1>3. CASE Miss
    <2>1. Mine' = Mine /\ pc = "fetch"
      BY <1>3 DEF Miss, At, Mine
    <2>2. \/ /\ cache[Mine].used /\ cache[Mine].dirty
             /\ xfer' = [cmd |-> WRITE, sector |-> cache[Mine].sector] /\ pc' = "wait"
          \/ /\ ~(cache[Mine].used /\ cache[Mine].dirty)
             /\ xfer' = [cmd |-> READ, sector |-> req.sector] /\ pc' = "clear"
      BY <1>0, <1>3, <2>1 DEF Miss
    <2>3. READ # WRITE
      BY DEF READ, WRITE
    <2> QED
      BY <1>3, <1>a, <2>1, <2>2, <2>3 DEF Miss, DataInv, LinesInv, TransferInv, FilledInv, SavedInv,
                      Reading, Writing, Prepares, Replaced
  <1>4. CASE ClearIdeIntr \/ WaitDisk
    BY <1>4, <1>a DEF ClearIdeIntr, WaitDisk, At, DataInv, LinesInv, TransferInv, FilledInv,
                      SavedInv, Reading, Writing, Prepares, Replaced, Mine, READ, WRITE
  <1>5. CASE SetLow
    <2>1. port \in Ports /\ xfer.sector \in Sectors
      BY TypesOfRequest
    <2>2. port'.lo = xfer.sector % Radix
      BY <1>5, <2>1, DigitFacts DEF SetLow, Ports
    <2> QED
      BY <1>5, <1>a, <2>2 DEF SetLow, At, DataInv, LinesInv, TransferInv, FilledInv,
                      SavedInv, Reading, Writing, Prepares, Replaced, Mine
  <1>6. CASE SetHigh
    <2>1. port \in Ports /\ xfer.sector \in Sectors
      BY TypesOfRequest
    <2>2. port'.hi = xfer.sector \div Radix /\ port'.lo = port.lo
      BY <1>6, <2>1, DigitFacts DEF SetHigh, Ports
    <2> QED
      BY <1>6, <1>a, <2>2 DEF SetHigh, At, DataInv, LinesInv, TransferInv, FilledInv,
                      SavedInv, Reading, Writing, Prepares, Replaced, Mine
  <1>7. CASE Issue
    <2>1. TypeOK /\ xfer.cmd \in {READ, WRITE} /\ Command(xfer.cmd) /\ pc = "issue"
      BY <1>7, TypesOfRequest DEF IInv, Issue, At
    <2>2. xfer.sector = port.lo + Radix * port.hi
      BY <1>a, <2>1, TypesOfRequest, DigitFacts DEF TransferInv
    <2>3. dev'.word = 0 /\ dev'.sector = xfer.sector /\ (dev'.ide_write <=> xfer.cmd = WRITE)
      BY <2>1, <2>2, CommandFacts
    <2>4. READ # WRITE
      BY DEF READ, WRITE
    <2>5. \A w \in Words : ~(w < 0)
      BY IdeAssumption DEF Words
    <2>6. /\ xfer' = xfer /\ Mine' = Mine /\ req' = req
          /\ \/ xfer.cmd = READ /\ pc' = "intr"
             \/ xfer.cmd = WRITE /\ pc' = "out"
      BY <1>7, <2>1 DEF Issue, Mine
    <2>7. LinesInv' /\ SavedInv' /\ FilledInv'
      BY <1>a, <2>1, <2>4, <2>6 DEF LinesInv, FilledInv, SavedInv, Reading, Prepares, Replaced
    <2>8. TransferInv'
      BY <1>a, <2>1, <2>3, <2>4, <2>5, <2>6 DEF TransferInv, Reading, Writing, Prepares
    <2> QED
      BY <2>7, <2>8 DEF DataInv
  <1>8. CASE WaitIdeIntr
    <2>1. \A w \in Words : ~(w < 0)
      BY IdeAssumption DEF Words
    <2> QED
      BY <1>8, <1>a, <2>1 DEF WaitIdeIntr, At, DataInv, LinesInv, TransferInv, FilledInv,
                      SavedInv, Reading, Writing, Prepares, Replaced, Mine
  <1>9. CASE ReadByte
    BY <1>9, <1>a DEF ReadByte, At, DataInv, LinesInv, TransferInv, FilledInv,
                      SavedInv, Reading, Writing, Prepares, Replaced
  <1> QED
    BY <1>1, <1>2, <1>3, <1>4, <1>5, <1>6, <1>7, <1>8, <1>9
(* A word of the dirty line goes to the disk, at its place.                *)
LEMMA OutLongFacts ==
  ASSUME Kept, IInv, DataInv, OutLong
  PROVE  /\ pc = "out" /\ dev.word \in Words /\ dev.word \in Nat
         /\ Mine \in Lines /\ cache[Mine] \in CacheLine
         /\ cache[Mine].used /\ cache[Mine].dirty
         /\ xfer.sector = cache[Mine].sector /\ xfer.sector \in Sectors
         /\ xfer.sector % NR_SEC_CACHE = Mine
         /\ disk'[xfer.sector] = [disk[xfer.sector] EXCEPT ![dev.word] = cache[Mine].content[dev.word]]
         /\ \A t \in Sectors : t # xfer.sector => disk'[t] = disk[t]
         /\ disk' \in [Sectors -> SectorData]
         /\ dev'.word = dev.word + 1 /\ dev'.sector = dev.sector /\ dev.sector = xfer.sector
  <1>1. pc = "out" /\ dev.word < SectorWords /\ SectorWords \in Nat
    BY IdeAssumption DEF OutLong, At, IInv, CountInv
  <1>2. /\ Mine \in Lines /\ cache[Mine] \in CacheLine /\ disk \in [Sectors -> SectorData]
        /\ xfer.sector \in Sectors /\ dev.word \in Nat
    BY <1>1, TypesOfRequest DEF Devices
  <1>3. dev.word \in Words
    BY <1>1, <1>2 DEF Words
  <1>4. /\ cache[Mine].used /\ cache[Mine].dirty /\ xfer.sector = cache[Mine].sector
        /\ dev.sector = xfer.sector
    BY <1>1 DEF DataInv, TransferInv, Writing
  <1>5. xfer.sector % NR_SEC_CACHE = Mine /\ Written # {}
    BY <1>1, <1>2, <1>4 DEF DataInv, LinesInv
  <1>6. Writable = TRUE
    BY <1>5 DEF Kept
  <1>7. cache[Mine].content[dev.word] \in Data
    BY <1>2, <1>3 DEF CacheLine, SectorData
  <1>8. disk' = Stored(xfer.sector, dev.word, cache[Mine].content[dev.word])
    BY <1>4, <1>5 DEF OutLong, Line
  <1>9. /\ disk'[xfer.sector] = [disk[xfer.sector] EXCEPT ![dev.word] = cache[Mine].content[dev.word]]
        /\ \A t \in Sectors : t # xfer.sector => disk'[t] = disk[t]
        /\ disk' \in [Sectors -> SectorData]
    BY <1>2, <1>3, <1>6, <1>7, <1>8, StoredFacts
  <1>10. dev'.word = dev.word + 1 /\ dev'.sector = dev.sector
    BY AdvanceFacts DEF OutLong, IInv
  <1> QED
    BY <1>1, <1>2, <1>3, <1>4, <1>5, <1>9, <1>10

(* The words before dev.word are those of the other; so is the next, and   *)
(* after the last one the whole sector is.                                 *)
LEMMA CopyFacts ==
  ASSUME NEW a \in SectorData, NEW b \in SectorData, NEW n \in Nat, n < SectorWords,
         \A w \in Words : w < n => a[w] = b[w]
  PROVE  /\ \A w \in Words : w < n + 1 => [a EXCEPT ![n] = b[n]][w] = b[w]
         /\ n + 1 = SectorWords => [a EXCEPT ![n] = b[n]] = b
  <1> DEFINE c == [a EXCEPT ![n] = b[n]]
  <1>1. SectorWords \in Nat /\ Words = 0 .. SectorWords - 1 /\ n \in Words
    BY IdeAssumption DEF Words
  <1>2. c \in SectorData /\ \A w \in Words : c[w] = IF w = n THEN b[n] ELSE a[w]
    BY <1>1 DEF SectorData
  <1> HIDE DEF c
  <1>3. \A w \in Words : w < n + 1 => w < n \/ w = n
    BY <1>1
  <1>4. \A w \in Words : w < n + 1 => c[w] = b[w]
    BY <1>2, <1>3
  <1>5. ASSUME n + 1 = SectorWords PROVE c = b
    <2>1. \A w \in Words : w < n + 1
      BY <1>1, <1>5
    <2> QED
      BY <1>2, <1>4, <2>1 DEF SectorData
  <1> QED
    BY <1>4, <1>5 DEF c

LEMMA OutLongKeepsDataInv ==
  ASSUME Kept, IInv, DataInv, OutLong
  PROVE  DataInv'
  <1> USE DEF kernel, device, caller
  <1>a. LinesInv /\ TransferInv /\ FilledInv /\ SavedInv
    BY DEF DataInv
  <1>b. /\ pc = "out" /\ dev.word \in Words /\ dev.word \in Nat
        /\ Mine \in Lines /\ cache[Mine] \in CacheLine
        /\ cache[Mine].used /\ cache[Mine].dirty
        /\ xfer.sector = cache[Mine].sector /\ xfer.sector \in Sectors
        /\ xfer.sector % NR_SEC_CACHE = Mine
        /\ disk'[xfer.sector] = [disk[xfer.sector] EXCEPT ![dev.word] = cache[Mine].content[dev.word]]
        /\ \A t \in Sectors : t # xfer.sector => disk'[t] = disk[t]
        /\ disk' \in [Sectors -> SectorData]
        /\ dev'.word = dev.word + 1 /\ dev'.sector = dev.sector /\ dev.sector = xfer.sector
    BY OutLongFacts
  <1>c. /\ cache \in [Lines -> CacheLine] /\ disk \in [Sectors -> SectorData] /\ dev.word < SectorWords
    BY <1>b, TypesOfRequest DEF IInv, CountInv
  <1>d. cache' = cache /\ Mine' = Mine /\ req' = req
    BY DEF OutLong, Mine
  <1>1. \A w \in Words : w < dev.word => disk[xfer.sector][w] = cache[Mine].content[w]
    BY <1>a, <1>b DEF TransferInv
  <1>2. /\ \A w \in Words : w < dev.word + 1 => disk'[xfer.sector][w] = cache[Mine].content[w]
        /\ dev.word + 1 = SectorWords => disk'[xfer.sector] = cache[Mine].content
    <2>1. disk[xfer.sector] \in SectorData /\ cache[Mine].content \in SectorData
      BY <1>b, <1>c DEF CacheLine
    <2>2. PICK a \in SectorData, b \in SectorData, n \in Nat :
            a = disk[xfer.sector] /\ b = cache[Mine].content /\ n = dev.word
      BY <1>b, <2>1
    <2>3. disk'[xfer.sector] = [a EXCEPT ![n] = b[n]]
      BY <1>b, <2>2
    <2>5. n < SectorWords /\ \A w \in Words : w < n => a[w] = b[w]
      BY <1>1, <1>c, <2>2
    <2>4. /\ \A w \in Words : w < n + 1 => [a EXCEPT ![n] = b[n]][w] = b[w]
          /\ n + 1 = SectorWords => [a EXCEPT ![n] = b[n]] = b
      BY <2>5, CopyFacts
    <2> QED
      BY <2>2, <2>3, <2>4
  <1>3. LinesInv'
    BY <1>a, <1>b, <1>d DEF OutLong, LinesInv
  <1>4. \A l \in Lines : l # Mine /\ cache[l].used => disk'[cache[l].sector] = disk[cache[l].sector]
    <2> SUFFICES ASSUME NEW l \in Lines, l # Mine, cache[l].used
                 PROVE  disk'[cache[l].sector] = disk[cache[l].sector]
      OBVIOUS
    <2>1. cache[l].sector % NR_SEC_CACHE = l /\ cache[l].sector \in Sectors
      BY <1>a, <1>b, <1>c DEF LinesInv, CacheLine
    <2> QED
      BY <1>b, <2>1
  <1>5. CASE dev.word + 1 = SectorWords
    <2>1. pc' = "clear" /\ xfer' = [cmd |-> READ, sector |-> req.sector]
      BY <1>5 DEF OutLong
    <2>2. TransferInv' /\ FilledInv'
      BY <1>d, <2>1 DEF TransferInv, FilledInv, Reading, Writing, Prepares
    <2>3. SavedInv'
      BY <1>a, <1>b, <1>d, <1>2, <1>4, <1>5, <2>1 DEF SavedInv, Reading, Prepares, Replaced
    <2> QED
      BY <1>3, <2>2, <2>3 DEF DataInv
  <1>6. CASE dev.word + 1 # SectorWords
    <2>1. pc' = "out" /\ xfer' = xfer
      BY <1>6, <1>b DEF OutLong
    <2>7. dev'.word = dev.word + 1 /\ dev'.sector = xfer.sector /\ cache'[Mine'] = cache[Mine]
      BY <1>b, <1>d
    <2>5. \A w \in Words : w < dev'.word => disk'[dev'.sector][w] = cache'[Mine'].content[w]
      BY <1>2, <2>7
    <2>6. xfer.cmd = WRITE
      BY <1>a, <1>b DEF TransferInv, Writing
    <2>2. TransferInv'
      BY <1>b, <1>d, <2>1, <2>5, <2>6 DEF TransferInv, Reading, Writing, Prepares
    <2>4. FilledInv'
      BY <2>1 DEF FilledInv
    <2>3. SavedInv'
      BY <1>a, <1>b, <1>d, <1>4, <2>1 DEF SavedInv, Reading, Prepares, Replaced
    <2> QED
      BY <1>3, <2>2, <2>3, <2>4 DEF DataInv
  <1> QED
    BY <1>5, <1>6

(* A word of the sector asked for comes into the line.                     *)
LEMMA InLongFacts ==
  ASSUME IInv, DataInv, InLong
  PROVE  /\ pc = "in" /\ dev.word \in Nat /\ dev.word < SectorWords
         /\ Mine \in Lines /\ dev.sector = req.sector
         /\ cache' \in [Lines -> CacheLine]
         /\ \A l \in Lines : l # Mine => cache'[l] = cache[l]
         /\ cache'[Mine].used = cache[Mine].used /\ cache'[Mine].dirty = cache[Mine].dirty
         /\ cache'[Mine].sector = cache[Mine].sector
         /\ cache'[Mine].content =
              [cache[Mine].content EXCEPT ![dev.word] = disk[dev.sector][dev.word]]
         /\ dev'.word = dev.word + 1 /\ dev'.sector = dev.sector
         /\ dev'.ide_write = dev.ide_write
  <1>1. pc = "in" /\ dev.word < SectorWords /\ SectorWords \in Nat /\ ~dev.ide_write
    BY IdeAssumption DEF InLong, At, IInv, CountInv
  <1>2. /\ Mine \in Lines /\ cache[Mine] \in CacheLine /\ disk \in [Sectors -> SectorData]
        /\ cache \in [Lines -> CacheLine] /\ req.sector \in Sectors
        /\ dev.sector \in Sectors /\ dev.word \in Nat /\ Line(req.sector) = cache[Mine]
    BY <1>1, TypesOfRequest DEF Devices
  <1>3. dev.word \in Words /\ dev.sector = req.sector
    BY <1>1, <1>2 DEF Words, DataInv, TransferInv, Reading
  <1> DEFINE c == [cache[Mine].content EXCEPT ![dev.word] = disk[dev.sector][dev.word]]
  <1>4. cache[Mine].content \in SectorData /\ disk[dev.sector][dev.word] \in Data
    BY <1>2, <1>3 DEF CacheLine, SectorData
  <1>5. c \in SectorData
    BY <1>3, <1>4, ContentFacts
  <1>6. SetLine(req.sector, "content", c)
    BY <1>2, Zenon DEF InLong
  <1> HIDE DEF c
  <1>7. /\ cache' \in [Lines -> CacheLine]
        /\ \A l \in Lines : l # Mine => cache'[l] = cache[l]
        /\ cache'[Mine].used = cache[Mine].used /\ cache'[Mine].dirty = cache[Mine].dirty
        /\ cache'[Mine].sector = cache[Mine].sector /\ cache'[Mine].content = c
    BY <1>2, <1>5, <1>6, SetLineFacts DEF Mine
  <1>8. dev'.word = dev.word + 1 /\ dev'.sector = dev.sector /\ dev'.ide_write = dev.ide_write
    BY AdvanceFacts DEF InLong, IInv
  <1> QED
    BY <1>1, <1>2, <1>3, <1>7, <1>8 DEF c

LEMMA InLongKeepsDataInv ==
  ASSUME IInv, DataInv, InLong
  PROVE  DataInv'
  <1> USE DEF kernel, device, caller
  <1>a. LinesInv /\ TransferInv /\ FilledInv /\ SavedInv
    BY DEF DataInv
  <1>b. /\ pc = "in" /\ dev.word \in Nat /\ dev.word < SectorWords
        /\ Mine \in Lines /\ dev.sector = req.sector
        /\ \A l \in Lines : l # Mine => cache'[l] = cache[l]
        /\ cache'[Mine].used = cache[Mine].used /\ cache'[Mine].dirty = cache[Mine].dirty
        /\ cache'[Mine].sector = cache[Mine].sector
        /\ cache'[Mine].content =
             [cache[Mine].content EXCEPT ![dev.word] = disk[dev.sector][dev.word]]
        /\ dev'.word = dev.word + 1 /\ dev'.sector = dev.sector
        /\ dev'.ide_write = dev.ide_write
    BY InLongFacts
  <1>c. cache[Mine].content \in SectorData /\ disk[dev.sector] \in SectorData
    BY <1>b, TypesOfRequest DEF CacheLine
  <1>d. disk' = disk /\ Mine' = Mine /\ req' = req /\ xfer' = xfer
        /\ pc' = IF dev.word + 1 = SectorWords THEN "used" ELSE "in"
    BY DEF InLong, Mine
  <1>1. \A w \in Words : w < dev.word => cache[Mine].content[w] = disk[dev.sector][w]
    BY <1>a, <1>b DEF TransferInv
  <1>2. /\ \A w \in Words : w < dev.word + 1 => cache'[Mine].content[w] = disk[dev.sector][w]
        /\ dev.word + 1 = SectorWords => cache'[Mine].content = disk[dev.sector]
    BY <1>1, <1>b, <1>c, CopyFacts
  <1>3. LinesInv'
    BY <1>a, <1>b, <1>d DEF LinesInv
  <1>4. SavedInv'
    BY <1>a, <1>b, <1>d DEF SavedInv, Replaced, Reading, Prepares
  <1>5. TransferInv'
    BY <1>a, <1>b, <1>d, <1>2 DEF TransferInv, Reading, Writing, Prepares
  <1>6. FilledInv'
    BY <1>a, <1>b, <1>d, <1>2 DEF FilledInv
  <1> QED
    BY <1>3, <1>4, <1>5, <1>6 DEF DataInv
(* The stores into the line of the request, one field at a time.           *)
LEMMA StoreFacts ==
  ASSUME IInv, SetUsed \/ SetTag \/ SetClean \/ WriteByte \/ MarkDirty
  PROVE  /\ Mine \in Lines /\ cache[Mine] \in CacheLine /\ req \in Requests
         /\ \A l \in Lines : l # Mine => cache'[l] = cache[l]
         /\ cache'[Mine].used = IF SetUsed THEN TRUE ELSE cache[Mine].used
         /\ cache'[Mine].dirty = IF SetClean THEN FALSE
                                 ELSE IF MarkDirty THEN TRUE ELSE cache[Mine].dirty
         /\ cache'[Mine].sector = IF SetTag THEN req.sector ELSE cache[Mine].sector
         /\ cache'[Mine].content =
              IF WriteByte THEN [cache[Mine].content EXCEPT ![req.word] = req.data]
                           ELSE cache[Mine].content
  <1>1. /\ Mine \in Lines /\ cache[Mine] \in CacheLine /\ req \in Requests
        /\ cache \in [Lines -> CacheLine] /\ req.sector \in Sectors
        /\ Line(req.sector) = cache[Mine]
    BY TypesOfRequest DEF SetUsed, SetTag, SetClean, WriteByte, MarkDirty, At
  <1>2. /\ SetUsed => pc = "used" /\ SetLine(req.sector, "used", TRUE)
        /\ SetTag => pc = "tag" /\ SetLine(req.sector, "sector", req.sector)
        /\ SetClean => pc = "clean" /\ SetLine(req.sector, "dirty", FALSE)
        /\ MarkDirty => pc = "mark" /\ SetLine(req.sector, "dirty", TRUE)
        /\ WriteByte => /\ pc = "access" /\ req.op = "write"
                        /\ SetLine(req.sector, "content", [Line(req.sector).content EXCEPT ![req.word] = req.data])
    BY DEF SetUsed, SetTag, SetClean, WriteByte, MarkDirty, At
  <1>3. CASE SetUsed
    BY <1>1, <1>2, <1>3, SetLineFacts DEF Mine
  <1>4. CASE SetTag
    <2>1. SetLine(req.sector, "sector", req.sector) /\ ~SetUsed /\ ~SetClean /\ ~MarkDirty /\ ~WriteByte
      BY <1>2, <1>4
    <2>2. /\ \A l \in Lines : l # Mine => cache'[l] = cache[l]
          /\ cache'[Mine].used = cache[Mine].used /\ cache'[Mine].dirty = cache[Mine].dirty
          /\ cache'[Mine].sector = req.sector /\ cache'[Mine].content = cache[Mine].content
      BY <1>1, <2>1, SetLineFacts DEF Mine
    <2> QED
      BY <1>1, <1>4, <2>1, <2>2, SMTT(60)
  <1>5. CASE SetClean
    BY <1>1, <1>2, <1>5, SetLineFacts DEF Mine
  <1>6. CASE MarkDirty
    BY <1>1, <1>2, <1>6, SetLineFacts DEF Mine
  <1>7. CASE WriteByte
    <2>1. req.word \in Words /\ req.data \in Data /\ cache[Mine].content \in SectorData
      BY <1>1, <1>2, <1>7, RequestFacts DEF CacheLine
    <2>2. [cache[Mine].content EXCEPT ![req.word] = req.data] \in SectorData
      BY <2>1, ContentFacts
    <2> QED
      BY <1>1, <1>2, <1>7, <2>2, SetLineFacts DEF Mine
  <1> QED
    BY <1>3, <1>4, <1>5, <1>6, <1>7

LEMMA StoreKeepsDataInv ==
  ASSUME IInv, DataInv, SetUsed \/ SetTag \/ SetClean \/ WriteByte \/ MarkDirty
  PROVE  DataInv'
  <1> USE DEF kernel, device, caller
  <1>a. LinesInv /\ TransferInv /\ FilledInv /\ SavedInv
    BY DEF DataInv
  <1>b. /\ Mine \in Lines /\ cache[Mine] \in CacheLine /\ req \in Requests
        /\ \A l \in Lines : l # Mine => cache'[l] = cache[l]
        /\ cache'[Mine].used = IF SetUsed THEN TRUE ELSE cache[Mine].used
        /\ cache'[Mine].dirty = IF SetClean THEN FALSE
                                ELSE IF MarkDirty THEN TRUE ELSE cache[Mine].dirty
        /\ cache'[Mine].sector = IF SetTag THEN req.sector ELSE cache[Mine].sector
        /\ cache'[Mine].content =
             IF WriteByte THEN [cache[Mine].content EXCEPT ![req.word] = req.data]
                          ELSE cache[Mine].content
    BY StoreFacts
  <1>c. Mine = req.sector % NR_SEC_CACHE
    BY DEF Mine
  <1>d. disk' = disk /\ (~MarkDirty => Mine' = Mine /\ req' = req)
    BY DEF SetUsed, SetTag, SetClean, WriteByte, MarkDirty, Mine
  <1>1. CASE SetUsed
    <2>1. pc = "used" /\ pc' = "tag" /\ ~SetTag /\ ~SetClean /\ ~WriteByte /\ ~MarkDirty
      BY <1>1 DEF SetUsed, SetTag, SetClean, WriteByte, MarkDirty, At
    <2>2. /\ cache'[Mine].used = TRUE /\ cache'[Mine].dirty = cache[Mine].dirty
          /\ cache'[Mine].sector = cache[Mine].sector
          /\ cache'[Mine].content = cache[Mine].content
          /\ Mine' = Mine /\ req' = req
      BY <1>1, <1>b, <1>d, <2>1
    <2>3. LinesInv'
      BY <1>a, <1>b, <2>1, <2>2 DEF LinesInv
    <2>4. TransferInv' /\ FilledInv'
      BY <1>a, <1>d, <2>1, <2>2 DEF TransferInv, FilledInv, Reading, Writing, Prepares
    <2>5. SavedInv'
      BY <1>a, <1>b, <1>d, <2>1, <2>2 DEF SavedInv, Reading, Prepares, Replaced
    <2> QED
      BY <2>3, <2>4, <2>5 DEF DataInv
  <1>2. CASE SetTag
    <2>1. pc = "tag" /\ pc' = "clean" /\ ~SetUsed /\ ~SetClean /\ ~WriteByte /\ ~MarkDirty
      BY <1>2 DEF SetUsed, SetTag, SetClean, WriteByte, MarkDirty, At
    <2>2. /\ cache'[Mine].used = cache[Mine].used /\ cache'[Mine].dirty = cache[Mine].dirty
          /\ cache'[Mine].sector = req.sector
          /\ cache'[Mine].content = cache[Mine].content
          /\ Mine' = Mine /\ req' = req
      BY <1>2, <1>b, <1>d, <2>1
    <2>3. LinesInv'
      BY <1>a, <1>b, <1>c, <2>1, <2>2 DEF LinesInv
    <2>4. TransferInv' /\ FilledInv'
      BY <1>a, <1>d, <2>1, <2>2 DEF TransferInv, FilledInv, Reading, Writing, Prepares
    <2>5. SavedInv'
      BY <1>a, <1>b, <1>d, <2>1, <2>2 DEF SavedInv, Reading, Prepares, Replaced
    <2> QED
      BY <2>3, <2>4, <2>5 DEF DataInv
  <1>3. CASE SetClean
    <2>1. pc = "clean" /\ pc' = "access" /\ ~SetUsed /\ ~SetTag /\ ~WriteByte /\ ~MarkDirty
      BY <1>3 DEF SetUsed, SetTag, SetClean, WriteByte, MarkDirty, At
    <2>2. /\ cache'[Mine].used = cache[Mine].used /\ cache'[Mine].dirty = FALSE
          /\ cache'[Mine].sector = cache[Mine].sector
          /\ cache'[Mine].content = cache[Mine].content
          /\ Mine' = Mine /\ req' = req
      BY <1>3, <1>b, <1>d, <2>1
    <2>3. LinesInv'
      BY <1>a, <1>b, <2>1, <2>2 DEF LinesInv
    <2>4. TransferInv' /\ FilledInv'
      BY <1>a, <1>d, <2>1, <2>2 DEF TransferInv, FilledInv, Reading, Writing, Prepares
    <2>5. SavedInv'
      BY <1>a, <1>b, <1>d, <2>1, <2>2 DEF SavedInv, FilledInv, Reading, Prepares, Replaced
    <2> QED
      BY <2>3, <2>4, <2>5 DEF DataInv
  <1>4. CASE WriteByte
    <2>1. /\ pc = "access" /\ pc' = "mark" /\ req.op = "write"
          /\ ~SetUsed /\ ~SetTag /\ ~SetClean /\ ~MarkDirty
      BY <1>4 DEF SetUsed, SetTag, SetClean, WriteByte, MarkDirty, At
    <2>2. /\ cache'[Mine].used = cache[Mine].used /\ cache'[Mine].dirty = cache[Mine].dirty
          /\ cache'[Mine].sector = cache[Mine].sector
          /\ Mine' = Mine /\ req' = req
      BY <1>4, <1>b, <1>d, <2>1
    <2>3. LinesInv'
      BY <1>a, <1>b, <2>1, <2>2 DEF LinesInv
    <2>4. TransferInv' /\ FilledInv'
      BY <1>a, <1>d, <2>1, <2>2 DEF TransferInv, FilledInv, Reading, Writing, Prepares
    <2>5. SavedInv'
      BY <1>a, <1>b, <1>d, <2>1, <2>2 DEF SavedInv, Reading, Prepares, Replaced
    <2> QED
      BY <2>3, <2>4, <2>5 DEF DataInv
  <1>5. CASE MarkDirty
    <2>1. pc = "mark" /\ pc' = "idle" /\ ~SetUsed /\ ~SetTag /\ ~SetClean /\ ~WriteByte
      BY <1>5 DEF SetUsed, SetTag, SetClean, WriteByte, MarkDirty, At
    <2>2. /\ cache'[Mine].used = cache[Mine].used /\ cache'[Mine].dirty = TRUE
          /\ cache'[Mine].sector = cache[Mine].sector
      BY <1>5, <1>b, <2>1
    <2>3. Written # {}
      BY <1>a, <1>b, <2>1, RequestFacts DEF FilledInv
    <2>4. LinesInv'
      BY <1>a, <1>b, <2>1, <2>2, <2>3 DEF LinesInv, FilledInv
    <2>5. TransferInv' /\ FilledInv'
      BY <2>1 DEF TransferInv, FilledInv, Reading, Writing, Prepares
    <2>6. SavedInv'
      BY <1>a, <1>b, <1>d, <2>1, <2>2 DEF SavedInv, Reading, Prepares, Replaced
    <2> QED
      BY <2>4, <2>5, <2>6 DEF DataInv
  <1> QED
    BY <1>1, <1>2, <1>3, <1>4, <1>5

(* A write-back between transfers: every dirty line goes to its sector.    *)
LEMMA QuietWriteBack ==
  ASSUME Kept, IInv, DataInv, TimerIntr, Quiet, ~ UNCHANGED <<cache, device, pc>>
  PROVE  /\ pc \in {"idle", "fetch", "access", "mark"} /\ pc' = pc
         /\ \A l \in Lines : /\ cache'[l].dirty = FALSE
                             /\ cache'[l].used = cache[l].used
                             /\ cache'[l].sector = cache[l].sector
                             /\ cache'[l].content = cache[l].content
         /\ \A t \in Sectors :
              disk'[t] = IF \E l \in DirtyLines : cache[l].sector = t
                           THEN cache[t % NR_SEC_CACHE].content ELSE disk[t]
         /\ \A l \in DirtyLines : l \in Lines /\ cache[l].used /\ cache[l].sector % NR_SEC_CACHE = l
  <1>1. counter' = 0 /\ DirtyLines # {} /\ WriteBack
    BY DEF TimerIntr
  <1>2. slot = TIMER_IRQ + IRQ_BASE /\ slot' # slot
    BY SlotFacts DEF TimerIntr
  <1>3. pc \in {"idle", "fetch", "access", "mark"}
    BY <1>1, <1>2 DEF Quiet, WritesBack
  <1>4. port.status = READY
    BY <1>3 DEF IInv, CountInv
  <1>5. \A l \in DirtyLines : /\ l \in Lines /\ cache[l].used /\ Written # {}
                              /\ cache[l].sector % NR_SEC_CACHE = l
    BY <1>3 DEF DirtyLines, DataInv, LinesInv
  <1>6. Writable = TRUE
    BY <1>1, <1>5 DEF Kept
  <1>7. TypeOK
    BY DEF IInv
  <1> QED
    BY <1>1, <1>3, <1>4, <1>5, <1>6, <1>7, WriteBackFacts

LEMMA HandlersKeepDataInv ==
  ASSUME Kept, IInv, DataInv, TimerIntr \/ IdeIntr, Quiet
  PROVE  DataInv'
  <1> USE DEF kernel, device, caller
  <1>a. LinesInv /\ TransferInv /\ FilledInv /\ SavedInv
    BY DEF DataInv
  <1>1. CASE UNCHANGED <<cache, device, caller>>
    BY <1>1, <1>a DEF DataInv, LinesInv, TransferInv, FilledInv, SavedInv,
                      Reading, Writing, Prepares, Replaced, Mine
  <1>2. CASE TimerIntr /\ ~ UNCHANGED <<cache, device, pc>>
    <2>1. /\ pc \in {"idle", "fetch", "access", "mark"} /\ pc' = pc
          /\ \A l \in Lines : /\ cache'[l].dirty = FALSE
                              /\ cache'[l].used = cache[l].used
                              /\ cache'[l].sector = cache[l].sector
                              /\ cache'[l].content = cache[l].content
          /\ \A t \in Sectors :
               disk'[t] = IF \E l \in DirtyLines : cache[l].sector = t
                            THEN cache[t % NR_SEC_CACHE].content ELSE disk[t]
      BY <1>2, QuietWriteBack
    <2>2. Mine' = Mine /\ req' = req
      BY <1>2 DEF TimerIntr, Mine
    <2>3. LinesInv'
      BY <1>a, <2>1, <2>2 DEF LinesInv
    <2>4. FilledInv'
      <3>1. pc # "idle" => Mine \in Lines
        BY TypesOfRequest
      <3> QED
        BY <1>a, <2>1, <2>2, <3>1 DEF FilledInv
    <2>5. TransferInv'
      BY <2>1 DEF TransferInv, Reading, Writing, Prepares
    <2>6. SavedInv'
      <3> SUFFICES ASSUME NEW l \in Lines, cache[l].used, ~Replaced(l)
                   PROVE  cache[l].content = disk'[cache[l].sector]
        BY <2>1, <2>2 DEF SavedInv, Replaced
      <3>1. cache[l].sector \in Sectors /\ cache[l].sector % NR_SEC_CACHE = l
        BY <1>a, <2>1, TypesOfRequest DEF LinesInv, CacheLine
      <3>2. CASE \E k \in DirtyLines : cache[k].sector = cache[l].sector
        BY <2>1, <3>1, <3>2
      <3>3. CASE ~ \E k \in DirtyLines : cache[k].sector = cache[l].sector
        <4>1. disk'[cache[l].sector] = disk[cache[l].sector]
          BY <2>1, <3>1, <3>3
        <4>2. ~ cache[l].dirty
          BY <3>3 DEF DirtyLines
        <4> QED
          BY <1>a, <4>1, <4>2 DEF SavedInv
      <3> QED
        BY <3>2, <3>3
    <2> QED
      BY <2>3, <2>4, <2>5, <2>6 DEF DataInv
  <1>3. TimerIntr => UNCHANGED <<req, xfer, ret>>
    BY DEF TimerIntr
  <1>4. IdeIntr => UNCHANGED <<cache, device, caller>>
    BY DEF IdeIntr
  <1> QED
    BY <1>1, <1>2, <1>3, <1>4

LEMMA NextDataInv ==
  ASSUME Kept, IInv, DataInv, [Next]_vars, [Quiet]_vars
  PROVE  DataInv'
  <1> USE DEF kernel, device, caller
  <1>a. LinesInv /\ TransferInv /\ FilledInv /\ SavedInv
    BY DEF DataInv
  <1>1. CASE UNCHANGED vars \/ Tick
    BY <1>1, <1>a DEF vars, Tick, DataInv, LinesInv, TransferInv, FilledInv, SavedInv,
                      Reading, Writing, Prepares, Replaced, Mine
  <1>2. CASE \/ \E r \in Requests : Call(r)
             \/ Hit \/ Miss \/ ClearIdeIntr \/ WaitDisk \/ SetLow \/ SetHigh \/ Issue
             \/ WaitIdeIntr \/ ReadByte
    <2>1. UNCHANGED <<cache, disk>>
      BY <1>2 DEF Call, Hit, Miss, ClearIdeIntr, WaitDisk, SetLow, SetHigh, Issue, WaitIdeIntr, ReadByte
    <2> QED
      BY <1>2, <2>1, StepKeepsLines
  <1>3. CASE OutLong
    BY <1>3, OutLongKeepsDataInv
  <1>4. CASE InLong
    BY <1>4, InLongKeepsDataInv
  <1>5. CASE AbortInLong
    BY <1>5, <1>a DEF AbortInLong, At, TransferInv
  <1>6. CASE SetUsed \/ SetTag \/ SetClean \/ WriteByte \/ MarkDirty
    BY <1>6, StoreKeepsDataInv
  <1>7. CASE TimerIntr \/ IdeIntr
    <2>1. slot' # slot
      BY <1>7, SlotFacts DEF TimerIntr, IdeIntr
    <2>2. Quiet
      BY <2>1 DEF vars
    <2> QED
      BY <1>7, <2>2, HandlersKeepDataInv
  <1> QED
    BY <1>1, <1>2, <1>3, <1>4, <1>5, <1>6, <1>7
       DEF Next, Serve, Fetch, Transfer, Fill, Access, Handlers

-----------------------------------------------------------------------------
(* The driver is a disk. *)

Store0 == [s \in Sectors |-> Contents(s)]

LEMMA InitStore == Init => Store!Init
  <1> SUFFICES ASSUME Init PROVE Store!Init
    OBVIOUS
  <1>1. \A s \in Sectors : Contents(s) = Image[s]
    BY LineFacts DEF Init, Contents, Line
  <1>2. Store0 = Image
    BY <1>1, IdeAssumption DEF Store0
  <1> QED
    BY <1>2, IdeAssumption DEF Init, Store!Init, Store0

(* A sector is where its line is, or on the disk.                          *)
LEMMA ContentsOf ==
  ASSUME NEW s \in Sectors
  PROVE  Contents(s) = IF /\ cache[s % NR_SEC_CACHE].used
                          /\ cache[s % NR_SEC_CACHE].sector = s
                          /\ ~ (/\ pc \in {"in", "used", "tag", "clean", "abort"}
                                /\ s % NR_SEC_CACHE = Mine)
                         THEN cache[s % NR_SEC_CACHE].content ELSE disk[s]
  BY DEF Contents, Filling, Line, Mine

LEMMA ContentsOfNext ==
  ASSUME NEW s \in Sectors
  PROVE  Contents(s)' = IF /\ cache'[s % NR_SEC_CACHE].used
                           /\ cache'[s % NR_SEC_CACHE].sector = s
                           /\ ~ (/\ pc' \in {"in", "used", "tag", "clean", "abort"}
                                 /\ s % NR_SEC_CACHE = Mine')
                          THEN cache'[s % NR_SEC_CACHE].content ELSE disk'[s]
  BY DEF Contents, Filling, Line, Mine

(* No step but the store of write_byte changes what a sector holds.        *)
LEMMA StepKeepsContents ==
  ASSUME Kept, IInv, DataInv, [Next]_vars, [Quiet]_vars, ~WriteByte, NEW s \in Sectors
  PROVE  Contents(s)' = Contents(s)
  <1> USE DEF kernel, device, caller
  <1>a. LinesInv /\ TransferInv /\ FilledInv /\ SavedInv
    BY DEF DataInv
  <1> DEFINE k == s % NR_SEC_CACHE
  <1>b. k \in Lines
    BY LineFacts
  <1> HIDE DEF k
  <1>c. Contents(s) = IF /\ cache[k].used /\ cache[k].sector = s
                         /\ ~ (pc \in {"in", "used", "tag", "clean", "abort"} /\ k = Mine)
                        THEN cache[k].content ELSE disk[s]
    BY ContentsOf, Zenon DEF k
  <1>d. Contents(s)' = IF /\ cache'[k].used /\ cache'[k].sector = s
                          /\ ~ (pc' \in {"in", "used", "tag", "clean", "abort"} /\ k = Mine')
                         THEN cache'[k].content ELSE disk'[s]
    BY ContentsOfNext, Zenon DEF k
  <1>1. CASE UNCHANGED vars \/ Tick \/ IdeIntr
    BY <1>1, <1>c, <1>d DEF vars, Tick, IdeIntr, Mine
  <1>2. CASE \/ \E r \in Requests : Call(r)
             \/ Hit \/ Miss \/ ClearIdeIntr \/ WaitDisk \/ SetLow \/ SetHigh \/ Issue \/ ReadByte
    <2>1. /\ UNCHANGED <<cache, disk>>
          /\ pc \notin {"in", "used", "tag", "clean", "abort"}
          /\ pc' \notin {"in", "used", "tag", "clean", "abort"}
      BY <1>2 DEF Call, Hit, Miss, ClearIdeIntr, WaitDisk, SetLow, SetHigh, Issue, ReadByte, At
    <2> QED
      BY <1>c, <1>d, <2>1
  <1>3. CASE WaitIdeIntr
    <2>1. pc = "intr" /\ pc' = "in" /\ Mine' = Mine /\ cache' = cache /\ disk' = disk
      BY <1>3 DEF WaitIdeIntr, At, Mine
    <2>2. cache[k].used /\ cache[k].sector = s /\ k = Mine => cache[k].content = disk[s]
      BY <1>a, <1>b, <2>1 DEF SavedInv, Reading, Replaced
    <2> QED
      BY <1>c, <1>d, <2>1, <2>2
  <1>4. CASE OutLong
    <2>1. /\ pc = "out" /\ Mine \in Lines /\ cache[Mine].used
          /\ xfer.sector = cache[Mine].sector /\ xfer.sector % NR_SEC_CACHE = Mine
          /\ \A t \in Sectors : t # xfer.sector => disk'[t] = disk[t]
      BY <1>4, OutLongFacts
    <2>2. cache' = cache /\ pc' \in {"out", "clear"}
      BY <1>4, <2>1 DEF OutLong
    <2>3. CASE s = xfer.sector
      BY <1>c, <1>d, <2>1, <2>2, <2>3 DEF k
    <2>4. CASE s # xfer.sector
      BY <1>c, <1>d, <2>1, <2>2, <2>4
    <2> QED
      BY <2>3, <2>4
  <1>5. CASE InLong
    <2>1. /\ pc = "in" /\ \A l \in Lines : l # Mine => cache'[l] = cache[l]
      BY <1>5, InLongFacts
    <2>2. disk' = disk /\ pc' \in {"in", "used"} /\ Mine' = Mine
      BY <1>5 DEF InLong, Mine
    <2> QED
      BY <1>b, <1>c, <1>d, <2>1, <2>2
  <1>6. CASE AbortInLong
    BY <1>6, <1>a DEF AbortInLong, At, TransferInv
  <1>7. CASE SetUsed \/ SetTag
    <2>1. \A l \in Lines : l # Mine => cache'[l] = cache[l]
      BY <1>7, StoreFacts
    <2>2. disk' = disk /\ pc \in {"used", "tag"} /\ pc' \in {"tag", "clean"} /\ Mine' = Mine
      BY <1>7 DEF SetUsed, SetTag, At, Mine
    <2> QED
      BY <1>b, <1>c, <1>d, <2>1, <2>2
  <1>8. CASE SetClean
    <2>1. disk' = disk /\ pc = "clean" /\ pc' = "access" /\ Mine' = Mine
      BY <1>8 DEF SetClean, At, Mine
    <2>2. /\ \A l \in Lines : l # Mine => cache'[l] = cache[l]
          /\ cache'[Mine].sector = cache[Mine].sector
          /\ cache'[Mine].content = cache[Mine].content
      BY <1>8, <2>1, StoreFacts DEF SetTag, WriteByte, At
    <2>3. cache[Mine].content = disk[req.sector] /\ cache[Mine].sector = req.sector
      BY <1>a, <2>1 DEF FilledInv
    <2>4. CASE k = Mine
      BY <1>c, <1>d, <2>1, <2>2, <2>3, <2>4
    <2>5. CASE k # Mine
      BY <1>b, <1>c, <1>d, <2>1, <2>2, <2>5
    <2> QED
      BY <2>4, <2>5
  <1>9. CASE MarkDirty
    <2>1. disk' = disk /\ pc = "mark" /\ pc' = "idle"
      BY <1>9 DEF MarkDirty, At
    <2>2. /\ Mine \in Lines /\ \A l \in Lines : l # Mine => cache'[l] = cache[l]
          /\ cache'[Mine].used = cache[Mine].used
          /\ cache'[Mine].sector = cache[Mine].sector
          /\ cache'[Mine].content = cache[Mine].content
      BY <1>9, <2>1, StoreFacts DEF SetUsed, SetTag, WriteByte, At
    <2>3. CASE k = Mine
      BY <1>c, <1>d, <2>1, <2>2, <2>3
    <2>4. CASE k # Mine
      BY <1>b, <1>c, <1>d, <2>1, <2>2, <2>4
    <2> QED
      BY <2>3, <2>4
  <1>10. CASE TimerIntr
    <2>1. CASE UNCHANGED <<cache, device, pc>>
      BY <1>10, <1>c, <1>d, <2>1 DEF TimerIntr, Mine
    <2>2. CASE ~ UNCHANGED <<cache, device, pc>>
      <3>1. Quiet
        BY <2>2 DEF vars
      <3>2. /\ pc \in {"idle", "fetch", "access", "mark"} /\ pc' = pc
            /\ cache'[k].used = cache[k].used
            /\ cache'[k].sector = cache[k].sector
            /\ cache'[k].content = cache[k].content
            /\ disk'[s] = IF \E l \in DirtyLines : cache[l].sector = s
                            THEN cache[k].content ELSE disk[s]
        BY <1>10, <1>b, <2>2, <3>1, QuietWriteBack DEF k
      <3>3. (\E l \in DirtyLines : cache[l].sector = s) => cache[k].used /\ cache[k].sector = s
        BY <1>10, <2>2, <3>1, QuietWriteBack DEF k
      <3> QED
        BY <1>c, <1>d, <3>2, <3>3
    <2> QED
      BY <2>1, <2>2
  <1> QED
    BY <1>1, <1>2, <1>3, <1>4, <1>5, <1>6, <1>7, <1>8, <1>9, <1>10
       DEF Next, Serve, Fetch, Transfer, Fill, Access, Handlers

LEMMA NextStore ==
  ASSUME Kept, IInv, DataInv, [Next]_vars, [Quiet]_vars
  PROVE  [Store!Next]_Store!vars
  <1> USE DEF kernel, device, caller
  <1>a. LinesInv /\ TransferInv /\ FilledInv /\ SavedInv
    BY DEF DataInv
  <1>b. ~WriteByte => Store0' = Store0
    BY StepKeepsContents DEF Store0
  <1>1. ASSUME NEW r \in Requests, Call(r) PROVE Store!Next
    <2>1. /\ pc = "idle" /\ pc' = "fetch" /\ req' = r /\ ret' = ret /\ req = NoReq
      BY <1>1 DEF Call, At, IInv, RequestInv
    <2>2. r \in Store!Requests
      BY IdeAssumption DEF Requests, Store!Requests
    <2>3. Store0' = Store0
      BY <1>b, <2>1 DEF WriteByte, At
    <2>4. Store!Call(r)
      BY <2>1, <2>3 DEF Store!Call, Store0
    <2> QED
      BY <2>2, <2>4 DEF Store!Next
  <1>2. CASE ReadByte
    <2>1. /\ pc = "access" /\ pc' = "idle" /\ req.op = "read" /\ req' = NoReq
          /\ ret' = cache[Mine].content[req.word]
          /\ req \in Requests /\ req # NoReq /\ req.sector \in Sectors
      BY <1>2, TypesOfRequest, RequestFacts DEF ReadByte, At
    <2>2. Contents(req.sector) = cache[Mine].content
      BY <1>a, <2>1, ContentsOf DEF FilledInv, Mine
    <2>3. Store0' = Store0 /\ Store0[req.sector] = Contents(req.sector)
      BY <1>b, <2>1 DEF WriteByte, At, Store0
    <2>4. Store!Read
      BY <2>1, <2>2, <2>3 DEF Store!Read, Store0
    <2> QED
      BY <2>4 DEF Store!Next
  <1>3. CASE WriteByte
    <2>1. /\ pc = "access" /\ pc' = "mark" /\ req.op = "write" /\ req' = req /\ ret' = ret
          /\ disk' = disk /\ Mine' = Mine
          /\ req \in Requests /\ req # NoReq /\ req.sector \in Sectors /\ req.word \in Words
      BY <1>3, TypesOfRequest, RequestFacts DEF WriteByte, At, Mine
    <2>2. /\ Mine \in Lines /\ \A l \in Lines : l # Mine => cache'[l] = cache[l]
          /\ cache'[Mine].used = cache[Mine].used
          /\ cache'[Mine].sector = cache[Mine].sector
          /\ cache'[Mine].content = [cache[Mine].content EXCEPT ![req.word] = req.data]
      BY <1>3, <2>1, StoreFacts DEF SetUsed, SetTag, At
    <2>3. cache[Mine].used /\ cache[Mine].sector = req.sector
      BY <1>a, <2>1 DEF FilledInv
    <2>4. Contents(req.sector) = cache[Mine].content
      BY <2>1, <2>3, ContentsOf DEF Mine
    <2>5. \A s \in Sectors : Contents(s)' =
            IF s = req.sector THEN [Contents(s) EXCEPT ![req.word] = req.data] ELSE Contents(s)
      <3> SUFFICES ASSUME NEW s \in Sectors
                   PROVE  Contents(s)' = IF s = req.sector
                            THEN [Contents(s) EXCEPT ![req.word] = req.data] ELSE Contents(s)
        OBVIOUS
      <3> DEFINE k == s % NR_SEC_CACHE
      <3>1. k \in Lines /\ (s = req.sector => k = Mine)
        BY LineFacts DEF Mine
      <3>2. Contents(s) = IF cache[k].used /\ cache[k].sector = s
                            THEN cache[k].content ELSE disk[s]
        BY <2>1, ContentsOf
      <3>3. Contents(s)' = IF cache'[k].used /\ cache'[k].sector = s
                             THEN cache'[k].content ELSE disk'[s]
        BY <2>1, ContentsOfNext
      <3> HIDE DEF k
      <3>4. CASE s = req.sector
        BY <2>2, <2>3, <2>4, <3>1, <3>3, <3>4
      <3>5. CASE s # req.sector /\ k = Mine
        BY <2>1, <2>2, <2>3, <3>2, <3>3, <3>5
      <3>6. CASE k # Mine
        BY <2>1, <2>2, <3>1, <3>2, <3>3, <3>6
      <3> QED
        BY <3>4, <3>5, <3>6
    <2>6. Store0' = [s \in Sectors |->
            IF s = req.sector THEN [Contents(s) EXCEPT ![req.word] = req.data] ELSE Contents(s)]
      BY <2>5 DEF Store0
    <2>7. Store0' = [Store0 EXCEPT ![req.sector] = [@ EXCEPT ![req.word] = req.data]]
      BY <2>1, <2>6 DEF Store0
    <2>8. Store!Write
      BY <2>1, <2>7 DEF Store!Write, Store0
    <2> QED
      BY <2>8 DEF Store!Next
  <1>4. CASE MarkDirty
    <2>1. pc = "mark" /\ pc' = "idle" /\ req' = NoReq /\ ret' = ret
      BY <1>4 DEF MarkDirty, At
    <2>2. Store0' = Store0
      BY <1>b, <2>1 DEF WriteByte, At
    <2> QED
      BY <2>1, <2>2 DEF Store!vars, Store0
  <1>5. ASSUME ~WriteByte, ~ReadByte, ~MarkDirty, ~ \E r \in Requests : Call(r)
        PROVE  UNCHANGED Store!vars
    <2>1. Store0' = Store0
      BY <1>5, <1>b
    <2>2. req' = req /\ ret' = ret /\ (pc' = "mark" <=> pc = "mark")
      <3>1. CASE UNCHANGED vars \/ Tick \/ IdeIntr
        BY <3>1 DEF vars, Tick, IdeIntr
      <3>2. CASE Fetch \/ Transfer \/ Fill
        BY <3>2 DEF Fetch, Transfer, Fill, Hit, Miss,
           ClearIdeIntr, WaitDisk, SetLow, SetHigh, Issue, OutLong, WaitIdeIntr, InLong,
           AbortInLong, SetUsed, SetTag, SetClean, At
      <3>3. CASE TimerIntr
        <4>1. pc' = pc
          <5>1. CASE ~ UNCHANGED <<cache, device, pc>>
            <6>1. Quiet
              BY <5>1 DEF vars
            <6> QED
              BY <3>3, <5>1, <6>1, QuietWriteBack
          <5> QED
            BY <5>1
        <4> QED
          BY <3>3, <4>1 DEF TimerIntr
      <3> QED
        BY <1>5, <3>1, <3>2, <3>3 DEF Next, Serve, Access, Handlers
    <2> QED
      BY <2>1, <2>2 DEF Store!vars, Store0
  <1> QED
    BY <1>1, <1>2, <1>3, <1>4, <1>5

-----------------------------------------------------------------------------
(* The theorems. *)

LEMMA DataInvariant ==
  ASSUME Kept
  PROVE  Spec /\ Undisturbed => [](IInv /\ DataInv)
  <1>1. Init => IInv /\ DataInv
    BY InitIInv, InitDataInv
  <1>2. IInv /\ DataInv /\ [Next]_vars /\ [Quiet]_vars => IInv' /\ DataInv'
    BY NextIInv, NextDataInv
  <1> QED
    BY <1>1, <1>2, PTL DEF Spec, Undisturbed

(* Between write-backs that leave transfers alone the driver is a disk: a  *)
(* read returns the word last written, from whichever of line and disk     *)
(* holds it at that moment, and nothing but a write changes what it holds. *)
THEOREM DriverIsADisk ==
  ASSUME Kept
  PROVE  Spec /\ Undisturbed => Store!Init /\ [][Store!Next]_Store!vars
  <1>1. Init => Store!Init
    BY InitStore
  <1>2. IInv /\ DataInv /\ [Next]_vars /\ [Quiet]_vars => [Store!Next]_Store!vars
    BY NextStore
  <1> QED
    BY <1>1, <1>2, DataInvariant, PTL DEF Spec, Undisturbed

(* Between them the device's assertion on ide_write holds, and the timer   *)
(* handler is never caught in waitdisk().                                  *)
THEOREM NeverStuck ==
  ASSUME Kept
  PROVE  Spec /\ Undisturbed => [](pc \notin {"spin", "abort"})
  <1>1. DataInv => pc \notin {"spin", "abort"}
    BY DEF DataInv, FilledInv
  <1> QED
    BY <1>1, DataInvariant, PTL

(* So it is as long as no write-back is due, and for any number of ticks   *)
(* if nobody writes: the handler then has nothing to write back.           *)
Spared == TickLimit < WritebackTicks \/ Written = {}

TickInv == slot = TIMER_IRQ + IRQ_BASE => counter < TickLimit

LEMMA TickInvHolds == Spec => [](IInv /\ TickInv)
  <1>1. Init => TickInv
    BY SlotFacts DEF Init, TickInv
  <1>2. ASSUME IInv, TickInv, [Next]_vars PROVE TickInv'
    <2> USE DEF kernel, device, caller
    <2>1. CASE UNCHANGED vars
      BY <1>2, <2>1 DEF vars, TickInv
    <2>2. CASE Tick
      BY <2>2 DEF Tick, TickInv
    <2>3. CASE TimerIntr \/ IdeIntr
      BY <2>3, SlotFacts DEF TimerIntr, IdeIntr, TickInv
    <2>4. CASE Issue
      <3>1. counter' = counter /\ slot = NO_INTR /\ slot' \in {Arbitrate(IDE_IRQ, slot), slot}
        BY <2>4 DEF Issue, At, Command
      <3>2. slot' # TIMER_IRQ + IRQ_BASE
        BY <3>1, SlotFacts DEF Arbitrate, NO_INTR
      <3> QED
        BY <3>2 DEF TickInv
    <2>5. CASE \/ \E r \in Requests : Call(r)
               \/ Fetch \/ Fill \/ Access \/ ClearIdeIntr \/ WaitDisk \/ SetLow \/ SetHigh
               \/ OutLong \/ WaitIdeIntr \/ InLong \/ AbortInLong
      <3>1. slot' = slot /\ counter' = counter
        BY <2>5 DEF Call, Fetch, Fill, Access, Hit, Miss, ClearIdeIntr, WaitDisk, SetLow, SetHigh,
           OutLong, WaitIdeIntr, InLong, AbortInLong, SetUsed, SetTag, SetClean, ReadByte,
           WriteByte, MarkDirty
      <3> QED
        BY <1>2, <3>1 DEF TickInv
    <2> QED
      BY <1>2, <2>1, <2>2, <2>3, <2>4, <2>5 DEF Next, Serve, Transfer, Handlers
  <1> QED
    BY <1>1, <1>2, IInvHolds, PTL DEF Spec

LEMMA SparedIsQuiet ==
  ASSUME Spared, IInv, DataInv, TickInv, [Next]_vars
  PROVE  [Quiet]_vars
  <1> SUFFICES ASSUME WritesBack PROVE FALSE
    BY DEF Quiet
  <1>1. counter' = 0 /\ DirtyLines # {} /\ slot = TIMER_IRQ + IRQ_BASE /\ slot' # slot
    BY DEF WritesBack
  <1>2. CASE Written = {}
    BY <1>1, <1>2 DEF DirtyLines, DataInv, LinesInv
  <1>3. CASE TickLimit < WritebackTicks
    <2>1. TimerIntr
      <3>1. ~Tick
        BY <1>1, SlotFacts DEF Tick, Arbitrate
      <3> QED
        BY <1>1, <3>1, SlotFacts DEF Next, Serve, Fetch, Transfer, Fill, Access, Handlers, Call, Hit, Miss,
           ClearIdeIntr, WaitDisk, SetLow, SetHigh, Issue, OutLong, WaitIdeIntr, InLong,
           AbortInLong, SetUsed, SetTag, SetClean, ReadByte, WriteByte, MarkDirty, IdeIntr,
           At, vars
    <2>2. counter \in Nat /\ counter < TickLimit /\ TickLimit \in Nat /\ WritebackTicks \in Nat
      BY <1>1, IdeAssumption DEF TickInv, IInv, TypeOK
    <2>3. counter' = counter + 1
      BY <1>3, <2>1, <2>2 DEF TimerIntr, NextCount
    <2> QED
      BY <1>1, <2>2, <2>3
  <1> QED
    BY <1>2, <1>3 DEF Spared

THEOREM SparedIsUndisturbed ==
  ASSUME Kept, Spared
  PROVE  Spec => Undisturbed
  <1>1. Init => DataInv
    BY InitDataInv
  <1>2. IInv /\ TickInv /\ DataInv /\ [Next]_vars => DataInv' /\ [Quiet]_vars
    BY SparedIsQuiet, NextDataInv
  <1> QED
    BY <1>1, <1>2, TickInvHolds, PTL DEF Spec, Undisturbed

(* A hit may return a clean line as it is, and a clean line may be dropped *)
(* without writing it: at every moment of every interleaving, as long as   *)
(* no write-back is due, and for good if nobody writes.                    *)
THEOREM CleanLinesMatch ==
  ASSUME Kept, Spared
  PROVE  Spec => []CleanLinesMatchDisk
  <1>1. DataInv => CleanLinesMatchDisk
    <2> SUFFICES ASSUME DataInv, NEW l \in Lines, cache[l].used, ~cache[l].dirty,
                        ~Filling(l), pc # "mark"
                 PROVE  cache[l].content = disk[cache[l].sector]
      BY DEF CleanLinesMatchDisk
    <2>1. l % NR_SEC_CACHE = l
      BY IdeAssumption, SMTT(30) DEF Lines
    <2>2. ~Replaced(l)
      BY <2>1 DEF Filling, Replaced, Mine
    <2> QED
      BY <2>2 DEF DataInv, SavedInv
  <1> QED
    BY <1>1, DataInvariant, SparedIsUndisturbed, PTL

(* The safety of ImplementsStore.                                          *)
THEOREM ImplementsStoreSafely ==
  ASSUME Kept, Spared
  PROVE  Spec => Store!Init /\ [][Store!Next]_Store!vars
  BY DriverIsADisk, SparedIsUndisturbed, PTL
=============================================================================
