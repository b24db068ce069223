------------------------------- MODULE Paging -------------------------------
(***************************************************************************)
(* Virtual memory: the page tables the kernel builds (kvm.c, mm.c, vmem.c),*)
(* its loader (elf.c) and the heap it grows for the program (mm_brk), and  *)
(* NEMU's translation of addresses through them, with the TLB that the     *)
(* build may have (page.c, tlb.c) and accesses across pages (memory.c).    *)
(*                                                                         *)
(* Memory is byte by byte.  A page of the program has the frame upte[page];*)
(* that its page table is itself in memory is left out.  mm_malloc() comes *)
(* as an object file.  Interrupts may come all the time, but their handlers*)
(* only read the tables.                                                   *)
(***************************************************************************)
EXTENDS FiniteSets, Integers, Sequences

CONSTANTS
  PAGE_SIZE,
  NR_PTE,          \* pages of a table
  NR_FRAMES,       \* PHY_MEM / PAGE_SIZE
  KMEM_FRAMES,     \* frames below KMEM, which mm_malloc() never gives out
  VideoPages,      \* the pages of video memory
  KOFFSET_PAGE,    \* the first page of the kernel's addresses
  StackPages,      \* STACK_SIZE / PAGE_SIZE
  TLB_SIZE,
  Programs,        \* what may be loaded: sequences of segments
  MaxHeap,         \* bound: the program's heap ends here at the most
  None, Zero

Byte     == 0 .. PAGE_SIZE - 1
UserPage == 0 .. KOFFSET_PAGE - 1
AllPages == 0 .. KOFFSET_PAGE + NR_FRAMES - 1
Frame    == 0 .. NR_FRAMES - 1
UserFrame == KMEM_FRAMES .. NR_FRAMES - 1
TlbIndex == 0 .. TLB_SIZE - 1

Segments == [vaddr : Nat, filesz : Nat, memsz : Nat \ {0}]

(* Segments come in the order of their addresses, as the ELF format wants, *)
(* above the identity mapping, as ld places them, and below the stack.     *)
ASSUME PagingAssumption ==
  /\ {PAGE_SIZE, NR_PTE, NR_FRAMES, KMEM_FRAMES, KOFFSET_PAGE, StackPages, TLB_SIZE} \subseteq Nat \ {0}
  /\ KMEM_FRAMES <= NR_FRAMES /\ NR_FRAMES <= KOFFSET_PAGE - StackPages
  /\ NR_PTE <= NR_FRAMES
  /\ MaxHeap \in Nat /\ MaxHeap <= PAGE_SIZE * KOFFSET_PAGE
  /\ VideoPages \subseteq 0 .. KMEM_FRAMES - 1 /\ \A p \in VideoPages : p < NR_PTE
  /\ None \notin Nat /\ Zero \notin Nat
  /\ Programs \subseteq Seq(Segments) \ {<<>>}
  /\ \A segs \in Programs : \A k \in 1 .. Len(segs) :
       /\ segs[k].vaddr >= NR_FRAMES * PAGE_SIZE
       /\ segs[k].filesz <= segs[k].memsz
       /\ segs[k].vaddr + segs[k].memsz <= PAGE_SIZE * (KOFFSET_PAGE - StackPages)
       /\ k < Len(segs) => segs[k].vaddr + segs[k].memsz <= segs[k + 1].vaddr

VARIABLES
  upte,       \* what updir maps, below KOFFSET
  pf_idx,     \* the next frame of mm_malloc()
  mem,        \* what the bytes of the frames given out hold: an address of the
              \* file, by where it belongs, or Zero
  cr3,
  key, pte,   \* the TLB; a key that is not valid is None
  ph,         \* the ELF file, and the segment that is loaded next
  pc,
  brk,
  heap_end    \* of sbrk() in the program

tables == <<upte, pf_idx, mem>>
tlb    == <<key, pte>>
vars   == <<tables, cr3, tlb, ph, pc, brk, heap_end>>

-----------------------------------------------------------------------------
(* Translation.                                                            *)

PageOf(addr) == addr \div PAGE_SIZE
Offset(addr) == addr % PAGE_SIZE

(* init_page(): all of physical memory at 0 and at KOFFSET.  init_mm()     *)
(* copies the part at KOFFSET into the program's directory.                *)
KernelWalk(page) == page - KOFFSET_PAGE

(* page_walk(): the tables that cr3 points to.                             *)
Walk(page) ==
  IF page >= KOFFSET_PAGE THEN KernelWalk(page)
  ELSE IF cr3 = "ucr3" THEN upte[page]
  ELSE IF page \in Frame THEN page ELSE None

(* Mutant of Fill: the key is set, and the entry keeps its old frame.      *)
FillKey(page, victim) ==
  /\ key' = [key EXCEPT ![victim] = page]
  /\ UNCHANGED pte

(* tlb_fetch() on a miss: a random victim.                                 *)
Fill(page, victim) ==
  /\ key' = [key EXCEPT ![victim] = page]
  /\ pte' = [pte EXCEPT ![victim] = Walk(page)]

(* page_translate() of an address that is mapped; another one ends NEMU    *)
(* with an assertion unless the TLB still has it.                          *)
Hit(page) == {i \in TlbIndex : key[i] = page}

Access(page) ==
  /\ Walk(page) # None /\ Hit(page) = {}
  /\ \E victim \in TlbIndex : Fill(page, victim)
  /\ UNCHANGED <<tables, cr3, ph, pc, brk, heap_end>>

Translate(addr) ==
  PAGE_SIZE * (IF Hit(PageOf(addr)) = {} THEN Walk(PageOf(addr))
               ELSE pte[CHOOSE i \in Hit(PageOf(addr)) : TRUE]) + Offset(addr)

(* The bytes that paddr_read() or paddr_write() touches, and laddr_read()  *)
(* or laddr_write(), which splits an access over two pages.                *)
Paddrs(paddr, len) == [i \in 1 .. len |-> paddr + i - 1]

(* Mutant of Laddrs: an access goes on in the next frame.                  *)
LaddrsOn(laddr, len) == Paddrs(Translate(laddr), len)

Laddrs(laddr, len) ==
  LET left    == Offset(laddr) + len - PAGE_SIZE
      already == len - left IN
  IF left > 0
    THEN Paddrs(Translate(laddr), already) \o Paddrs(Translate(laddr + already), left)
    ELSE Paddrs(Translate(laddr), len)

-----------------------------------------------------------------------------
(* mm_malloc(): frames in order for those pages that have none.            *)

Spanned(va, len) == PageOf(va) .. PageOf(va + len - 1)

(* Mutant of Fresh: pages that have a frame get a new one.                 *)
FreshAll(va, len) == Spanned(va, len)

Fresh(va, len) == {page \in Spanned(va, len) : upte[page] = None}

MmMalloc(va, len) ==
  LET fresh == Fresh(va, len) IN
  /\ pf_idx + Cardinality(fresh) <= NR_FRAMES      \* it panics otherwise
  /\ pf_idx' = pf_idx + Cardinality(fresh)
  /\ upte' = [page \in UserPage |->
       IF page \in fresh THEN pf_idx + Cardinality({p \in fresh : p < page}) ELSE upte[page]]

(* One turn of loader().  The kernel still has the identity mapping, and   *)
(* the segment goes to where its first byte is, and on from there.         *)
LoadSegment ==
  /\ pc = "load" /\ ph.next <= Len(ph.segs)
  /\ LET s     == ph.segs[ph.next]
         paddr == PAGE_SIZE * upte'[PageOf(s.vaddr)] + Offset(s.vaddr) IN
     /\ MmMalloc(s.vaddr, s.memsz)
     /\ mem' = [a \in DOMAIN mem |->
          IF a \in paddr .. paddr + s.filesz - 1 THEN s.vaddr + (a - paddr)
          ELSE IF a \in paddr + s.filesz .. paddr + s.memsz - 1 THEN Zero ELSE mem[a]]
     /\ brk' = IF brk < s.vaddr + s.memsz - 1 THEN s.vaddr + s.memsz - 1 ELSE brk
  /\ ph' = [ph EXCEPT !.next = @ + 1]
  /\ UNCHANGED <<cr3, tlb, pc, heap_end>>

LoadStack ==
  /\ pc = "load" /\ ph.next > Len(ph.segs)
  /\ MmMalloc(PAGE_SIZE * (KOFFSET_PAGE - StackPages), PAGE_SIZE * StackPages)
  /\ pc' = "video"
  /\ UNCHANGED <<mem, cr3, tlb, ph, brk, heap_end>>

(* Mutant of CreateVideoMapping: the frames begin at the wrong one.        *)
CreateVideoMappingShifted ==
  /\ pc = "video"
  /\ upte' = [page \in UserPage |-> IF page < NR_PTE
                THEN IF page \in VideoPages THEN page + 1 ELSE None ELSE upte[page]]
  /\ pc' = "switch"
  /\ UNCHANGED <<pf_idx, mem, cr3, tlb, ph, brk, heap_end>>

(* create_video_mapping() gives the first directory entry a new table.     *)
CreateVideoMapping ==
  /\ pc = "video"
  /\ upte' = [page \in UserPage |-> IF page < NR_PTE
                THEN IF page \in VideoPages THEN page ELSE None ELSE upte[page]]
  /\ pc' = "switch"
  /\ UNCHANGED <<pf_idx, mem, cr3, tlb, ph, brk, heap_end>>

(* write_cr3(), which leaves the TLB as it is, and the program starts.     *)
Switch ==
  /\ pc = "switch"
  /\ cr3' = "ucr3" /\ pc' = "run"
  /\ heap_end' = brk + 1
  /\ UNCHANGED <<tables, tlb, ph, brk>>

(* mm_brk(): nothing is taken back when the break goes down.               *)
MmBrk(new_brk) ==
  /\ IF new_brk > brk THEN MmMalloc(brk, new_brk - brk) ELSE UNCHANGED <<upte, pf_idx>>
  /\ brk' = new_brk

(* sbrk() of the C library, which keeps its own end of the heap.           *)
Sbrk(incr) ==
  /\ pc = "run"
  /\ heap_end + incr <= MaxHeap
  /\ MmBrk(heap_end + incr)
  /\ heap_end' = heap_end + incr
  /\ UNCHANGED <<mem, cr3, tlb, ph, pc>>

-----------------------------------------------------------------------------
(* Paging has been switched on, the program's directory is empty, and the  *)
(* TLB too.                                                                *)
Init ==
  /\ upte = [page \in UserPage |-> None] /\ pf_idx = KMEM_FRAMES
  /\ mem = [a \in PAGE_SIZE * KMEM_FRAMES .. PAGE_SIZE * NR_FRAMES - 1 |-> Zero]
  /\ cr3 = "kpdir"
  /\ key = [i \in TlbIndex |-> None] /\ pte = [i \in TlbIndex |-> 0]
  /\ \E segs \in Programs : ph = [segs |-> segs, next |-> 1]
  /\ pc = "load" /\ brk = 0 /\ heap_end = 0

(* Where the program's heap begins.                                        *)
EndOfImage == LET last == ph.segs[Len(ph.segs)] IN last.vaddr + last.memsz

Next ==
  \/ LoadSegment \/ LoadStack \/ CreateVideoMapping \/ Switch
  \/ \E page \in AllPages : Access(page)
  \/ \E incr \in 1 - PAGE_SIZE .. PAGE_SIZE + 1 : heap_end + incr >= EndOfImage /\ Sbrk(incr)

Spec == Init /\ [][Next]_vars

-----------------------------------------------------------------------------
TypeOK ==
  /\ upte \in [UserPage -> Frame \union {None}]
  /\ pf_idx \in KMEM_FRAMES .. NR_FRAMES
  /\ \A a \in DOMAIN mem : mem[a] \in Nat \union {Zero}
  /\ cr3 \in {"kpdir", "ucr3"} /\ pc \in {"load", "video", "switch", "run"}
  /\ key \in [TlbIndex -> AllPages \union {None}] /\ pte \in [TlbIndex -> Frame]
  /\ ph.segs \in Programs /\ ph.next \in 1 .. Len(ph.segs) + 1
  /\ {brk, heap_end} \subseteq Nat

(* Nothing flushes the TLB, neither when CR3 nor when a table changes: what*)
(* it has of a page that is mapped is the frame the tables give (tlb.c:91).*)
TlbAgrees ==
  \A i \in TlbIndex : key[i] # None /\ Walk(key[i]) # None => pte[i] = Walk(key[i])

(* Two pages of the program never share a frame, and but for video memory  *)
(* none is the kernel's.                                                   *)
FramesAreOwn ==
  \A p, q \in UserPage : upte[p] # None =>
    /\ upte[p] = upte[q] => p = q
    /\ upte[p] < KMEM_FRAMES => p \in VideoPages /\ upte[p] = p
    /\ upte[p] < pf_idx

(* The loader takes the frames of a segment for consecutive.  The program  *)
(* finds its file where it belongs, zeros behind it, and the stack and the *)
(* heap it was granted, to the last byte (elf.c:43, mm.c:20).              *)
Held(s, addr) == IF addr < s.vaddr + s.filesz THEN addr ELSE Zero

ProgramIsLoaded ==
  pc = "run" =>
    /\ \A k \in DOMAIN ph.segs : LET s == ph.segs[k] IN
         \A addr \in s.vaddr .. s.vaddr + s.memsz - 1 : mem[Translate(addr)] = Held(s, addr)
    /\ \A addr \in EndOfImage .. heap_end - 1 : Walk(PageOf(addr)) # None
    /\ \A page \in KOFFSET_PAGE - StackPages .. KOFFSET_PAGE - 1 : Walk(page) # None

(* An access that runs over the end of a page touches the bytes of both,  *)
(* wherever their frames are: whoever makes it, with the tables that are   *)
(* in force and whatever the TLB has of them (memory.c:75).                *)
AccessesCrossPages ==
  \A addr \in 0 .. PAGE_SIZE * (KOFFSET_PAGE + NR_FRAMES) - 1 : \A len \in 1 .. PAGE_SIZE :
    (\A page \in Spanned(addr, len) : page \in AllPages /\ Walk(page) # None) =>
      Laddrs(addr, len) = [i \in 1 .. len |-> Translate(addr + i - 1)]
=============================================================================
