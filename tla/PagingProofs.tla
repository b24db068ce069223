---------------------------- MODULE PagingProofs ----------------------------
(***************************************************************************)
(* What holds of the page tables and the TLB for every size of page, table,*)
(* memory and TLB, and every program that ld lays out.                     *)
(*                                                                         *)
(* Nothing flushes the TLB.  That this does no harm has two reasons, which *)
(* TlbInv states: what is in the TLB from before the switch of tables is   *)
(* the identity, and the program's tables map those pages to themselves or *)
(* not at all; and a page that is mapped is never mapped anew.             *)
(***************************************************************************)
EXTENDS Paging, FiniteSetTheorems, SequenceTheorems, TLAPS

UserBase == NR_FRAMES * PAGE_SIZE

(* What the steps of the kernel and of NEMU keep. *)
Types ==
  /\ upte \in [UserPage -> Frame \union {None}]
  /\ pf_idx \in KMEM_FRAMES .. NR_FRAMES
  /\ key \in [TlbIndex -> AllPages \union {None}] /\ pte \in [TlbIndex -> Int]
  /\ cr3 \in {"kpdir", "ucr3"} /\ (pc # "run" => cr3 = "kpdir")
  /\ ph \in [segs : Programs, next : Nat \ {0}]
  /\ ph.next <= Len(ph.segs) + 1
  /\ brk \in Nat /\ heap_end \in Nat

(* Above the identity mapping is the program's own.                        *)
BrkInv == (pc = "load" => ph.next > 1) => brk >= UserBase

Below(p) == p < NR_FRAMES => upte[p] \in {None, p}

TlbInv ==
  /\ \A p \in UserPage : Below(p)
  /\ \A i \in TlbIndex : key[i] # None =>
       \/ key[i] >= KOFFSET_PAGE /\ pte[i] = KernelWalk(key[i])
       \/ key[i] \in Frame /\ pte[i] = key[i]
       \/ /\ cr3 = "ucr3" /\ key[i] \in UserPage
          /\ upte[key[i]] # None /\ pte[i] = upte[key[i]]

PInv == Types /\ BrkInv /\ TlbInv /\ FramesAreOwn

-----------------------------------------------------------------------------

LEMMA ConstantFacts ==
  /\ {PAGE_SIZE, NR_PTE, NR_FRAMES, KMEM_FRAMES, KOFFSET_PAGE, StackPages, TLB_SIZE} \subseteq Nat \ {0}
  /\ KMEM_FRAMES <= NR_FRAMES /\ NR_FRAMES <= KOFFSET_PAGE - StackPages
  /\ None \notin Nat /\ UserBase \in Nat
  BY PagingAssumption DEF UserBase

(* A page's number is the address without its offset.                      *)
LEMMA PageOfFacts ==
  ASSUME NEW addr \in Nat
  PROVE  /\ PageOf(addr) \in Nat
         /\ addr >= UserBase => PageOf(addr) >= NR_FRAMES
  <1>1. PAGE_SIZE \in Nat \ {0} /\ NR_FRAMES \in Nat
    BY ConstantFacts
  <1> DEFINE q == addr \div PAGE_SIZE  r == addr % PAGE_SIZE
  <1>2. q \in Int /\ r \in 0 .. PAGE_SIZE - 1 /\ addr = PAGE_SIZE * q + r
    BY <1>1
  <1> HIDE DEF q, r
  <1>3. q >= 0
    BY <1>1, <1>2
  <1>4. addr >= NR_FRAMES * PAGE_SIZE => q >= NR_FRAMES
    BY <1>1, <1>2
  <1> QED
    BY <1>2, <1>3, <1>4 DEF PageOf, UserBase, q

-----------------------------------------------------------------------------
(* mm_malloc().                                                            *)

(* The frame it gives to a page that has none.                             *)
Given(va, len, page) == pf_idx + Cardinality({p \in Fresh(va, len) : p < page})

(* It gives a frame of its own to each, one it has not given before.       *)
LEMMA GivenFacts ==
  ASSUME Types, NEW va \in Nat, NEW len \in Nat, MmMalloc(va, len)
  PROVE  /\ pf_idx' \in pf_idx .. NR_FRAMES
         /\ \A p \in Fresh(va, len) : Given(va, len, p) \in pf_idx .. pf_idx' - 1
         /\ \A p, q \in Fresh(va, len) : p # q => Given(va, len, p) # Given(va, len, q)
  <1> DEFINE fresh == Fresh(va, len)  before(page) == {p \in fresh : p < page}
  <1>1. fresh \subseteq Nat /\ IsFiniteSet(fresh)
    <2>1. PageOf(va) \in Nat /\ PageOf(va + len - 1) \in Int
      <3>1. va + len - 1 \in Int /\ PAGE_SIZE \in Nat \ {0}
        BY ConstantFacts
      <3> QED
        BY <3>1, PageOfFacts DEF PageOf
    <2>2. IsFiniteSet(PageOf(va) .. PageOf(va + len - 1))
      BY <2>1, FS_Interval
    <2>3. fresh \in SUBSET (PageOf(va) .. PageOf(va + len - 1))
      BY DEF Fresh, Spanned
    <2> QED
      BY <2>1, <2>2, <2>3, FS_Subset
  <1>2. /\ pf_idx + Cardinality(fresh) <= NR_FRAMES /\ pf_idx' = pf_idx + Cardinality(fresh)
    BY DEF MmMalloc
  <1>3. pf_idx \in Nat /\ NR_FRAMES \in Nat /\ Cardinality(fresh) \in Nat
    BY <1>1, ConstantFacts, FS_CardinalityType DEF Types
  <1> HIDE DEF fresh
  <1>4. ASSUME NEW S, S \in SUBSET fresh
        PROVE  /\ IsFiniteSet(S) /\ Cardinality(S) \in Nat
               /\ Cardinality(S) <= Cardinality(fresh)
               /\ S # fresh => Cardinality(S) < Cardinality(fresh)
    <2>1. /\ IsFiniteSet(S) /\ Cardinality(S) <= Cardinality(fresh)
          /\ Cardinality(fresh) = Cardinality(S) => fresh = S
      BY <1>1, <1>4, FS_Subset
    <2>2. Cardinality(S) \in Nat
      BY <2>1, FS_CardinalityType
    <2> QED
      BY <1>3, <2>1, <2>2
  <1>5. ASSUME NEW p \in fresh
        PROVE  Cardinality(before(p)) \in 0 .. Cardinality(fresh) - 1
    <2>1. before(p) \in SUBSET fresh /\ p \notin before(p)
      BY <1>1
    <2> HIDE DEF before
    <2> QED
      BY <1>3, <1>4, <2>1
  <1>6. ASSUME NEW p \in fresh, NEW q \in fresh, p < q
        PROVE  Cardinality(before(p)) < Cardinality(before(q))
    <2>1. /\ before(p) \in SUBSET before(q) /\ before(q) \in SUBSET fresh
          /\ p \in before(q) /\ p \notin before(p)
      <3>1. \A x \in fresh : x \in Nat
        BY <1>1
      <3>2. \A x \in fresh : x < p => x < q
        <4> SUFFICES ASSUME NEW x \in fresh, x < p PROVE x < q
          OBVIOUS
        <4>1. x \in Nat /\ p \in Nat /\ q \in Nat
          BY <3>1
        <4> QED
          BY <1>6, <4>1
      <3>3. ~(p < p)
        BY <3>1
      <3> QED
        BY <1>6, <3>2, <3>3
    <2> HIDE DEF before
    <2>2. IsFiniteSet(before(q)) /\ Cardinality(before(q)) \in Nat /\ Cardinality(before(p)) \in Nat
      BY <1>4, <2>1
    <2>3. /\ Cardinality(before(p)) <= Cardinality(before(q))
          /\ Cardinality(before(q)) = Cardinality(before(p)) => before(q) = before(p)
      BY <2>1, <2>2, FS_Subset
    <2> QED
      BY <2>1, <2>2, <2>3
  <1>7. \A p \in fresh : Given(va, len, p) = pf_idx + Cardinality(before(p))
    BY DEF Given, fresh
  <1> HIDE DEF before
  <1>8. pf_idx' \in pf_idx .. NR_FRAMES
    BY <1>2, <1>3
  <1>9. \A p \in fresh : Given(va, len, p) \in pf_idx .. pf_idx' - 1
    BY <1>2, <1>3, <1>5, <1>7
  <1>10. \A p, q \in fresh : p # q => Given(va, len, p) # Given(va, len, q)
    <2> SUFFICES ASSUME NEW p \in fresh, NEW q \in fresh, p # q
                 PROVE  Given(va, len, p) # Given(va, len, q)
      OBVIOUS
    <2>1. p < q \/ q < p
      BY <1>1
    <2> QED
      BY <1>3, <1>5, <1>6, <1>7, <2>1
  <1> QED
    BY <1>8, <1>9, <1>10 DEF fresh

(* Of pages above the identity mapping only those without a frame change.  *)
LEMMA MmMallocKeeps ==
  ASSUME PInv, NEW va \in Nat, NEW len \in Nat, MmMalloc(va, len), va >= UserBase
  PROVE  /\ upte' \in [UserPage -> Frame \union {None}]
         /\ pf_idx' \in KMEM_FRAMES .. NR_FRAMES
         /\ \A p \in UserPage : upte[p] # None => upte'[p] = upte[p]
         /\ \A p \in UserPage : Below(p)'
         /\ FramesAreOwn'
  <1>1. /\ pf_idx' \in pf_idx .. NR_FRAMES /\ pf_idx \in KMEM_FRAMES .. NR_FRAMES
        /\ KMEM_FRAMES \in Nat \ {0} /\ NR_FRAMES \in Nat
    BY GivenFacts, ConstantFacts DEF PInv, Types
  <1>2. upte' = [p \in UserPage |-> IF p \in Fresh(va, len) THEN Given(va, len, p) ELSE upte[p]]
    BY DEF MmMalloc, Given
  <1>3. \A p \in Fresh(va, len) : Given(va, len, p) \in Frame /\ Given(va, len, p) \in pf_idx .. pf_idx' - 1
    BY <1>1, GivenFacts DEF PInv, Frame
  <1>4. \A p \in UserPage : upte[p] \in Frame \union {None}
    BY DEF PInv, Types
  <1>5. upte' \in [UserPage -> Frame \union {None}]
    BY <1>2, <1>3, <1>4
  <1>6. \A p \in Fresh(va, len) : upte[p] = None /\ p >= NR_FRAMES /\ p \in Int
    <2>1. PageOf(va) \in Nat /\ PageOf(va) >= NR_FRAMES
      BY PageOfFacts
    <2>2. PageOf(va + len - 1) \in Int
      <3>1. va + len - 1 \in Int /\ PAGE_SIZE \in Nat \ {0}
        BY ConstantFacts
      <3> QED
        BY <3>1 DEF PageOf
    <2> QED
      BY <1>1, <2>1, <2>2 DEF Fresh, Spanned
  <1>7. \A p \in UserPage : upte[p] # None => upte'[p] = upte[p]
    BY <1>2, <1>6
  <1>8. \A p \in UserPage : Below(p)'
    <2> SUFFICES ASSUME NEW p \in UserPage, p < NR_FRAMES PROVE upte'[p] \in {None, p}
      BY DEF Below
    <2>1. p \notin Fresh(va, len)
      BY <1>1, <1>6
    <2> QED
      BY <1>2, <2>1 DEF PInv, TlbInv, Below
  <1>9. FramesAreOwn'
    <2> SUFFICES ASSUME NEW p \in UserPage, NEW q \in UserPage, upte'[p] # None
                 PROVE  /\ upte'[p] = upte'[q] => p = q
                        /\ upte'[p] < KMEM_FRAMES => p \in VideoPages /\ upte'[p] = p
                        /\ upte'[p] < pf_idx'
      BY DEF FramesAreOwn
    <2>1. None \notin Nat
      BY ConstantFacts
    <2>2. ASSUME NEW r \in UserPage, r \notin Fresh(va, len), upte'[r] # None
          PROVE  /\ upte'[r] = upte[r] /\ upte[r] # None /\ upte[r] \in Frame
                 /\ upte[r] < pf_idx
                 /\ upte[r] < KMEM_FRAMES => r \in VideoPages /\ upte[r] = r
      BY <1>2, <1>4, <2>2 DEF PInv, FramesAreOwn
    <2>3. ASSUME NEW r \in UserPage, r \in Fresh(va, len)
          PROVE  upte'[r] = Given(va, len, r) /\ upte'[r] \in pf_idx .. pf_idx' - 1 /\ upte'[r] \in Frame
      BY <1>2, <1>3, <2>3
    <2>4. CASE p \in Fresh(va, len)
      <3>1. upte'[p] < pf_idx' /\ ~(upte'[p] < KMEM_FRAMES)
        BY <1>1, <2>3, <2>4
      <3>2. ASSUME upte'[p] = upte'[q] PROVE p = q
        <4>1. q \in Fresh(va, len)
          <5> SUFFICES ASSUME q \notin Fresh(va, len) PROVE FALSE
            OBVIOUS
          <5>1. upte'[q] < pf_idx /\ upte'[q] \in Frame
            BY <2>2, <3>2
          <5> QED
            BY <1>1, <2>3, <2>4, <3>2, <5>1 DEF Frame
        <4> QED
          BY <2>3, <2>4, <3>2, <4>1, GivenFacts DEF PInv
      <3> QED
        BY <3>1, <3>2
    <2>5. CASE p \notin Fresh(va, len)
      <3>1. /\ upte'[p] < KMEM_FRAMES => p \in VideoPages /\ upte'[p] = p
            /\ upte'[p] < pf_idx /\ upte'[p] \in Frame
        BY <2>2, <2>5
      <3>2. upte'[p] < pf_idx'
        BY <1>1, <3>1 DEF Frame
      <3>3. ASSUME upte'[p] = upte'[q] PROVE p = q
        <4>1. q \notin Fresh(va, len)
          <5> SUFFICES ASSUME q \in Fresh(va, len) PROVE FALSE
            OBVIOUS
          <5> QED
            BY <1>1, <2>3, <3>1, <3>3 DEF Frame
        <4>2. upte[p] = upte[q] /\ upte[p] # None
          BY <2>2, <2>5, <3>3, <4>1
        <4> QED
          BY <4>2 DEF PInv, FramesAreOwn
      <3> QED
        BY <3>1, <3>2, <3>3
    <2> QED
      BY <2>4, <2>5
  <1> QED
    BY <1>1, <1>5, <1>7, <1>8, <1>9

-----------------------------------------------------------------------------
(* The invariant.                                                          *)

(* A file has a segment, and each lies above the identity mapping.         *)
LEMMA SegmentFacts ==
  ASSUME Types
  PROVE  /\ Len(ph.segs) \in Nat \ {0} /\ ph.next \in Nat \ {0}
         /\ \A k \in 1 .. Len(ph.segs) :
              /\ ph.segs[k].vaddr \in Nat /\ ph.segs[k].memsz \in Nat \ {0}
              /\ ph.segs[k].vaddr >= UserBase
         /\ EndOfImage \in Nat /\ EndOfImage >= UserBase
  <1>1. ph.segs \in Programs /\ ph.next \in Nat \ {0}
    BY DEF Types
  <1>2. ph.segs \in Seq(Segments) /\ ph.segs # <<>>
    BY <1>1, PagingAssumption
  <1>3. Len(ph.segs) \in Nat \ {0} /\ \A k \in 1 .. Len(ph.segs) : ph.segs[k] \in Segments
    BY <1>2, EmptySeq, LenProperties, ElementOfSeq
  <1>4. \A k \in 1 .. Len(ph.segs) : ph.segs[k].vaddr >= UserBase
    BY <1>1, PagingAssumption DEF UserBase
  <1>5. \A k \in 1 .. Len(ph.segs) : ph.segs[k].vaddr \in Nat /\ ph.segs[k].memsz \in Nat \ {0}
    BY <1>3 DEF Segments
  <1>6. Len(ph.segs) \in 1 .. Len(ph.segs) /\ UserBase \in Nat
    BY <1>3, ConstantFacts
  <1>7. EndOfImage \in Nat /\ EndOfImage >= UserBase
    <2> DEFINE v == ph.segs[Len(ph.segs)].vaddr  m == ph.segs[Len(ph.segs)].memsz
    <2>1. v \in Nat /\ m \in Nat /\ v >= UserBase
      BY <1>4, <1>5, <1>6
    <2>2. EndOfImage = v + m
      BY DEF EndOfImage
    <2> HIDE DEF v, m
    <2> QED
      BY <1>6, <2>1, <2>2
  <1> QED
    BY <1>1, <1>3, <1>4, <1>5, <1>7

LEMMA InitPInv == Init => PInv
  <1> SUFFICES ASSUME Init PROVE PInv
    OBVIOUS
  <1>1. /\ KMEM_FRAMES \in Nat /\ NR_FRAMES \in Nat /\ KMEM_FRAMES <= NR_FRAMES
        /\ None \notin Nat
    BY ConstantFacts
  <1>2. Types
    <2>1. ph \in [segs : Programs, next : Nat \ {0}] /\ ph.next <= Len(ph.segs) + 1
      <3>1. PICK segs \in Programs : ph = [segs |-> segs, next |-> 1]
        BY DEF Init
      <3>2. Len(segs) \in Nat
        BY PagingAssumption, LenProperties
      <3> QED
        BY <3>1, <3>2
    <2> QED
      BY <1>1, <2>1 DEF Init, Types
  <1>3. BrkInv
    <2>1. pc = "load" /\ ph.next = 1
      BY DEF Init
    <2> QED
      BY <2>1 DEF BrkInv
  <1>4. TlbInv /\ FramesAreOwn
    BY DEF Init, TlbInv, Below, FramesAreOwn
  <1> QED
    BY <1>2, <1>3, <1>4 DEF PInv

(* What mm_malloc() leaves to be shown of a step that calls it.            *)
LEMMA GrowthKeeps ==
  ASSUME PInv, NEW va \in Nat, NEW len \in Nat, MmMalloc(va, len), va >= UserBase,
         UNCHANGED <<cr3, tlb>>
  PROVE  TlbInv' /\ FramesAreOwn'
  <1>1. /\ \A p \in UserPage : upte[p] # None => upte'[p] = upte[p]
        /\ \A p \in UserPage : Below(p)'
        /\ FramesAreOwn'
    BY MmMallocKeeps
  <1>2. cr3' = cr3 /\ key' = key /\ pte' = pte
    BY DEF tlb
  <1>3. \A i \in TlbIndex : key[i] # None =>
          \/ key[i] >= KOFFSET_PAGE /\ pte[i] = KernelWalk(key[i])
          \/ key[i] \in Frame /\ pte[i] = key[i]
          \/ /\ cr3 = "ucr3" /\ key[i] \in UserPage
             /\ upte'[key[i]] # None /\ pte[i] = upte'[key[i]]
    BY <1>1 DEF PInv, TlbInv
  <1> QED
    BY <1>1, <1>2, <1>3 DEF TlbInv, Below, KernelWalk

LEMMA LoadSegmentKeeps == PInv /\ LoadSegment => PInv'
  <1> SUFFICES ASSUME PInv, LoadSegment PROVE PInv'
    OBVIOUS
  <1> DEFINE v == ph.segs[ph.next].vaddr  m == ph.segs[ph.next].memsz
  <1>1. /\ pc = "load" /\ ph.next <= Len(ph.segs) /\ MmMalloc(v, m)
        /\ brk' = IF brk < v + m - 1 THEN v + m - 1 ELSE brk
        /\ ph' = [ph EXCEPT !.next = @ + 1]
        /\ UNCHANGED <<cr3, tlb, pc, heap_end>>
    BY DEF LoadSegment
  <1>2. Types
    BY DEF PInv
  <1>3. ph.next \in 1 .. Len(ph.segs)
    BY <1>1, <1>2, SegmentFacts
  <1>4. v \in Nat /\ m \in Nat \ {0} /\ v >= UserBase
    BY <1>2, <1>3, SegmentFacts
  <1> HIDE DEF v, m
  <1>5. /\ upte' \in [UserPage -> Frame \union {None}] /\ pf_idx' \in KMEM_FRAMES .. NR_FRAMES
    BY <1>1, <1>4, MmMallocKeeps
  <1>6. TlbInv' /\ FramesAreOwn'
    BY <1>1, <1>4, GrowthKeeps
  <1>7. brk' \in Nat /\ brk' >= UserBase
    <2>1. brk \in Nat /\ UserBase \in Nat
      BY <1>2, ConstantFacts DEF Types
    <2> QED
      BY <1>1, <1>4, <2>1
  <1>8. ph' \in [segs : Programs, next : Nat \ {0}] /\ ph'.next <= Len(ph'.segs) + 1
    <2>1. ph \in [segs : Programs, next : Nat \ {0}] /\ Len(ph.segs) \in Nat
      BY <1>2, SegmentFacts DEF Types
    <2>2. ph'.segs = ph.segs /\ ph'.next = ph.next + 1
      BY <1>1, <2>1
    <2> QED
      BY <1>1, <2>1, <2>2
  <1>9. Types'
    BY <1>1, <1>2, <1>5, <1>7, <1>8 DEF Types, tlb
  <1> QED
    BY <1>6, <1>7, <1>9 DEF PInv, BrkInv

LEMMA LoadStackKeeps == PInv /\ LoadStack => PInv'
  <1> SUFFICES ASSUME PInv, LoadStack PROVE PInv'
    OBVIOUS
  <1> DEFINE va == PAGE_SIZE * (KOFFSET_PAGE - StackPages)  len == PAGE_SIZE * StackPages
  <1>1. /\ pc = "load" /\ pc' = "video" /\ ph.next > Len(ph.segs) /\ MmMalloc(va, len)
        /\ UNCHANGED <<mem, cr3, tlb, ph, brk, heap_end>>
    BY DEF LoadStack
  <1>2. Types
    BY DEF PInv
  <1>3. va \in Nat /\ len \in Nat /\ va >= UserBase
    <2>1. /\ PAGE_SIZE \in Nat /\ StackPages \in Nat /\ KOFFSET_PAGE \in Nat /\ NR_FRAMES \in Nat
          /\ NR_FRAMES <= KOFFSET_PAGE - StackPages
      BY ConstantFacts
    <2> DEFINE first == KOFFSET_PAGE - StackPages
    <2>2. first \in Nat /\ NR_FRAMES <= first
      BY <2>1
    <2>3. va = PAGE_SIZE * first
      OBVIOUS
    <2> HIDE DEF first, va
    <2>4. PAGE_SIZE * first >= NR_FRAMES * PAGE_SIZE /\ PAGE_SIZE * first \in Nat
      BY <2>1, <2>2
    <2> QED
      BY <2>1, <2>3, <2>4 DEF UserBase
  <1> HIDE DEF va, len
  <1>4. /\ upte' \in [UserPage -> Frame \union {None}] /\ pf_idx' \in KMEM_FRAMES .. NR_FRAMES
    BY <1>1, <1>3, MmMallocKeeps
  <1>5. TlbInv' /\ FramesAreOwn'
    BY <1>1, <1>3, GrowthKeeps
  <1>6. Types'
    BY <1>1, <1>2, <1>4 DEF Types, tlb
  <1>7. brk' = brk /\ brk >= UserBase
    BY <1>1, <1>2, SegmentFacts DEF PInv, BrkInv
  <1> QED
    BY <1>5, <1>6, <1>7 DEF PInv, BrkInv

(* The first table is new: of its pages only video memory has frames, and  *)
(* no other page had one of those.                                         *)
LEMMA CreateVideoMappingKeeps == PInv /\ CreateVideoMapping => PInv'
  <1> SUFFICES ASSUME PInv, CreateVideoMapping PROVE PInv'
    OBVIOUS
  <1>1. /\ pc = "video" /\ pc' = "switch"
        /\ upte' = [page \in UserPage |-> IF page < NR_PTE
              THEN IF page \in VideoPages THEN page ELSE None ELSE upte[page]]
        /\ UNCHANGED <<pf_idx, mem, cr3, tlb, ph, brk, heap_end>>
    BY DEF CreateVideoMapping
  <1>2. /\ KMEM_FRAMES \in Nat /\ NR_FRAMES \in Nat /\ KMEM_FRAMES <= NR_FRAMES /\ NR_PTE \in Nat
        /\ VideoPages \subseteq 0 .. KMEM_FRAMES - 1 /\ \A p \in VideoPages : p < NR_PTE
        /\ None \notin Nat
    BY PagingAssumption
  <1>3. /\ upte \in [UserPage -> Frame \union {None}] /\ cr3 = "kpdir"
        /\ pf_idx \in KMEM_FRAMES .. NR_FRAMES
    BY <1>1 DEF PInv, Types
  <1>4. \A p \in VideoPages : p \in Frame /\ p < KMEM_FRAMES /\ p < NR_PTE
    BY <1>2 DEF Frame
  <1>5. upte' \in [UserPage -> Frame \union {None}]
    BY <1>1, <1>3, <1>4
  <1>6. Types'
    BY <1>1, <1>5 DEF PInv, Types, tlb
  <1>7. BrkInv'
    BY <1>1 DEF PInv, BrkInv
  <1>8. TlbInv'
    <2>1. \A p \in UserPage : Below(p)'
      BY <1>1 DEF PInv, TlbInv, Below
    <2>2. key' = key /\ pte' = pte
      BY <1>1 DEF tlb
    <2>3. \A i \in TlbIndex : key[i] # None =>
            \/ key[i] >= KOFFSET_PAGE /\ pte[i] = KernelWalk(key[i])
            \/ key[i] \in Frame /\ pte[i] = key[i]
      BY <1>3 DEF PInv, TlbInv
    <2> QED
      BY <2>1, <2>2, <2>3 DEF TlbInv, Below, KernelWalk
  <1>9. FramesAreOwn'
    <2> SUFFICES ASSUME NEW p \in UserPage, NEW q \in UserPage, upte'[p] # None
                 PROVE  /\ upte'[p] = upte'[q] => p = q
                        /\ upte'[p] < KMEM_FRAMES => p \in VideoPages /\ upte'[p] = p
                        /\ upte'[p] < pf_idx'
      BY DEF FramesAreOwn
    <2>1. ASSUME NEW r \in UserPage, upte'[r] # None
          PROVE  \/ r \in VideoPages /\ upte'[r] = r
                 \/ ~(r < NR_PTE) /\ upte'[r] = upte[r]
      BY <1>1, <2>1
    <2>2. ASSUME NEW r \in UserPage, upte[r] # None, ~(r < NR_PTE)
          PROVE  upte[r] \in Frame /\ ~(upte[r] < KMEM_FRAMES) /\ upte[r] < pf_idx
      BY <1>3, <1>4, <2>2 DEF PInv, FramesAreOwn
    <2>3. ASSUME upte'[p] = upte'[q] PROVE p = q
      <3>1. upte'[q] # None
        BY <2>3
      <3>2. CASE p \in VideoPages /\ upte'[p] = p
        BY <1>4, <2>1, <2>2, <2>3, <3>1, <3>2
      <3>3. CASE ~(p < NR_PTE) /\ upte'[p] = upte[p]
        <4>1. ~(q < NR_PTE) /\ upte'[q] = upte[q]
          BY <1>4, <2>1, <2>2, <2>3, <3>1, <3>3
        <4> QED
          BY <2>3, <3>3, <4>1 DEF PInv, FramesAreOwn
      <3> QED
        BY <2>1, <3>2, <3>3
    <2>4. pf_idx' = pf_idx /\ pf_idx \in Nat /\ KMEM_FRAMES <= pf_idx
      BY <1>1, <1>2, <1>3
    <2>5. upte'[p] < KMEM_FRAMES => p \in VideoPages /\ upte'[p] = p
      BY <2>1, <2>2
    <2>6. upte'[p] < pf_idx'
      <3>1. CASE p \in VideoPages /\ upte'[p] = p
        <4>1. p \in Nat /\ p < KMEM_FRAMES
          BY <1>2, <1>4, <3>1
        <4> QED
          BY <1>2, <2>4, <3>1, <4>1
      <3>2. CASE ~(p < NR_PTE) /\ upte'[p] = upte[p]
        BY <2>2, <2>4, <3>2
      <3> QED
        BY <2>1, <3>1, <3>2
    <2> QED
      BY <2>3, <2>5, <2>6
  <1> QED
    BY <1>6, <1>7, <1>8, <1>9 DEF PInv

LEMMA SwitchKeeps == PInv /\ Switch => PInv'
  <1> SUFFICES ASSUME PInv, Switch PROVE PInv'
    OBVIOUS
  <1>1. /\ pc = "switch" /\ pc' = "run" /\ cr3' = "ucr3" /\ heap_end' = brk + 1
        /\ upte' = upte /\ pf_idx' = pf_idx /\ key' = key /\ pte' = pte /\ ph' = ph /\ brk' = brk
    BY DEF Switch, tables, tlb
  <1>2. Types'
    BY <1>1 DEF PInv, Types
  <1>3. BrkInv'
    BY <1>1 DEF PInv, BrkInv
  <1>4. TlbInv'
    <2>1. cr3 = "kpdir"
      BY <1>1 DEF PInv, Types
    <2>2. \A i \in TlbIndex : key[i] # None =>
            \/ key[i] >= KOFFSET_PAGE /\ pte[i] = KernelWalk(key[i])
            \/ key[i] \in Frame /\ pte[i] = key[i]
      BY <2>1 DEF PInv, TlbInv
    <2>3. \A p \in UserPage : Below(p)'
      BY <1>1 DEF PInv, TlbInv, Below
    <2> QED
      BY <1>1, <2>2, <2>3 DEF TlbInv, Below, KernelWalk
  <1>5. FramesAreOwn'
    BY <1>1 DEF PInv, FramesAreOwn
  <1> QED
    BY <1>2, <1>3, <1>4, <1>5 DEF PInv

LEMMA AccessKeeps ==
  ASSUME PInv, NEW page \in AllPages, Access(page)
  PROVE  PInv'
  <1>1. PICK victim \in TlbIndex : Fill(page, victim)
    BY DEF Access
  <1>2. /\ Walk(page) # None
        /\ upte' = upte /\ pf_idx' = pf_idx /\ cr3' = cr3 /\ ph' = ph /\ pc' = pc
        /\ brk' = brk /\ heap_end' = heap_end
    BY DEF Access, tables
  <1>3. key' = [key EXCEPT ![victim] = page] /\ pte' = [pte EXCEPT ![victim] = Walk(page)]
    BY <1>1 DEF Fill
  <1>4. /\ KOFFSET_PAGE \in Nat /\ NR_FRAMES \in Nat /\ page \in Int /\ page >= 0
    BY ConstantFacts DEF AllPages
  <1>5. \/ page >= KOFFSET_PAGE /\ Walk(page) = KernelWalk(page)
        \/ page \in Frame /\ Walk(page) = page
        \/ cr3 = "ucr3" /\ page \in UserPage /\ upte[page] # None /\ Walk(page) = upte[page]
    <2>1. CASE page >= KOFFSET_PAGE
      BY <2>1 DEF Walk
    <2>2. CASE ~(page >= KOFFSET_PAGE)
      <3>1. page \in UserPage
        BY <1>4, <2>2 DEF UserPage
      <3> QED
        BY <1>2, <2>2, <3>1 DEF Walk
    <2> QED
      BY <2>1, <2>2
  <1>6. Walk(page) \in Int
    <2>1. \A p \in UserPage : upte[p] \in Frame \union {None}
      BY DEF PInv, Types
    <2> QED
      BY <1>4, <1>5, <2>1 DEF KernelWalk, Frame
  <1>7. Types'
    BY <1>2, <1>3, <1>6 DEF PInv, Types
  <1>8. TlbInv'
    <2>1. \A p \in UserPage : Below(p)'
      BY <1>2 DEF PInv, TlbInv, Below
    <2>2. ASSUME NEW i \in TlbIndex, key'[i] # None
          PROVE  \/ key'[i] >= KOFFSET_PAGE /\ pte'[i] = KernelWalk(key'[i])
                 \/ key'[i] \in Frame /\ pte'[i] = key'[i]
                 \/ /\ cr3 = "ucr3" /\ key'[i] \in UserPage
                    /\ upte[key'[i]] # None /\ pte'[i] = upte[key'[i]]
      <3>1. key \in [TlbIndex -> AllPages \union {None}] /\ pte \in [TlbIndex -> Int]
        BY DEF PInv, Types
      <3>2. CASE i = victim
        <4>1. key'[i] = page /\ pte'[i] = Walk(page)
          BY <1>3, <3>1, <3>2
        <4> QED
          BY <1>5, <4>1
      <3>3. CASE i # victim
        <4>1. key'[i] = key[i] /\ pte'[i] = pte[i]
          BY <1>3, <3>1, <3>3
        <4> QED
          BY <2>2, <4>1 DEF PInv, TlbInv
      <3> QED
        BY <3>2, <3>3
    <2> QED
      BY <1>2, <2>1, <2>2 DEF TlbInv, Below, KernelWalk
  <1> QED
    BY <1>2, <1>7, <1>8 DEF PInv, BrkInv, FramesAreOwn

LEMMA SbrkKeeps ==
  ASSUME PInv, NEW incr \in Int, heap_end + incr >= EndOfImage, Sbrk(incr)
  PROVE  PInv'
  <1> DEFINE new_brk == heap_end + incr
  <1>1. /\ pc = "run" /\ pc' = "run" /\ brk' = new_brk /\ heap_end' = new_brk
        /\ IF new_brk > brk THEN MmMalloc(brk, new_brk - brk) ELSE UNCHANGED <<upte, pf_idx>>
        /\ ph' = ph /\ cr3' = cr3 /\ UNCHANGED <<cr3, tlb>>
    BY DEF Sbrk, MmBrk
  <1>2. Types /\ UserBase \in Nat
    BY ConstantFacts DEF PInv
  <1>3. new_brk \in Nat /\ new_brk >= UserBase
    <2>1. heap_end \in Nat /\ EndOfImage \in Nat /\ EndOfImage >= UserBase
      BY <1>2, SegmentFacts DEF Types
    <2> QED
      BY <1>2, <2>1
  <1> HIDE DEF new_brk
  <1>4. brk \in Nat /\ brk >= UserBase
    BY <1>1 DEF PInv, Types, BrkInv
  <1>5. /\ upte' \in [UserPage -> Frame \union {None}] /\ pf_idx' \in KMEM_FRAMES .. NR_FRAMES
        /\ TlbInv' /\ FramesAreOwn'
    <2>1. CASE new_brk > brk
      <3>1. new_brk - brk \in Nat /\ MmMalloc(brk, new_brk - brk)
        BY <1>1, <1>3, <1>4, <2>1
      <3> QED
        BY <1>1, <1>4, <3>1, MmMallocKeeps, GrowthKeeps
    <2>2. CASE ~(new_brk > brk)
      <3>1. upte' = upte /\ pf_idx' = pf_idx /\ cr3' = cr3 /\ key' = key /\ pte' = pte
        BY <1>1, <2>2 DEF tlb
      <3> QED
        BY <3>1 DEF PInv, Types, TlbInv, Below, KernelWalk, FramesAreOwn
    <2> QED
      BY <2>1, <2>2
  <1>6. Types'
    BY <1>1, <1>2, <1>3, <1>5 DEF Types, tlb
  <1> QED
    BY <1>1, <1>3, <1>5, <1>6 DEF PInv, BrkInv

LEMMA NextPInv == PInv /\ [Next]_vars => PInv'
  <1> SUFFICES ASSUME PInv, [Next]_vars PROVE PInv'
    OBVIOUS
  <1>1. CASE LoadSegment
    BY <1>1, LoadSegmentKeeps
  <1>2. CASE LoadStack
    BY <1>2, LoadStackKeeps
  <1>3. CASE CreateVideoMapping
    BY <1>3, CreateVideoMappingKeeps
  <1>4. CASE Switch
    BY <1>4, SwitchKeeps
  <1>5. CASE \E page \in AllPages : Access(page)
    BY <1>5, AccessKeeps
  <1>6. CASE \E incr \in 1 - PAGE_SIZE .. PAGE_SIZE + 1 : heap_end + incr >= EndOfImage /\ Sbrk(incr)
    BY <1>6, SbrkKeeps
  <1>7. CASE UNCHANGED vars
    <2>1. /\ upte' = upte /\ pf_idx' = pf_idx /\ cr3' = cr3 /\ key' = key /\ pte' = pte
          /\ ph' = ph /\ pc' = pc /\ brk' = brk /\ heap_end' = heap_end
      BY <1>7 DEF vars, tables, tlb
    <2> QED
      BY <2>1 DEF PInv, Types, BrkInv, TlbInv, Below, KernelWalk, FramesAreOwn
  <1> QED
    BY <1>1, <1>2, <1>3, <1>4, <1>5, <1>6, <1>7 DEF Next

LEMMA PInvOfTlb == PInv => TlbAgrees
  <1> SUFFICES ASSUME PInv, NEW i \in TlbIndex, key[i] # None, Walk(key[i]) # None
               PROVE  pte[i] = Walk(key[i])
    BY DEF TlbAgrees
  <1>1. /\ KOFFSET_PAGE \in Nat /\ NR_FRAMES \in Nat /\ StackPages \in Nat
        /\ NR_FRAMES <= KOFFSET_PAGE - StackPages
    BY ConstantFacts
  <1>2. \A p : p \in Frame => p \in UserPage /\ ~(p >= KOFFSET_PAGE) /\ p < NR_FRAMES
    BY <1>1 DEF Frame, UserPage
  <1>3. \A p : p \in UserPage => ~(p >= KOFFSET_PAGE)
    BY <1>1 DEF UserPage
  <1>4. CASE key[i] >= KOFFSET_PAGE /\ pte[i] = KernelWalk(key[i])
    BY <1>4 DEF Walk
  <1>5. CASE key[i] \in Frame /\ pte[i] = key[i]
    <2>1. upte[key[i]] \in {None, key[i]}
      BY <1>2, <1>5 DEF PInv, TlbInv, Below
    <2> QED
      BY <1>2, <1>5, <2>1 DEF Walk
  <1>6. CASE cr3 = "ucr3" /\ key[i] \in UserPage /\ pte[i] = upte[key[i]]
    BY <1>3, <1>6 DEF Walk
  <1> QED
    BY <1>4, <1>5, <1>6 DEF PInv, TlbInv

LEMMA PInvHolds == Spec => []PInv
  BY InitPInv, NextPInv, PTL DEF Spec

-----------------------------------------------------------------------------
(* The TLB never disagrees with the page tables about a page they map,     *)
(* though neither write_cr3() nor mm_malloc() flushes it (tlb.c:91).       *)
THEOREM TlbIsCurrent == Spec => []TlbAgrees
  BY PInvHolds, PInvOfTlb, PTL

(* The loader, the stack, the video mapping and the heap never give two    *)
(* pages one frame, nor the kernel's to any (mm.c:20, vmem.c:15).          *)
THEOREM FramesOwned == Spec => []FramesAreOwn
  <1>1. PInv => FramesAreOwn
    BY DEF PInv
  <1> QED
    BY <1>1, PInvHolds, PTL

-----------------------------------------------------------------------------
(* Addresses, pages and offsets.                                           *)

LEMMA DivisionFacts ==
  ASSUME NEW n \in Int, NEW d \in Nat \ {0}
  PROVE  n % d \in 0 .. d - 1 /\ n = d * (n \div d) + (n % d)
  BY SMTT(30)

LEMMA AddressFacts ==
  ASSUME NEW a \in Nat
  PROVE  /\ PageOf(a) \in Nat /\ Offset(a) \in Byte
         /\ a = PAGE_SIZE * PageOf(a) + Offset(a)
  <1>1. PAGE_SIZE \in Nat \ {0} /\ PageOf(a) \in Nat
    BY ConstantFacts, PageOfFacts
  <1>2. a % PAGE_SIZE \in 0 .. PAGE_SIZE - 1 /\ a = PAGE_SIZE * (a \div PAGE_SIZE) + (a % PAGE_SIZE)
    <2>1. a \in Int
      OBVIOUS
    <2> QED
      BY <1>1, <2>1, DivisionFacts, Zenon
  <1> QED
    BY <1>1, <1>2 DEF PageOf, Offset, Byte

LEMMA DivisionIsUnique ==
  ASSUME NEW d \in Nat \ {0}, NEW q \in Int, NEW r \in 0 .. d - 1
  PROVE  (d * q + r) \div d = q /\ (d * q + r) % d = r
  BY SMTT(30)

LEMMA AddressIsUnique ==
  ASSUME NEW q \in Nat, NEW r \in Byte
  PROVE  /\ PAGE_SIZE * q + r \in Nat
         /\ PageOf(PAGE_SIZE * q + r) = q /\ Offset(PAGE_SIZE * q + r) = r
  <1>1. PAGE_SIZE \in Nat \ {0} /\ r \in 0 .. PAGE_SIZE - 1
    BY ConstantFacts DEF Byte
  <1>2. PAGE_SIZE * q \in Nat
    BY <1>1
  <1>3. (PAGE_SIZE * q + r) \div PAGE_SIZE = q /\ (PAGE_SIZE * q + r) % PAGE_SIZE = r
    BY <1>1, DivisionIsUnique
  <1> QED
    BY <1>1, <1>2, <1>3 DEF PageOf, Offset

(* An address further on, in the same page or in the next one.             *)
LEMMA FurtherOn ==
  ASSUME NEW a \in Nat, NEW n \in Nat, n < PAGE_SIZE
  PROVE  /\ Offset(a) + n < PAGE_SIZE =>
              PageOf(a + n) = PageOf(a) /\ Offset(a + n) = Offset(a) + n
         /\ ~(Offset(a) + n < PAGE_SIZE) =>
              PageOf(a + n) = PageOf(a) + 1 /\ Offset(a + n) = Offset(a) + n - PAGE_SIZE
  <1> DEFINE q == PageOf(a)  r == Offset(a)
  <1>1. PAGE_SIZE \in Nat \ {0} /\ q \in Nat /\ r \in Byte /\ a = PAGE_SIZE * q + r
    BY ConstantFacts, AddressFacts
  <1> HIDE DEF q, r
  <1>2. r \in 0 .. PAGE_SIZE - 1
    BY <1>1 DEF Byte
  <1>3. CASE r + n < PAGE_SIZE
    <2>1. r + n \in Byte
      BY <1>1, <1>2, <1>3 DEF Byte
    <2>2. PAGE_SIZE * q \in Nat
      BY <1>1
    <2>3. a + n = PAGE_SIZE * q + (r + n)
      BY <1>1, <1>2, <2>2
    <2>5. PICK t \in Byte : t = r + n
      BY <2>1
    <2>6. PageOf(PAGE_SIZE * q + t) = q /\ Offset(PAGE_SIZE * q + t) = t
      BY <1>1, AddressIsUnique
    <2>4. PageOf(a + n) = q /\ Offset(a + n) = r + n
      BY <2>3, <2>5, <2>6
    <2> QED
      BY <1>3, <2>4 DEF q, r
  <1>4. CASE ~(r + n < PAGE_SIZE)
    <2>1. r + n - PAGE_SIZE \in Byte /\ q + 1 \in Nat
      BY <1>1, <1>2, <1>4 DEF Byte
    <2>2. PAGE_SIZE * q \in Nat /\ PAGE_SIZE * (q + 1) = PAGE_SIZE * q + PAGE_SIZE
      BY <1>1
    <2>3. a + n = PAGE_SIZE * (q + 1) + (r + n - PAGE_SIZE)
      BY <1>1, <1>2, <2>2
    <2>5. PICK p \in Nat, t \in Byte : p = q + 1 /\ t = r + n - PAGE_SIZE
      BY <2>1
    <2>6. PageOf(PAGE_SIZE * p + t) = p /\ Offset(PAGE_SIZE * p + t) = t
      BY AddressIsUnique
    <2>4. PageOf(a + n) = q + 1 /\ Offset(a + n) = r + n - PAGE_SIZE
      BY <2>3, <2>5, <2>6
    <2> QED
      BY <1>4, <2>4 DEF q, r
  <1> QED
    BY <1>3, <1>4 DEF q, r

LEMMA PagesInOrder ==
  ASSUME NEW a \in Nat, NEW b \in Nat, a <= b
  PROVE  PageOf(a) <= PageOf(b)
  <1> DEFINE p == PageOf(a)  q == PageOf(b)  r == Offset(a)  t == Offset(b)
  <1>1. /\ PAGE_SIZE \in Nat \ {0} /\ p \in Nat /\ q \in Nat
        /\ r \in 0 .. PAGE_SIZE - 1 /\ t \in 0 .. PAGE_SIZE - 1
        /\ a = PAGE_SIZE * p + r /\ b = PAGE_SIZE * q + t
    BY ConstantFacts, AddressFacts DEF Byte
  <1> HIDE DEF p, q, r, t
  <1>2. ASSUME q + 1 <= p PROVE FALSE
    <2>1. PAGE_SIZE * (q + 1) <= PAGE_SIZE * p
      BY <1>1, <1>2
    <2>2. PAGE_SIZE * (q + 1) = PAGE_SIZE * q + PAGE_SIZE /\ PAGE_SIZE * q \in Nat /\ PAGE_SIZE * p \in Nat
      BY <1>1
    <2> QED
      BY <1>1, <2>1, <2>2
  <1>3. p <= q
    BY <1>1, <1>2
  <1> QED
    BY <1>3 DEF p, q

-----------------------------------------------------------------------------
(* Accesses over the end of a page.                                        *)

(* What the TLB has of a mapped page is what the tables have.              *)
LEMMA TranslateFacts ==
  ASSUME PInv, NEW a \in Nat, PageOf(a) \in AllPages, Walk(PageOf(a)) # None
  PROVE  /\ Translate(a) = PAGE_SIZE * Walk(PageOf(a)) + Offset(a)
         /\ Walk(PageOf(a)) \in Nat /\ Translate(a) \in Nat
  <1> DEFINE page == PageOf(a)
  <1>1. KOFFSET_PAGE \in Nat /\ NR_FRAMES \in Nat /\ None \notin Nat /\ PAGE_SIZE \in Nat \ {0}
    BY ConstantFacts
  <1>2. page \in Nat /\ Offset(a) \in Byte
    BY AddressFacts
  <1>3. Walk(page) \in Nat
    <2>1. CASE page >= KOFFSET_PAGE
      BY <1>1, <1>2, <2>1 DEF Walk, KernelWalk
    <2>2. CASE ~(page >= KOFFSET_PAGE)
      <3>1. page \in UserPage
        BY <1>1, <1>2, <2>2 DEF UserPage
      <3>2. upte[page] \in Frame \union {None}
        BY <3>1 DEF PInv, Types
      <3>3. Walk(page) \in Frame
        BY <2>2, <3>2 DEF Walk
      <3> QED
        BY <1>1, <3>3 DEF Frame
    <2> QED
      BY <2>1, <2>2
  <1>4. ASSUME Hit(page) # {} PROVE pte[CHOOSE i \in Hit(page) : TRUE] = Walk(page)
    <2>1. PICK i \in TlbIndex : i = (CHOOSE j \in Hit(page) : TRUE) /\ key[i] = page
      BY <1>4 DEF Hit
    <2>2. key[i] # None
      BY <1>1, <1>2, <2>1
    <2> QED
      BY <2>1, <2>2, PInvOfTlb DEF TlbAgrees
  <1>5. (IF Hit(page) = {} THEN Walk(page) ELSE pte[CHOOSE i \in Hit(page) : TRUE]) = Walk(page)
    BY <1>4
  <1>6. Translate(a) = PAGE_SIZE * Walk(page) + Offset(a)
    BY <1>5 DEF Translate
  <1>7. Translate(a) \in Nat
    BY <1>2, <1>3, <1>6, AddressIsUnique
  <1> QED
    BY <1>3, <1>6, <1>7

LEMMA SequenceOf ==
  ASSUME NEW n \in Nat, NEW S, NEW f \in [1 .. n -> S]
  PROVE  f \in Seq(S) /\ Len(f) = n
  OBVIOUS

LEMMA PaddrsFacts ==
  ASSUME NEW paddr \in Nat, NEW n \in Nat
  PROVE  /\ Paddrs(paddr, n) \in Seq(Int) /\ Len(Paddrs(paddr, n)) = n
         /\ \A i \in 1 .. n : Paddrs(paddr, n)[i] = paddr + i - 1
  <1>1. Paddrs(paddr, n) \in [1 .. n -> Int]
    BY DEF Paddrs
  <1> QED
    BY <1>1, SequenceOf DEF Paddrs

LEMMA PInvOfAccesses == PInv => AccessesCrossPages
  <1> SUFFICES ASSUME PInv,
                      NEW addr \in 0 .. PAGE_SIZE * (KOFFSET_PAGE + NR_FRAMES) - 1,
                      NEW len \in 1 .. PAGE_SIZE,
                      \A page \in Spanned(addr, len) : page \in AllPages /\ Walk(page) # None
               PROVE  Laddrs(addr, len) = [i \in 1 .. len |-> Translate(addr + i - 1)]
    BY DEF AccessesCrossPages
  <1>1. /\ PAGE_SIZE \in Nat \ {0} /\ addr \in Nat /\ len \in Nat /\ 1 <= len /\ len <= PAGE_SIZE
    BY ConstantFacts
  <1> DEFINE q == PageOf(addr)  r == Offset(addr)
  <1>2. q \in Nat /\ r \in 0 .. PAGE_SIZE - 1
    BY <1>1, AddressFacts DEF Byte
  (* Every byte's page is mapped. *)
  <1>3. ASSUME NEW n \in 0 .. len - 1
        PROVE  /\ addr + n \in Nat
               /\ Translate(addr + n) = PAGE_SIZE * Walk(PageOf(addr + n)) + Offset(addr + n)
               /\ Walk(PageOf(addr + n)) \in Nat
    <2>1. addr + n \in Nat /\ addr + len - 1 \in Nat /\ addr <= addr + n /\ addr + n <= addr + len - 1
      BY <1>1
    <2>2. /\ PageOf(addr) <= PageOf(addr + n) /\ PageOf(addr + n) <= PageOf(addr + len - 1)
          /\ PageOf(addr) \in Nat /\ PageOf(addr + n) \in Nat /\ PageOf(addr + len - 1) \in Nat
      BY <1>1, <2>1, PagesInOrder, AddressFacts
    <2>3. PageOf(addr + n) \in Spanned(addr, len)
      BY <2>2 DEF Spanned
    <2> QED
      BY <2>1, <2>3, TranslateFacts
  (* In the first page they follow the first byte, in the next its first.  *)
  <1>4. ASSUME NEW n \in 0 .. len - 1, r + n < PAGE_SIZE
        PROVE  Translate(addr + n) = Translate(addr) + n
    <2>1. n \in Nat /\ n < PAGE_SIZE /\ 0 \in 0 .. len - 1 /\ addr + 0 = addr
      BY <1>1
    <2>2. PageOf(addr + n) = q /\ Offset(addr + n) = r + n
      BY <1>1, <1>4, <2>1, FurtherOn
    <2>3. Translate(addr) = PAGE_SIZE * Walk(q) + r /\ Walk(q) \in Nat
      BY <1>3, <2>1
    <2>4. Translate(addr + n) = PAGE_SIZE * Walk(q) + (r + n)
      BY <1>3, <2>2
    <2>5. PAGE_SIZE * Walk(q) \in Nat
      BY <1>1, <2>3
    <2> QED
      BY <1>2, <2>1, <2>3, <2>4, <2>5
  <1> DEFINE already == PAGE_SIZE - r
  <1>5. ASSUME NEW n \in 0 .. len - 1, ~(r + n < PAGE_SIZE)
        PROVE  Translate(addr + n) = Translate(addr + already) + (n - already)
    <2>1. /\ n \in Nat /\ n < PAGE_SIZE /\ already \in 0 .. len - 1
          /\ already \in Nat /\ already < PAGE_SIZE /\ ~(r + already < PAGE_SIZE)
      BY <1>1, <1>2, <1>5
    <2>2. PageOf(addr + n) = q + 1 /\ Offset(addr + n) = r + n - PAGE_SIZE
      BY <1>1, <1>5, <2>1, FurtherOn
    <2>3. PageOf(addr + already) = q + 1 /\ Offset(addr + already) = r + already - PAGE_SIZE
      BY <1>1, <2>1, FurtherOn
    <2> HIDE DEF already
    <2>4. /\ Translate(addr + already) = PAGE_SIZE * Walk(q + 1) + (r + already - PAGE_SIZE)
          /\ Walk(q + 1) \in Nat
      BY <1>3, <2>1, <2>3
    <2>5. Translate(addr + n) = PAGE_SIZE * Walk(q + 1) + (r + n - PAGE_SIZE)
      BY <1>3, <2>2
    <2>6. PAGE_SIZE * Walk(q + 1) \in Nat
      BY <1>1, <2>4
    <2> QED
      BY <1>1, <1>2, <2>1, <2>4, <2>5, <2>6
  <1>6. ASSUME NEW n \in 0 .. len - 1 PROVE Translate(addr + n) \in Nat
    <2>1. addr + n \in Nat /\ PageOf(addr + n) \in Nat /\ Offset(addr + n) \in Byte
      BY <1>3, AddressFacts
    <2> QED
      BY <1>3, <2>1, AddressIsUnique
  <1>7. \A i \in 1 .. len : i - 1 \in 0 .. len - 1 /\ addr + i - 1 = addr + (i - 1)
    BY <1>1
  <1>8. CASE r + len - PAGE_SIZE > 0
    <2>1. /\ already \in 1 .. len - 1 /\ len - already = r + len - PAGE_SIZE /\ len - already \in Nat
          /\ already = len - (r + len - PAGE_SIZE)
      BY <1>1, <1>2, <1>8
    <2> DEFINE left == len - already
               first == Paddrs(Translate(addr), already)
               rest  == Paddrs(Translate(addr + already), left)
    <2>2. Laddrs(addr, len) = first \o rest
      BY <1>8, <2>1 DEF Laddrs
    <2>3. Translate(addr) \in Nat /\ Translate(addr + already) \in Nat
      <3>1. 0 \in 0 .. len - 1 /\ addr + 0 = addr /\ already \in 0 .. len - 1
        BY <1>1, <2>1
      <3> HIDE DEF already
      <3> QED
        BY <1>6, <3>1
    <2>4. /\ first \in Seq(Int) /\ Len(first) = already
          /\ \A i \in 1 .. already : first[i] = Translate(addr) + i - 1
      <3>1. already \in Nat
        BY <2>1
      <3> HIDE DEF already
      <3> QED
        BY <2>3, <3>1, PaddrsFacts
    <2>5. /\ rest \in Seq(Int) /\ Len(rest) = left
          /\ \A i \in 1 .. left : rest[i] = Translate(addr + already) + i - 1
      <3>1. left \in Nat
        BY <2>1
      <3> HIDE DEF already, left
      <3> QED
        BY <2>3, <3>1, PaddrsFacts
    <2> DEFINE all == [i \in 1 .. len |-> Translate(addr + i - 1)]
    <2>6. all \in Seq(Int) /\ Len(all) = len
      <3>1. all \in [1 .. len -> Int]
        <4>1. \A i \in 1 .. len : Translate(addr + i - 1) \in Int
          BY <1>6, <1>7
        <4> QED
          BY <4>1
      <3> QED
        BY <1>1, <3>1, SequenceOf
    <2> HIDE DEF first, rest
    <2>7. /\ first \o rest \in Seq(Int) /\ Len(first \o rest) = len
          /\ \A i \in 1 .. len : (first \o rest)[i] = IF i <= already THEN first[i] ELSE rest[i - already]
      <3>1. Len(first) + Len(rest) = len
        BY <1>1, <2>1, <2>4, <2>5
      <3> QED
        BY <2>4, <2>5, <3>1, ConcatProperties
    <2>8. ASSUME NEW i \in 1 .. len PROVE (first \o rest)[i] = all[i]
      <3>1. all[i] = Translate(addr + (i - 1)) /\ i - 1 \in 0 .. len - 1
        BY <1>7
      <3>2. CASE i <= already
        <4>1. r + (i - 1) < PAGE_SIZE
          BY <1>1, <1>2, <3>2
        <4>2. all[i] = Translate(addr) + (i - 1)
          BY <1>4, <3>1, <4>1
        <4>3. first[i] = Translate(addr) + i - 1
          BY <1>1, <2>1, <2>4, <3>2
        <4> QED
          BY <1>1, <2>3, <2>7, <3>2, <4>2, <4>3
      <3>3. CASE ~(i <= already)
        <4>1. ~(r + (i - 1) < PAGE_SIZE) /\ i - already \in 1 .. left
          BY <1>1, <1>2, <2>1, <3>3
        <4>2. all[i] = Translate(addr + already) + ((i - 1) - already)
          BY <1>5, <3>1, <4>1
        <4>3. rest[i - already] = Translate(addr + already) + (i - already) - 1
          BY <2>5, <4>1
        <4>4. (first \o rest)[i] = rest[i - already]
          BY <2>7, <3>3
        <4>5. i \in Nat /\ already \in Nat
          BY <1>1, <2>1
        <4> HIDE DEF already
        <4> QED
          BY <2>3, <4>2, <4>3, <4>4, <4>5
      <3> QED
        BY <3>2, <3>3
    <2> HIDE DEF all
    <2>9. first \o rest = all
      BY <2>6, <2>7, <2>8, SeqEqual
    <2> QED
      BY <2>2, <2>9 DEF all
  <1>9. CASE ~(r + len - PAGE_SIZE > 0)
    <2>1. Laddrs(addr, len) = [i \in 1 .. len |-> Translate(addr) + i - 1]
      BY <1>9 DEF Laddrs, Paddrs
    <2>2. ASSUME NEW i \in 1 .. len
          PROVE  Translate(addr) + i - 1 = Translate(addr + i - 1)
      <3>1. i - 1 \in 0 .. len - 1 /\ addr + i - 1 = addr + (i - 1) /\ r + (i - 1) < PAGE_SIZE
        BY <1>1, <1>2, <1>9
      <3>2. Translate(addr + (i - 1)) = Translate(addr) + (i - 1)
        BY <1>4, <3>1
      <3>3. 0 \in 0 .. len - 1 /\ addr + 0 = addr
        BY <1>1
      <3>4. Translate(addr) \in Nat
        BY <1>6, <3>3
      <3> QED
        BY <1>1, <3>1, <3>2, <3>4
    <2> QED
      BY <2>1, <2>2
  <1> QED
    BY <1>8, <1>9

(* An access that runs over the end of a page touches the bytes of both:   *)
(* laddr_read() and laddr_write() split it where they should, whatever the *)
(* TLB holds (memory.c:75).                                                *)
THEOREM AccessesCross == Spec => []AccessesCrossPages
  BY PInvHolds, PInvOfAccesses, PTL

-----------------------------------------------------------------------------
(* The program as it is loaded.                                            *)

Bytes(s) == s.vaddr .. s.vaddr + s.memsz - 1

(* Where a byte is by the program's tables t.                              *)
Phys(t, addr) == PAGE_SIZE * t[PageOf(addr)] + Offset(addr)

(* What is loaded stays where it is.                                       *)
LoadedInv ==
  /\ DOMAIN mem = PAGE_SIZE * KMEM_FRAMES .. PAGE_SIZE * NR_FRAMES - 1
  /\ \A k \in 1 .. ph.next - 1 : \A addr \in Bytes(ph.segs[k]) :
       /\ upte[PageOf(addr)] # None
       /\ mem[Phys(upte, addr)] = Held(ph.segs[k], addr)
       /\ pc = "load" => addr <= brk

(* The loader goes upwards: the page it has come to has the last frame     *)
(* that mm_malloc() gave out, and no page above it has one. So the next    *)
(* segment's frames are consecutive, its first page shared or not.         *)
OrderInv ==
  pc = "load" =>
    IF ph.next = 1 THEN \A p \in UserPage : upte[p] = None
    ELSE /\ brk = ph.segs[ph.next - 1].vaddr + ph.segs[ph.next - 1].memsz - 1
         /\ upte[PageOf(brk)] = pf_idx - 1
         /\ \A p \in UserPage : p > PageOf(brk) => upte[p] = None

StackInv ==
  pc # "load" =>
    /\ ph.next = Len(ph.segs) + 1
    /\ \A p \in KOFFSET_PAGE - StackPages .. KOFFSET_PAGE - 1 : upte[p] # None

(* The kernel's break is the program's end of the heap, or one less before *)
(* the first sbrk().                                                       *)
HeapInv ==
  /\ pc = "load" /\ ph.next = 1 => brk = 0
  /\ pc \in {"video", "switch"} => brk = EndOfImage - 1
  /\ pc = "run" =>
       /\ cr3 = "ucr3" /\ heap_end \in {brk, brk + 1}
       /\ EndOfImage <= heap_end /\ heap_end <= PAGE_SIZE * KOFFSET_PAGE
       /\ \A addr \in EndOfImage .. heap_end - 1 : upte[PageOf(addr)] # None

SInv == LoadedInv /\ OrderInv /\ StackInv /\ HeapInv

LEMMA LayoutFacts ==
  ASSUME Types
  PROVE  \A k \in 1 .. Len(ph.segs) :
           /\ ph.segs[k].vaddr \in Nat /\ ph.segs[k].memsz \in Nat \ {0}
           /\ ph.segs[k].filesz \in Nat /\ ph.segs[k].filesz <= ph.segs[k].memsz
           /\ ph.segs[k].vaddr >= UserBase
           /\ ph.segs[k].vaddr + ph.segs[k].memsz <= PAGE_SIZE * (KOFFSET_PAGE - StackPages)
           /\ k < Len(ph.segs) =>
                ph.segs[k].vaddr + ph.segs[k].memsz <= ph.segs[k + 1].vaddr
  <1>1. ph.segs \in Programs
    BY DEF Types
  <1>2. ph.segs \in Seq(Segments)
    BY <1>1, PagingAssumption
  <1>3. \A k \in 1 .. Len(ph.segs) : ph.segs[k] \in Segments
    BY <1>2, ElementOfSeq
  <1>4. \A k \in 1 .. Len(ph.segs) :
           /\ ph.segs[k].filesz <= ph.segs[k].memsz
           /\ ph.segs[k].vaddr + ph.segs[k].memsz <= PAGE_SIZE * (KOFFSET_PAGE - StackPages)
           /\ k < Len(ph.segs) =>
                ph.segs[k].vaddr + ph.segs[k].memsz <= ph.segs[k + 1].vaddr
    BY <1>1, PagingAssumption
  <1> QED
    BY <1>3, <1>4, SegmentFacts DEF Segments

LEMMA PageBelow ==
  ASSUME NEW a \in Nat, NEW k \in Nat, a < PAGE_SIZE * k
  PROVE  PageOf(a) < k
  <1> DEFINE q == PageOf(a)  r == Offset(a)
  <1>1. PAGE_SIZE \in Nat \ {0} /\ q \in Nat /\ r \in Nat /\ a = PAGE_SIZE * q + r
    BY ConstantFacts, AddressFacts DEF Byte
  <1> HIDE DEF q, r
  <1>2. ASSUME k <= q PROVE FALSE
    <2>1. PAGE_SIZE * k <= PAGE_SIZE * q /\ PAGE_SIZE * k \in Nat /\ PAGE_SIZE * q \in Nat
      BY <1>1, <1>2
    <2> QED
      BY <1>1, <2>1
  <1>3. q < k
    BY <1>1, <1>2
  <1> QED
    BY <1>3 DEF q

(* Below the kernel's half an address is in a page of the program.         *)
LEMMA UserAddress ==
  ASSUME NEW a \in Nat, a < PAGE_SIZE * KOFFSET_PAGE
  PROVE  PageOf(a) \in UserPage
  BY PageBelow, AddressFacts, ConstantFacts DEF UserPage

LEMMA StackBelowKernel ==
  /\ PAGE_SIZE * (KOFFSET_PAGE - StackPages) \in Nat
  /\ PAGE_SIZE * (KOFFSET_PAGE - StackPages) + PAGE_SIZE * StackPages = PAGE_SIZE * KOFFSET_PAGE
  /\ PAGE_SIZE * (KOFFSET_PAGE - StackPages) <= PAGE_SIZE * KOFFSET_PAGE
  /\ PAGE_SIZE * (KOFFSET_PAGE - StackPages) >= UserBase
  <1>1. /\ PAGE_SIZE \in Nat \ {0} /\ KOFFSET_PAGE \in Nat /\ StackPages \in Nat
        /\ NR_FRAMES \in Nat /\ NR_FRAMES <= KOFFSET_PAGE - StackPages
    BY ConstantFacts
  <1>2. PICK n \in Nat : n = KOFFSET_PAGE - StackPages
    BY <1>1
  <1>3. KOFFSET_PAGE = n + StackPages /\ NR_FRAMES <= n
    BY <1>1, <1>2
  <1>4. /\ PAGE_SIZE * (n + StackPages) = PAGE_SIZE * n + PAGE_SIZE * StackPages
        /\ PAGE_SIZE * n \in Nat /\ PAGE_SIZE * StackPages \in Nat
        /\ NR_FRAMES * PAGE_SIZE <= PAGE_SIZE * n
    BY <1>1, <1>3
  <1> QED
    BY <1>2, <1>3, <1>4 DEF UserBase

(* Two addresses are in one byte of memory only if they are one.           *)
LEMMA PhysInjective ==
  ASSUME NEW t \in [UserPage -> Frame \union {None}],
         \A p, q \in UserPage : t[p] # None /\ t[p] = t[q] => p = q,
         NEW a \in Nat, NEW b \in Nat, PageOf(a) \in UserPage, PageOf(b) \in UserPage,
         t[PageOf(a)] # None, t[PageOf(b)] # None, Phys(t, a) = Phys(t, b)
  PROVE  a = b
  <1>1. PICK f \in Nat, g \in Nat : f = t[PageOf(a)] /\ g = t[PageOf(b)]
    BY ConstantFacts DEF Frame
  <1>2. PAGE_SIZE * f + Offset(a) = PAGE_SIZE * g + Offset(b)
    BY <1>1 DEF Phys
  <1>3. Offset(a) \in Byte /\ Offset(b) \in Byte
    BY AddressFacts
  <1>4. f = g /\ Offset(a) = Offset(b)
    <2>1. /\ PageOf(PAGE_SIZE * f + Offset(a)) = f /\ Offset(PAGE_SIZE * f + Offset(a)) = Offset(a)
      BY <1>3, AddressIsUnique
    <2>2. /\ PageOf(PAGE_SIZE * g + Offset(b)) = g /\ Offset(PAGE_SIZE * g + Offset(b)) = Offset(b)
      BY <1>3, AddressIsUnique
    <2> QED
      BY <1>2, <2>1, <2>2
  <1>5. PageOf(a) = PageOf(b)
    BY <1>1, <1>4
  <1> QED
    BY <1>4, <1>5, AddressFacts

(* mm_malloc() leaves no page of the range without a frame, and touches no *)
(* other.                                                                  *)
LEMMA MmMallocMaps ==
  ASSUME PInv, NEW va \in Nat, NEW len \in Nat \ {0}, MmMalloc(va, len), va >= UserBase,
         va + len <= PAGE_SIZE * KOFFSET_PAGE
  PROVE  /\ \A p \in Spanned(va, len) : p \in UserPage /\ upte'[p] # None
         /\ \A p \in UserPage : p \notin Spanned(va, len) => upte'[p] = upte[p]
         /\ \A addr \in va .. va + len - 1 : PageOf(addr) \in Spanned(va, len)
  <1>1. PAGE_SIZE * KOFFSET_PAGE \in Nat /\ KOFFSET_PAGE \in Nat
    BY ConstantFacts
  <1>2. va + len - 1 \in Nat /\ va <= va + len - 1 /\ va + len - 1 < PAGE_SIZE * KOFFSET_PAGE
    BY <1>1
  <1>3. /\ PageOf(va) \in Nat /\ PageOf(va + len - 1) \in UserPage
    BY <1>2, AddressFacts, UserAddress
  <1>4. \A p \in Spanned(va, len) : p \in UserPage
    BY <1>1, <1>3 DEF Spanned, UserPage
  <1>5. upte' = [p \in UserPage |-> IF p \in Fresh(va, len) THEN Given(va, len, p) ELSE upte[p]]
    BY DEF MmMalloc, Given
  <1>6. \A p \in Fresh(va, len) : Given(va, len, p) \in Nat
    <2>1. pf_idx \in Nat
      BY ConstantFacts DEF PInv, Types
    <2>2. pf_idx' \in pf_idx .. NR_FRAMES /\ \A p \in Fresh(va, len) : Given(va, len, p) \in pf_idx .. pf_idx' - 1
      BY GivenFacts DEF PInv
    <2>3. NR_FRAMES \in Nat /\ pf_idx' \in Nat
      BY <2>1, <2>2, ConstantFacts
    <2> QED
      BY <2>1, <2>2, <2>3
  <1>7. ASSUME NEW p \in Spanned(va, len) PROVE upte'[p] # None
    <2>1. CASE p \in Fresh(va, len)
      BY <1>4, <1>5, <1>6, <2>1, ConstantFacts
    <2>2. CASE p \notin Fresh(va, len)
      BY <1>4, <1>5, <2>2 DEF Fresh
    <2> QED
      BY <2>1, <2>2
  <1>8. \A p \in UserPage : p \notin Spanned(va, len) => upte'[p] = upte[p]
    BY <1>5 DEF Fresh
  <1>9. ASSUME NEW addr \in va .. va + len - 1 PROVE PageOf(addr) \in Spanned(va, len)
    <2>1. addr \in Nat /\ va <= addr /\ addr <= va + len - 1
      BY <1>2
    <2>2. /\ PageOf(va) <= PageOf(addr) /\ PageOf(addr) <= PageOf(va + len - 1)
          /\ PageOf(addr) \in Nat /\ PageOf(va + len - 1) \in Nat
      BY <1>2, <2>1, PagesInOrder, AddressFacts
    <2> QED
      BY <1>3, <2>2 DEF Spanned
  <1> QED
    BY <1>4, <1>7, <1>8, <1>9

(* Fresh pages that follow one another get frames that do.                 *)
LEMMA RunOfFrames ==
  ASSUME Types, NEW va \in Nat, NEW len \in Nat, MmMalloc(va, len),
         NEW a \in Nat, NEW b \in Nat, a <= b + 1, Fresh(va, len) = a .. b,
         a .. b \subseteq UserPage
  PROVE  /\ pf_idx' = pf_idx + (b + 1 - a)
         /\ \A p \in a .. b : upte'[p] = pf_idx + (p - a)
  <1>1. pf_idx' = pf_idx + Cardinality(a .. b)
    BY DEF MmMalloc
  <1>2. Cardinality(a .. b) = b + 1 - a
    BY FS_Interval
  <1>3. ASSUME NEW p \in a .. b PROVE upte'[p] = pf_idx + (p - a)
    <2>1. upte'[p] = pf_idx + Cardinality({x \in a .. b : x < p})
      BY DEF MmMalloc
    <2>2. {x \in a .. b : x < p} = a .. p - 1
      OBVIOUS
    <2>3. Cardinality(a .. p - 1) = p - a
      <3>1. PICK c \in Int : c = p - 1
        OBVIOUS
      <3>2. Cardinality(a .. c) = IF a > c THEN 0 ELSE c - a + 1
        BY FS_Interval
      <3>3. a <= p /\ p \in Int
        OBVIOUS
      <3>4. (IF a > c THEN 0 ELSE c - a + 1) = p - a
        BY <3>1, <3>3
      <3> QED
        BY <3>1, <3>2, <3>4
    <2> QED
      BY <2>1, <2>2, <2>3
  <1> QED
    BY <1>1, <1>2, <1>3

LEMMA OneBefore ==
  ASSUME Types
  PROVE  pf_idx - 1 \in Nat /\ pf_idx - 1 # None
  BY ConstantFacts DEF Types

(* A segment's frames follow one another, and the last one given out is in *)
(* its last page.                                                          *)
LEMMA SegmentFrames ==
  ASSUME PInv, SInv, LoadSegment, NEW v, NEW m,
         v = ph.segs[ph.next].vaddr, m = ph.segs[ph.next].memsz
  PROVE  /\ \A p \in Spanned(v, m) : upte'[p] = upte'[PageOf(v)] + (p - PageOf(v))
         /\ upte'[PageOf(v + m - 1)] = pf_idx' - 1
         /\ \A p \in UserPage : p > PageOf(v + m - 1) => upte'[p] = None
         /\ brk' = v + m - 1
         /\ \A k \in 1 .. ph.next - 1 : \A addr \in Bytes(ph.segs[k]) : addr < v
  <1>1. /\ pc = "load" /\ ph.next <= Len(ph.segs) /\ MmMalloc(v, m)
        /\ brk' = IF brk < v + m - 1 THEN v + m - 1 ELSE brk
    BY DEF LoadSegment
  <1>2. /\ Types /\ Len(ph.segs) \in Nat /\ ph.next \in Nat \ {0} /\ brk \in Nat
        /\ pf_idx \in Nat
    BY SegmentFacts, ConstantFacts DEF PInv, Types
  <1>3. ph.next \in 1 .. Len(ph.segs)
    BY <1>1, <1>2
  <1>4. /\ v \in Nat /\ m \in Nat \ {0} /\ v >= UserBase
        /\ v + m <= PAGE_SIZE * (KOFFSET_PAGE - StackPages)
    BY <1>2, <1>3, LayoutFacts
  <1>5. /\ v + m <= PAGE_SIZE * KOFFSET_PAGE /\ KOFFSET_PAGE \in Nat
        /\ PAGE_SIZE * KOFFSET_PAGE \in Nat
    BY <1>4, StackBelowKernel, ConstantFacts
  <1>6. PICK z \in Nat : z = v + m - 1
    BY <1>4
  <1>7. PICK a \in Nat, b \in Nat : a = PageOf(v) /\ b = PageOf(z)
    BY <1>4, <1>6, AddressFacts
  <1>8. a <= b /\ b \in UserPage /\ b < KOFFSET_PAGE
    <2>1. v <= z /\ z < PAGE_SIZE * KOFFSET_PAGE
      BY <1>4, <1>5, <1>6
    <2>2. PageOf(z) \in UserPage
      BY <1>6, <2>1, UserAddress
    <2> QED
      BY <1>4, <1>5, <1>6, <1>7, <2>1, <2>2, PagesInOrder DEF UserPage
  <1>9. a .. b \subseteq UserPage /\ Spanned(v, m) = a .. b
    BY <1>5, <1>6, <1>7, <1>8 DEF UserPage, Spanned
  <1>10. Fresh(v, m) = {p \in a .. b : upte[p] = None}
    BY <1>9 DEF Fresh
  <1>11. \A p \in UserPage : p > b => upte'[p] = upte[p]
    <2>1. \A p \in UserPage : p > b => p \notin Fresh(v, m)
      BY <1>7, <1>10
    <2> QED
      BY <1>1, <2>1 DEF MmMalloc
  <1>14. ASSUME NEW d \in Nat, d <= b + 1, d .. b \subseteq UserPage, Fresh(v, m) = d .. b
         PROVE  /\ pf_idx' = pf_idx + (b + 1 - d)
                /\ \A p \in d .. b : upte'[p] = pf_idx + (p - d)
    <2>1. Types /\ v \in Nat /\ m \in Nat /\ MmMalloc(v, m)
      BY <1>1, <1>2, <1>4
    <2> QED
      BY <1>14, <2>1, RunOfFrames
  <1>12. CASE ph.next = 1
    <2>1. brk = 0 /\ \A p \in UserPage : upte[p] = None
      BY <1>1, <1>12 DEF SInv, OrderInv, HeapInv
    <2>2. Fresh(v, m) = a .. b
      BY <1>9, <1>10, <2>1
    <2>3. /\ pf_idx' = pf_idx + (b + 1 - a)
          /\ \A p \in a .. b : upte'[p] = pf_idx + (p - a)
      BY <1>7, <1>8, <1>9, <1>14, <2>2
    <2>4. /\ \A p \in a .. b : upte'[p] = upte'[a] + (p - a)
          /\ upte'[b] = pf_idx' - 1
      <3>1. a \in a .. b /\ b \in a .. b
        BY <1>7, <1>8
      <3>2. upte'[a] = pf_idx /\ upte'[b] = pf_idx + (b - a)
        BY <1>2, <1>7, <2>3, <3>1
      <3> QED
        BY <1>2, <1>7, <2>3, <3>2
    <2>5. \A p \in UserPage : p > b => upte'[p] = None
      BY <1>11, <2>1
    <2>6. brk' = z
      BY <1>1, <1>4, <1>6, <2>1
    <2>7. 1 .. ph.next - 1 = {}
      BY <1>12
    <2> QED
      BY <1>6, <1>7, <1>9, <2>4, <2>5, <2>6, <2>7
  <1>13. CASE ph.next # 1
    <2>1. PICK l \in Nat : l = ph.next - 1
      BY <1>2
    <2>2. l \in 1 .. Len(ph.segs) /\ l < Len(ph.segs) /\ ph.next = l + 1
      BY <1>2, <1>3, <1>13, <2>1
    <2>3. /\ brk = ph.segs[l].vaddr + ph.segs[l].memsz - 1
          /\ upte[PageOf(brk)] = pf_idx - 1
          /\ \A p \in UserPage : p > PageOf(brk) => upte[p] = None
      BY <1>1, <1>13, <2>1 DEF SInv, OrderInv
    <2>4. brk < v
      <3>1. /\ ph.segs[l].vaddr \in Nat /\ ph.segs[l].memsz \in Nat
            /\ ph.segs[l].vaddr + ph.segs[l].memsz <= v
        BY <1>2, <2>2, LayoutFacts
      <3> QED
        BY <1>4, <2>3, <3>1
    <2>5. PICK c \in Nat : c = PageOf(brk)
      BY <1>2, AddressFacts
    <2>6. c <= a
      BY <1>2, <1>4, <1>7, <2>4, <2>5, PagesInOrder
    <2>7. \A p \in UserPage : p > b => upte'[p] = None
      <3>1. \A p \in UserPage : p > b => p > c
        BY <1>7, <1>8, <2>5, <2>6 DEF UserPage
      <3> QED
        BY <1>11, <2>3, <2>5, <3>1
    <2>8. brk' = z
      BY <1>1, <1>2, <1>4, <1>6, <2>4
    <2>9. \A k \in 1 .. ph.next - 1 : \A addr \in Bytes(ph.segs[k]) : addr < v
      <3>1. SUFFICES ASSUME NEW k \in 1 .. ph.next - 1, NEW addr \in Bytes(ph.segs[k])
                     PROVE  addr < v
        OBVIOUS
      <3>2. addr <= brk
        BY <1>1, <3>1 DEF SInv, LoadedInv
      <3>3. addr \in Int
        <4>1. k \in 1 .. Len(ph.segs)
          BY <1>2, <1>3
        <4>2. ph.segs[k].vaddr \in Nat /\ ph.segs[k].memsz \in Nat
          BY <1>2, <4>1, LayoutFacts
        <4> QED
          BY <4>2 DEF Bytes
      <3> QED
        BY <1>2, <1>4, <2>4, <3>2, <3>3
    <2>10. CASE c < a
      <3>1. \A p \in a .. b : p \in UserPage /\ p > c
        BY <1>7, <1>9, <2>5, <2>10
      <3>2. Fresh(v, m) = a .. b
        BY <1>10, <2>3, <2>5, <3>1
      <3>3. /\ pf_idx' = pf_idx + (b + 1 - a)
            /\ \A p \in a .. b : upte'[p] = pf_idx + (p - a)
        BY <1>7, <1>8, <1>9, <1>14, <3>2
      <3>4. a \in a .. b /\ b \in a .. b
        BY <1>7, <1>8
      <3>5. upte'[a] = pf_idx /\ upte'[b] = pf_idx + (b - a)
        <4>1. upte'[a] = pf_idx + (a - a) /\ upte'[b] = pf_idx + (b - a)
          BY <3>3, <3>4
        <4> QED
          BY <1>2, <1>7, <4>1
      <3>6. /\ \A p \in a .. b : upte'[p] = upte'[a] + (p - a)
            /\ upte'[b] = pf_idx' - 1
        BY <1>2, <1>7, <3>3, <3>5
      <3> QED
        BY <1>6, <1>7, <1>9, <2>7, <2>8, <2>9, <3>6
    <2>11. CASE c = a
      <3>1. upte[a] = pf_idx - 1 /\ upte[a] # None
        BY <1>2, <2>3, <2>5, <2>11, OneBefore DEF PInv
      <3>2. PICK d \in Nat : d = a + 1
        BY <1>7
      <3>3. \A p \in a .. b : p # a => p \in UserPage /\ p > c /\ p \in d .. b
        BY <1>7, <1>9, <2>5, <2>11, <3>2
      <3>4. Fresh(v, m) = d .. b
        <4>1. \A p \in d .. b : p \in a .. b /\ p # a
          BY <1>7, <3>2
        <4> QED
          BY <1>10, <2>3, <2>5, <3>1, <3>3, <4>1
      <3>5. /\ pf_idx' = pf_idx + (b + 1 - d)
            /\ \A p \in d .. b : upte'[p] = pf_idx + (p - d)
        <4>1. d <= b + 1 /\ d .. b \subseteq UserPage
          BY <1>7, <1>8, <1>9, <3>2
        <4> QED
          BY <1>14, <3>2, <3>4, <4>1
      <3>6. upte'[a] = pf_idx - 1
        <4>1. a \notin Fresh(v, m) /\ a \in UserPage
          BY <1>7, <1>8, <1>9, <3>2, <3>4
        <4> QED
          BY <1>1, <3>1, <4>1 DEF MmMalloc
      <3>7. \A p \in a .. b : upte'[p] = upte'[a] + (p - a)
        <4>1. SUFFICES ASSUME NEW p \in a .. b PROVE upte'[p] = upte'[a] + (p - a)
          OBVIOUS
        <4>2. CASE p = a
          BY <1>2, <1>7, <3>6, <4>2
        <4>3. CASE p # a
          BY <1>2, <1>7, <3>2, <3>3, <3>5, <3>6, <4>3
        <4> QED
          BY <4>2, <4>3
      <3>8. upte'[b] = pf_idx' - 1
        <4>1. b \in a .. b
          BY <1>7, <1>8
        <4>2. upte'[b] = upte'[a] + (b - a)
          BY <3>7, <4>1
        <4>3. upte'[b] = pf_idx - 1 + (b - a)
          BY <3>6, <4>2
        <4>4. pf_idx' = pf_idx + (b + 1 - d)
          BY <3>5
        <4>5. pf_idx \in Nat /\ a \in Nat /\ b \in Nat /\ d = a + 1
          BY <1>2, <3>2
        <4>6. PICK i \in Int : i = pf_idx'
          BY <4>4, <4>5
        <4>7. i - 1 = pf_idx - 1 + (b - a)
          BY <4>4, <4>5, <4>6
        <4> QED
          BY <4>3, <4>6, <4>7
      <3> QED
        BY <1>6, <1>7, <1>9, <2>7, <2>8, <2>9, <3>7, <3>8
    <2> QED
      BY <1>7, <2>5, <2>6, <2>10, <2>11
  <1> QED
    BY <1>12, <1>13

(* The bytes of a segment are the program's own.                           *)
LEMMA BytesFacts ==
  ASSUME Types, NEW k \in 1 .. Len(ph.segs), NEW addr \in Bytes(ph.segs[k])
  PROVE  /\ addr \in Nat /\ addr < PAGE_SIZE * KOFFSET_PAGE
         /\ PageOf(addr) \in UserPage /\ PageOf(addr) >= NR_FRAMES
  <1>1. PICK v \in Nat, m \in Nat \ {0} :
           /\ v = ph.segs[k].vaddr /\ m = ph.segs[k].memsz /\ v >= UserBase
           /\ v + m <= PAGE_SIZE * (KOFFSET_PAGE - StackPages)
    BY LayoutFacts
  <1>2. addr \in Nat /\ addr >= v /\ addr <= v + m - 1
    BY <1>1 DEF Bytes
  <1>3. /\ PAGE_SIZE * KOFFSET_PAGE \in Nat /\ UserBase \in Nat
        /\ PAGE_SIZE * (KOFFSET_PAGE - StackPages) \in Nat
        /\ PAGE_SIZE * (KOFFSET_PAGE - StackPages) <= PAGE_SIZE * KOFFSET_PAGE
    BY ConstantFacts, StackBelowKernel
  <1>4. addr < PAGE_SIZE * KOFFSET_PAGE /\ addr >= UserBase
    <2>1. PICK x \in Nat, y \in Nat, u \in Nat :
             /\ x = PAGE_SIZE * (KOFFSET_PAGE - StackPages) /\ y = PAGE_SIZE * KOFFSET_PAGE
             /\ u = UserBase
      BY <1>3
    <2>2. v + m <= x /\ x <= y /\ v >= u
      BY <1>1, <1>3, <2>1
    <2>3. addr < y /\ addr >= u
      BY <1>2, <2>2
    <2> QED
      BY <2>1, <2>3
  <1> QED
    BY <1>2, <1>4, UserAddress, PageOfFacts

(* A byte of the program's own pages is in memory that mm_malloc() gives.  *)
LEMMA PhysInMemory ==
  ASSUME NEW f \in Nat, NEW o \in Byte, KMEM_FRAMES <= f, f < NR_FRAMES
  PROVE  PAGE_SIZE * f + o \in PAGE_SIZE * KMEM_FRAMES .. PAGE_SIZE * NR_FRAMES - 1
  <1>1. PICK P \in Nat \ {0}, K \in Nat, N \in Nat :
           P = PAGE_SIZE /\ K = KMEM_FRAMES /\ N = NR_FRAMES
    BY ConstantFacts
  <1>2. o \in Nat /\ o < P
    BY <1>1 DEF Byte
  <1>3. /\ P * K \in Nat /\ P * f \in Nat /\ P * N \in Nat
        /\ P * K <= P * f /\ P * f + P <= P * N
    <2>1. PICK g \in Nat, h \in Nat : N = f + 1 + g /\ f = K + h
      <3>1. N - f - 1 \in Nat /\ f - K \in Nat
        <4>1. K <= f /\ f < N /\ K \in Nat /\ N \in Nat /\ f \in Nat
          BY <1>1
        <4> QED
          BY <4>1
      <3>2. N = f + 1 + (N - f - 1) /\ f = K + (f - K)
        BY <1>1
      <3> QED
        BY <3>1, <3>2
    <2>2. /\ P * (f + 1 + g) = P * f + P + P * g /\ P * (K + h) = P * K + P * h
          /\ P * f \in Nat /\ P * g \in Nat /\ P * K \in Nat /\ P * h \in Nat
      BY <1>1
    <2> QED
      BY <1>1, <2>1, <2>2
  <1> QED
    BY <1>1, <1>2, <1>3

(* What changes neither the file's bytes nor the program's own pages leaves*)
(* the program loaded.                                                     *)
LEMMA LoadedStays ==
  ASSUME PInv, SInv, mem' = mem, ph' = ph, pc' = "load" => pc = "load" /\ brk' = brk,
         \A p \in UserPage : p >= NR_FRAMES /\ upte[p] # None => upte'[p] = upte[p]
  PROVE  LoadedInv'
  <1>1. Types /\ ph.next \in Nat \ {0} /\ Len(ph.segs) \in Nat /\ ph.next <= Len(ph.segs) + 1
    BY SegmentFacts DEF PInv, Types
  <1>2. DOMAIN mem' = PAGE_SIZE * KMEM_FRAMES .. PAGE_SIZE * NR_FRAMES - 1
    BY DEF SInv, LoadedInv
  <1>3. ASSUME NEW k \in 1 .. ph.next - 1, NEW addr \in Bytes(ph.segs[k])
        PROVE  /\ upte'[PageOf(addr)] # None
               /\ mem'[Phys(upte', addr)] = Held(ph.segs[k], addr)
               /\ pc' = "load" => addr <= brk'
    <2>1. k \in 1 .. Len(ph.segs)
      BY <1>1
    <2>2. PageOf(addr) \in UserPage /\ PageOf(addr) >= NR_FRAMES
      BY <1>1, <2>1, BytesFacts
    <2>3. /\ upte[PageOf(addr)] # None
          /\ mem[Phys(upte, addr)] = Held(ph.segs[k], addr)
          /\ pc = "load" => addr <= brk
      BY DEF SInv, LoadedInv
    <2>4. upte'[PageOf(addr)] = upte[PageOf(addr)]
      BY <2>2, <2>3
    <2> QED
      BY <2>3, <2>4 DEF Phys
  <1> QED
    BY <1>2, <1>3 DEF LoadedInv

(* From the first byte of a segment on, its bytes are one after another.   *)
LEMMA SegmentBytes ==
  ASSUME PInv, SInv, LoadSegment, NEW v, NEW m,
         v = ph.segs[ph.next].vaddr, m = ph.segs[ph.next].memsz
  PROVE  /\ Phys(upte', v) \in Nat
         /\ \A addr \in v .. v + m - 1 :
              /\ addr \in Nat /\ PageOf(addr) \in UserPage /\ PageOf(addr) >= NR_FRAMES
              /\ upte'[PageOf(addr)] # None
              /\ Phys(upte', addr) = Phys(upte', v) + (addr - v)
  <1>1. ph.next \in 1 .. Len(ph.segs) /\ Types /\ MmMalloc(v, m)
    BY SegmentFacts DEF PInv, LoadSegment
  <1>2. /\ v \in Nat /\ m \in Nat \ {0} /\ v >= UserBase
        /\ v + m <= PAGE_SIZE * KOFFSET_PAGE
    <2>1. /\ v \in Nat /\ m \in Nat \ {0} /\ v >= UserBase
          /\ v + m <= PAGE_SIZE * (KOFFSET_PAGE - StackPages)
      BY <1>1, LayoutFacts
    <2>2. PICK x \in Nat, y \in Nat :
             x = PAGE_SIZE * (KOFFSET_PAGE - StackPages) /\ y = PAGE_SIZE * KOFFSET_PAGE
      BY StackBelowKernel, ConstantFacts
    <2>3. x <= y
      BY <2>2, StackBelowKernel
    <2> QED
      BY <2>1, <2>2, <2>3
  <1>3. /\ \A p \in Spanned(v, m) : p \in UserPage /\ upte'[p] # None
        /\ \A addr \in v .. v + m - 1 : PageOf(addr) \in Spanned(v, m)
    BY <1>1, <1>2, MmMallocMaps
  <1>4. upte' \in [UserPage -> Frame \union {None}]
    BY <1>1, <1>2, MmMallocKeeps
  <1>5. \A p \in Spanned(v, m) : upte'[p] = upte'[PageOf(v)] + (p - PageOf(v))
    BY SegmentFrames
  <1>6. PICK P \in Nat \ {0}, f \in Nat, q \in Nat, o \in Nat :
           /\ P = PAGE_SIZE /\ f = upte'[PageOf(v)] /\ q = PageOf(v) /\ o = Offset(v)
           /\ v = P * q + o
    <2>1. v \in v .. v + m - 1
      BY <1>2
    <2>2. upte'[PageOf(v)] \in Nat
      BY <1>3, <1>4, <2>1, ConstantFacts DEF Frame
    <2>3. /\ PAGE_SIZE \in Nat \ {0} /\ Offset(v) \in Byte /\ PageOf(v) \in Nat
          /\ v = PAGE_SIZE * PageOf(v) + Offset(v)
      <3>1. v \in Nat
        BY <1>2
      <3> QED
        BY <3>1, AddressFacts, ConstantFacts
    <2>4. Offset(v) \in Nat
      BY <2>3 DEF Byte
    <2> QED
      BY <2>2, <2>3, <2>4
  <1>7. Phys(upte', v) = P * f + o /\ P * f \in Nat /\ P * q \in Nat
    BY <1>6 DEF Phys
  <1>8. ASSUME NEW addr \in v .. v + m - 1
        PROVE  /\ addr \in Nat /\ PageOf(addr) \in UserPage /\ PageOf(addr) >= NR_FRAMES
               /\ upte'[PageOf(addr)] # None
               /\ Phys(upte', addr) = Phys(upte', v) + (addr - v)
    <2>1. addr \in Nat /\ addr >= v /\ PageOf(addr) \in Spanned(v, m)
      BY <1>2, <1>3
    <2>2. PageOf(addr) >= NR_FRAMES
      <3>1. addr >= UserBase
        BY <1>2, <2>1, ConstantFacts
      <3> QED
        BY <2>1, <3>1, PageOfFacts
    <2>3. PICK r \in Nat, t \in Nat : r = PageOf(addr) /\ t = Offset(addr) /\ addr = P * r + t
      <3>1. PageOf(addr) \in Nat /\ Offset(addr) \in Nat
        BY <2>1, AddressFacts, ConstantFacts DEF Byte
      <3> QED
        BY <1>6, <2>1, <3>1, AddressFacts
    <2>4. q <= r
      BY <1>2, <1>6, <2>1, <2>3, PagesInOrder
    <2>5. PICK n \in Nat : r = q + n
      <3>1. r - q \in Nat /\ r = q + (r - q)
        BY <2>4
      <3> QED
        BY <3>1
    <2>6. upte'[PageOf(addr)] = f + n
      <3>1. upte'[PageOf(addr)] = f + (r - q)
        BY <1>5, <1>6, <2>1, <2>3
      <3> QED
        BY <2>5, <3>1
    <2>7. /\ P * (f + n) = P * f + P * n /\ P * (q + n) = P * q + P * n
          /\ P * n \in Nat
      BY <1>6
    <2>8. Phys(upte', addr) = P * f + P * n + t
      BY <1>6, <2>3, <2>6, <2>7 DEF Phys
    <2>9. P * f + P * n + t = (P * f + o) + (addr - v)
      <3>1. addr = P * q + P * n + t
        BY <2>3, <2>5, <2>7
      <3>2. PICK x \in Nat, y \in Nat, z \in Nat : x = P * f /\ y = P * q /\ z = P * n
        BY <1>7, <2>7
      <3>3. addr = y + z + t /\ v = y + o
        BY <1>6, <3>1, <3>2
      <3>4. x + z + t = (x + o) + (addr - v)
        BY <3>3
      <3> QED
        BY <3>2, <3>4
    <2> QED
      BY <1>3, <1>7, <2>1, <2>2, <2>8, <2>9
  <1> QED
    BY <1>7, <1>8

LEMMA LoadSegmentLoads == PInv /\ SInv /\ LoadSegment => LoadedInv'
  <1> SUFFICES ASSUME PInv, SInv, LoadSegment PROVE LoadedInv'
    OBVIOUS
  <1>1. PICK v, m, filesz :
           /\ v = ph.segs[ph.next].vaddr /\ m = ph.segs[ph.next].memsz
           /\ filesz = ph.segs[ph.next].filesz
    OBVIOUS
  <1>2. /\ Types /\ ph.next \in 1 .. Len(ph.segs) /\ Len(ph.segs) \in Nat
        /\ pc = "load" /\ pc' = pc /\ MmMalloc(v, m)
        /\ ph'.segs = ph.segs /\ ph'.next = ph.next + 1
    BY <1>1, SegmentFacts DEF PInv, Types, LoadSegment
  <1>3. v \in Nat /\ m \in Nat \ {0} /\ filesz \in Nat /\ filesz <= m /\ v >= UserBase
    BY <1>1, <1>2, LayoutFacts
  <1>4. PICK paddr \in Nat : paddr = Phys(upte', v)
    BY <1>1, SegmentBytes
  <1>5. \A addr \in v .. v + m - 1 :
           /\ addr \in Nat /\ PageOf(addr) \in UserPage /\ PageOf(addr) >= NR_FRAMES
           /\ upte'[PageOf(addr)] # None
           /\ Phys(upte', addr) = paddr + (addr - v)
    BY <1>1, <1>4, SegmentBytes
  <1>6. mem' = [a \in DOMAIN mem |->
          IF a \in paddr .. paddr + filesz - 1 THEN v + (a - paddr)
          ELSE IF a \in paddr + filesz .. paddr + m - 1 THEN Zero ELSE mem[a]]
    BY <1>1, <1>4 DEF LoadSegment, Phys
  <1>7. DOMAIN mem' = PAGE_SIZE * KMEM_FRAMES .. PAGE_SIZE * NR_FRAMES - 1 /\ DOMAIN mem' = DOMAIN mem
    BY <1>6 DEF SInv, LoadedInv
  <1>8. /\ brk' = v + m - 1
        /\ \A k \in 1 .. ph.next - 1 : \A addr \in Bytes(ph.segs[k]) : addr < v
    BY <1>1, SegmentFrames
  <1>9. /\ upte' \in [UserPage -> Frame \union {None}]
        /\ \A p \in UserPage : upte[p] # None => upte'[p] = upte[p]
        /\ \A p, q \in UserPage : upte'[p] # None =>
              /\ upte'[p] = upte'[q] => p = q
              /\ upte'[p] < KMEM_FRAMES => p \in VideoPages
    BY <1>2, <1>3, MmMallocKeeps DEF FramesAreOwn
  <1>10. ASSUME NEW addr \in Nat, PageOf(addr) \in UserPage, PageOf(addr) >= NR_FRAMES,
                upte'[PageOf(addr)] # None
         PROVE  Phys(upte', addr) \in DOMAIN mem
    <2>1. PICK f \in Nat : f = upte'[PageOf(addr)] /\ f < NR_FRAMES
      BY <1>9, <1>10, ConstantFacts DEF Frame
    <2>2. KMEM_FRAMES <= f
      <3>1. PageOf(addr) \notin VideoPages
        <4>1. PICK pg \in Nat : pg = PageOf(addr)
          BY AddressFacts
        <4>2. /\ NR_PTE \in Nat /\ NR_FRAMES \in Nat /\ NR_PTE <= NR_FRAMES
              /\ \A p \in VideoPages : p < NR_PTE
          BY PagingAssumption
        <4> QED
          BY <1>10, <4>1, <4>2
      <3> QED
        BY <1>9, <1>10, <2>1, <3>1, ConstantFacts
    <2>3. Phys(upte', addr) = PAGE_SIZE * f + Offset(addr) /\ Offset(addr) \in Byte
      BY <1>10, <2>1, AddressFacts DEF Phys
    <2> QED
      BY <1>7, <2>1, <2>2, <2>3, PhysInMemory
  <1>11. ASSUME NEW addr \in v .. v + m - 1
         PROVE  /\ mem'[Phys(upte', addr)] = Held(ph.segs[ph.next], addr)
                /\ addr <= brk'
    <2>1. addr \in Nat /\ v <= addr /\ addr <= v + m - 1
      BY <1>3
    <2>2. PICK a \in Nat : a = Phys(upte', addr) /\ a = paddr + (addr - v) /\ a \in DOMAIN mem
      <3>1. paddr + (addr - v) \in Nat
        BY <2>1, <1>3
      <3>2. Phys(upte', addr) \in DOMAIN mem
        BY <1>5, <1>10
      <3> QED
        BY <1>5, <3>1, <3>2
    <2>3. CASE addr < v + filesz
      <3>1. a \in paddr .. paddr + filesz - 1 /\ v + (a - paddr) = addr
        BY <1>3, <2>1, <2>2, <2>3
      <3>2. mem'[a] = addr
        BY <1>6, <2>2, <3>1
      <3> QED
        BY <1>1, <1>8, <2>1, <2>2, <2>3, <3>2 DEF Held
    <2>4. CASE ~(addr < v + filesz)
      <3>1. a \notin paddr .. paddr + filesz - 1 /\ a \in paddr + filesz .. paddr + m - 1
        BY <1>3, <2>1, <2>2, <2>4
      <3>2. mem'[a] = Zero
        BY <1>6, <2>2, <3>1
      <3> QED
        BY <1>1, <1>8, <2>1, <2>2, <2>4, <3>2 DEF Held
    <2> QED
      BY <2>3, <2>4
  <1>12. ASSUME NEW k \in 1 .. ph.next - 1, NEW addr \in Bytes(ph.segs[k])
         PROVE  /\ upte'[PageOf(addr)] # None
                /\ mem'[Phys(upte', addr)] = Held(ph.segs[k], addr)
                /\ addr <= brk'
    <2>1. k \in 1 .. Len(ph.segs)
      BY <1>2
    <2>2. addr \in Nat /\ PageOf(addr) \in UserPage /\ PageOf(addr) >= NR_FRAMES
      BY <1>2, <2>1, BytesFacts
    <2>3. upte[PageOf(addr)] # None /\ mem[Phys(upte, addr)] = Held(ph.segs[k], addr)
      BY DEF SInv, LoadedInv
    <2>4. upte'[PageOf(addr)] # None /\ Phys(upte', addr) = Phys(upte, addr)
      BY <1>9, <2>2, <2>3 DEF Phys
    <2>5. addr < v
      BY <1>8
    <2>6. PICK a : a = Phys(upte', addr) /\ a \in DOMAIN mem
      BY <1>10, <2>2, <2>4
    <2>7. ASSUME a \in paddr .. paddr + m - 1 PROVE FALSE
      <3>1. PICK b \in Int : b = v + (a - paddr)
        BY <1>3, <2>7
      <3>2. b \in v .. v + m - 1 /\ paddr + (b - v) = a
        BY <1>3, <2>7, <3>1
      <3>3. Phys(upte', b) = Phys(upte', addr) /\ b \in Nat /\ PageOf(b) \in UserPage
            /\ upte'[PageOf(b)] # None
        BY <1>5, <2>6, <3>2
      <3>4. b = addr
        BY <1>9, <2>2, <2>4, <3>3, PhysInjective
      <3> QED
        BY <1>3, <2>2, <2>5, <3>2, <3>4
    <2>8. a \notin paddr .. paddr + filesz - 1 /\ a \notin paddr + filesz .. paddr + m - 1
      <3>1. /\ paddr .. paddr + filesz - 1 \subseteq paddr .. paddr + m - 1
            /\ paddr + filesz .. paddr + m - 1 \subseteq paddr .. paddr + m - 1
        BY <1>3
      <3> QED
        BY <2>7, <3>1
    <2>9. mem'[a] = mem[a]
      BY <1>6, <2>6, <2>8
    <2>10. addr <= brk'
      BY <1>3, <1>8, <2>2, <2>5
    <2> QED
      BY <2>3, <2>4, <2>6, <2>9, <2>10
  <1>13. ASSUME NEW k \in 1 .. ph'.next - 1, NEW addr \in Bytes(ph'.segs[k])
         PROVE  /\ upte'[PageOf(addr)] # None
                /\ mem'[Phys(upte', addr)] = Held(ph'.segs[k], addr)
                /\ pc' = "load" => addr <= brk'
    <2>1. k = ph.next \/ k \in 1 .. ph.next - 1
      BY <1>2
    <2>2. CASE k = ph.next
      <3>1. addr \in v .. v + m - 1
        BY <1>1, <1>2, <2>2 DEF Bytes
      <3> QED
        BY <1>2, <1>5, <1>11, <2>2, <3>1
    <2>3. CASE k \in 1 .. ph.next - 1
      BY <1>2, <1>12, <2>3
    <2> QED
      BY <2>1, <2>2, <2>3
  <1> QED
    BY <1>7, <1>13 DEF LoadedInv

-----------------------------------------------------------------------------

LEMMA EndFacts ==
  ASSUME Types
  PROVE  /\ EndOfImage \in Nat \ {0} /\ EndOfImage <= PAGE_SIZE * KOFFSET_PAGE
         /\ EndOfImage = ph.segs[Len(ph.segs)].vaddr + ph.segs[Len(ph.segs)].memsz
  <1>1. Len(ph.segs) \in 1 .. Len(ph.segs)
    BY SegmentFacts
  <1>2. PICK v \in Nat, m \in Nat \ {0} :
           /\ v = ph.segs[Len(ph.segs)].vaddr /\ m = ph.segs[Len(ph.segs)].memsz
           /\ v + m <= PAGE_SIZE * (KOFFSET_PAGE - StackPages)
    BY <1>1, LayoutFacts
  <1>3. EndOfImage = v + m
    BY <1>2 DEF EndOfImage
  <1>4. PICK x \in Nat, y \in Nat :
           x = PAGE_SIZE * (KOFFSET_PAGE - StackPages) /\ y = PAGE_SIZE * KOFFSET_PAGE
    BY StackBelowKernel, ConstantFacts
  <1>5. x <= y /\ v + m <= x
    BY <1>2, <1>4, StackBelowKernel
  <1>6. v + m \in Nat \ {0} /\ v + m <= y
    BY <1>5
  <1>7. EndOfImage \in Nat \ {0} /\ EndOfImage <= PAGE_SIZE * KOFFSET_PAGE
    BY <1>3, <1>4, <1>6
  <1>8. EndOfImage = ph.segs[Len(ph.segs)].vaddr + ph.segs[Len(ph.segs)].memsz
    BY DEF EndOfImage
  <1> QED
    BY <1>7, <1>8

LEMMA InitSInv == Init => SInv
  <1> SUFFICES ASSUME Init PROVE SInv
    OBVIOUS
  <1>1. ph.next = 1 /\ pc = "load" /\ brk = 0 /\ \A p \in UserPage : upte[p] = None
    BY DEF Init
  <1>2. DOMAIN mem = PAGE_SIZE * KMEM_FRAMES .. PAGE_SIZE * NR_FRAMES - 1
    BY DEF Init
  <1>3. 1 .. ph.next - 1 = {}
    BY <1>1
  <1>4. LoadedInv
    BY <1>2, <1>3 DEF LoadedInv
  <1> QED
    BY <1>1, <1>4 DEF SInv, OrderInv, StackInv, HeapInv

LEMMA LoadSegmentKeepsSInv == PInv /\ SInv /\ LoadSegment => SInv'
  <1> SUFFICES ASSUME PInv, SInv, LoadSegment PROVE SInv'
    OBVIOUS
  <1>1. PICK v, m : v = ph.segs[ph.next].vaddr /\ m = ph.segs[ph.next].memsz
    OBVIOUS
  <1>2. /\ pc' = "load" /\ ph.next \in Nat \ {0}
        /\ ph'.segs = ph.segs /\ ph'.next = ph.next + 1
    BY DEF PInv, Types, LoadSegment
  <1>3. /\ upte'[PageOf(v + m - 1)] = pf_idx' - 1
        /\ \A p \in UserPage : p > PageOf(v + m - 1) => upte'[p] = None
        /\ brk' = v + m - 1
    BY <1>1, SegmentFrames
  <1>4. ph'.next # 1 /\ ph'.next - 1 = ph.next
    BY <1>2
  <1>5. OrderInv'
    BY <1>1, <1>2, <1>3, <1>4 DEF OrderInv
  <1>6. StackInv' /\ HeapInv'
    BY <1>2, <1>4 DEF StackInv, HeapInv
  <1> QED
    BY <1>5, <1>6, LoadSegmentLoads DEF SInv

LEMMA LoadStackKeepsSInv == PInv /\ SInv /\ LoadStack => SInv'
  <1> SUFFICES ASSUME PInv, SInv, LoadStack PROVE SInv'
    OBVIOUS
  <1>1. PICK P \in Nat \ {0}, k \in Nat \ {0}, n \in Nat :
           P = PAGE_SIZE /\ k = KOFFSET_PAGE /\ n = KOFFSET_PAGE - StackPages
    BY ConstantFacts
  <1>2. PICK va \in Nat, len \in Nat \ {0} :
           /\ va = P * n /\ len = PAGE_SIZE * StackPages /\ va + len = P * k /\ va >= UserBase
    <2>1. PAGE_SIZE * StackPages \in Nat \ {0}
      BY ConstantFacts
    <2> QED
      BY <1>1, <2>1, StackBelowKernel
  <1>3. /\ pc = "load" /\ pc' = "video" /\ MmMalloc(va, len) /\ ph.next > Len(ph.segs)
        /\ mem' = mem /\ ph' = ph /\ brk' = brk
    BY <1>1, <1>2 DEF LoadStack
  <1>4. Types /\ ph.next = Len(ph.segs) + 1 /\ Len(ph.segs) \in Nat \ {0}
    BY <1>3, SegmentFacts DEF PInv, Types
  <1>5. \A p \in UserPage : upte[p] # None => upte'[p] = upte[p]
    BY <1>2, <1>3, MmMallocKeeps
  <1>6. LoadedInv'
    BY <1>3, <1>5, LoadedStays
  <1>7. \A p \in Spanned(va, len) : upte'[p] # None
    BY <1>1, <1>2, <1>3, MmMallocMaps
  <1>8. Spanned(va, len) = n .. k - 1
    <2>1. PageOf(va) = n
      <3>1. 0 \in Byte
        BY <1>1 DEF Byte
      <3>2. PageOf(PAGE_SIZE * n + 0) = n
        BY <3>1, AddressIsUnique
      <3>3. PAGE_SIZE * n + 0 = va
        BY <1>1, <1>2
      <3> QED
        BY <3>2, <3>3
    <2>2. PageOf(va + len - 1) = k - 1
      <3>1. PICK j \in Nat, r \in Nat : j = k - 1 /\ r = P - 1
        BY <1>1
      <3>2. r \in Byte
        BY <1>1, <3>1 DEF Byte
      <3>3. PageOf(PAGE_SIZE * j + r) = j
        BY <3>1, <3>2, AddressIsUnique
      <3>4. P * j + r = va + len - 1
        <4>1. k = j + 1 /\ P = r + 1
          BY <1>1, <3>1
        <4>2. P * (j + 1) = P * j + P /\ P * j \in Nat
          BY <1>1, <3>1
        <4> QED
          BY <1>2, <4>1, <4>2
      <3> QED
        BY <1>1, <3>1, <3>3, <3>4
    <2> QED
      BY <2>1, <2>2 DEF Spanned
  <1>9. StackInv'
    BY <1>1, <1>3, <1>4, <1>7, <1>8 DEF StackInv
  <1>10. brk' = EndOfImage' - 1
    <2>1. ph.next # 1 /\ ph.next - 1 = Len(ph.segs)
      BY <1>4
    <2>2. brk = ph.segs[Len(ph.segs)].vaddr + ph.segs[Len(ph.segs)].memsz - 1
      BY <1>3, <2>1 DEF SInv, OrderInv
    <2>3. EndOfImage = ph.segs[Len(ph.segs)].vaddr + ph.segs[Len(ph.segs)].memsz
      BY <1>4, EndFacts
    <2>4. EndOfImage' = EndOfImage
      BY <1>3 DEF EndOfImage
    <2>5. brk = EndOfImage - 1
      <3>1. PICK v \in Nat, m \in Nat :
               v = ph.segs[Len(ph.segs)].vaddr /\ m = ph.segs[Len(ph.segs)].memsz
        <4>1. Len(ph.segs) \in 1 .. Len(ph.segs)
          BY <1>4
        <4> QED
          BY <1>4, <4>1, LayoutFacts
      <3>2. PICK e \in Nat : e = EndOfImage
        BY <1>4, EndFacts
      <3>3. brk = v + m - 1 /\ e = v + m
        BY <2>2, <2>3, <3>1, <3>2
      <3>4. v + m - 1 = e - 1
        BY <3>3
      <3>5. brk = e - 1
        BY <3>3, <3>4
      <3> QED
        BY <3>2, <3>5
    <2> QED
      BY <1>3, <2>4, <2>5
  <1>11. HeapInv' /\ OrderInv'
    BY <1>3, <1>10 DEF HeapInv, OrderInv
  <1> QED
    BY <1>6, <1>9, <1>11 DEF SInv

LEMMA CreateVideoMappingKeepsSInv == PInv /\ SInv /\ CreateVideoMapping => SInv'
  <1> SUFFICES ASSUME PInv, SInv, CreateVideoMapping PROVE SInv'
    OBVIOUS
  <1>1. /\ pc = "video" /\ pc' = "switch" /\ mem' = mem /\ ph' = ph /\ brk' = brk
        /\ upte' = [page \in UserPage |-> IF page < NR_PTE
                      THEN IF page \in VideoPages THEN page ELSE None ELSE upte[page]]
    BY DEF CreateVideoMapping
  <1>2. /\ NR_PTE \in Nat /\ NR_FRAMES \in Nat /\ NR_PTE <= NR_FRAMES
        /\ KOFFSET_PAGE \in Nat /\ StackPages \in Nat
        /\ NR_FRAMES <= KOFFSET_PAGE - StackPages
    BY PagingAssumption
  <1>3. \A p \in UserPage : p >= NR_FRAMES => upte'[p] = upte[p]
    <2>1. \A p \in UserPage : p >= NR_FRAMES => ~(p < NR_PTE)
      BY <1>2 DEF UserPage
    <2> QED
      BY <1>1, <2>1
  <1>4. LoadedInv'
    BY <1>1, <1>3, LoadedStays
  <1>5. \A p \in KOFFSET_PAGE - StackPages .. KOFFSET_PAGE - 1 : p \in UserPage /\ p >= NR_FRAMES
    BY <1>2 DEF UserPage
  <1>6. StackInv'
    BY <1>1, <1>3, <1>5 DEF SInv, StackInv
  <1>7. HeapInv' /\ OrderInv'
    BY <1>1 DEF SInv, HeapInv, OrderInv, EndOfImage
  <1> QED
    BY <1>4, <1>6, <1>7 DEF SInv

LEMMA SwitchKeepsSInv == PInv /\ SInv /\ Switch => SInv'
  <1> SUFFICES ASSUME PInv, SInv, Switch PROVE SInv'
    OBVIOUS
  <1>1. /\ pc = "switch" /\ pc' = "run" /\ cr3' = "ucr3" /\ heap_end' = brk + 1
        /\ upte' = upte /\ mem' = mem /\ ph' = ph /\ brk' = brk
    BY DEF Switch, tables
  <1>2. LoadedInv'
    BY <1>1, LoadedStays
  <1>3. StackInv' /\ OrderInv'
    BY <1>1 DEF SInv, StackInv, OrderInv
  <1>4. brk = EndOfImage - 1 /\ EndOfImage' = EndOfImage
    BY <1>1 DEF SInv, HeapInv, EndOfImage
  <1>5. /\ EndOfImage \in Nat \ {0} /\ EndOfImage <= PAGE_SIZE * KOFFSET_PAGE
    BY EndFacts DEF PInv
  <1>6. heap_end' = EndOfImage /\ heap_end' = brk' + 1 /\ EndOfImage' .. heap_end' - 1 = {}
    BY <1>1, <1>4, <1>5
  <1>7. EndOfImage' <= heap_end'
    BY <1>4, <1>5, <1>6
  <1>8. HeapInv'
    BY <1>1, <1>4, <1>5, <1>6, <1>7 DEF HeapInv
  <1> QED
    BY <1>2, <1>3, <1>8 DEF SInv

LEMMA IdleKeepsSInv ==
  ASSUME PInv, SInv, UNCHANGED <<upte, pf_idx, mem, cr3, ph, pc, brk, heap_end>>
  PROVE  SInv'
  <1>1. LoadedInv'
    BY LoadedStays
  <1>2. OrderInv' /\ StackInv' /\ HeapInv'
    BY DEF SInv, OrderInv, StackInv, HeapInv, EndOfImage
  <1> QED
    BY <1>1, <1>2 DEF SInv

LEMMA SbrkKeepsSInv ==
  ASSUME PInv, SInv, NEW incr \in Int, heap_end + incr >= EndOfImage, Sbrk(incr)
  PROVE  SInv'
  <1>1. Types /\ brk \in Nat /\ heap_end \in Nat /\ EndOfImage \in Nat
    BY EndFacts DEF PInv, Types
  <1>2. PICK new \in Int : new = heap_end + incr
    BY <1>1
  <1>3. /\ pc = "run" /\ pc' = "run" /\ brk' = new /\ heap_end' = new /\ new <= MaxHeap
        /\ IF new > brk THEN MmMalloc(brk, new - brk) ELSE UNCHANGED <<upte, pf_idx>>
        /\ mem' = mem /\ ph' = ph /\ cr3' = cr3
    BY <1>2 DEF Sbrk, MmBrk
  <1>4. brk >= UserBase
    BY <1>3 DEF PInv, BrkInv
  <1>5. /\ cr3 = "ucr3" /\ heap_end \in {brk, brk + 1}
        /\ \A addr \in EndOfImage .. heap_end - 1 : upte[PageOf(addr)] # None
    BY <1>3 DEF SInv, HeapInv
  <1>6. PICK y \in Nat : y = PAGE_SIZE * KOFFSET_PAGE
    BY ConstantFacts
  <1>7. new <= y /\ new >= EndOfImage
    <2>1. MaxHeap \in Nat /\ MaxHeap <= y
      BY <1>6, PagingAssumption
    <2>2. new <= MaxHeap
      BY <1>3
    <2>3. new <= y
      BY <2>1, <2>2
    <2>4. new >= EndOfImage
      BY <1>2
    <2> QED
      BY <2>3, <2>4
  <1>8. /\ \A p \in UserPage : upte[p] # None => upte'[p] = upte[p]
        /\ \A addr \in EndOfImage .. new - 1 : upte'[PageOf(addr)] # None
    <2>1. \A addr \in EndOfImage .. new - 1 : addr \in Nat /\ PageOf(addr) \in UserPage
      <3>1. \A addr \in EndOfImage .. new - 1 : addr \in Nat /\ addr < y
        BY <1>1, <1>7
      <3> QED
        BY <1>6, <3>1, UserAddress
    <2>2. CASE new > brk
      <3>1. PICK len \in Nat \ {0} : len = new - brk
        BY <1>1, <2>2
      <3>2. MmMalloc(brk, len) /\ brk + len <= PAGE_SIZE * KOFFSET_PAGE /\ brk + len - 1 = new - 1
        BY <1>1, <1>3, <1>6, <1>7, <2>2, <3>1
      <3>3. \A p \in UserPage : upte[p] # None => upte'[p] = upte[p]
        BY <1>1, <1>4, <3>2, MmMallocKeeps
      <3>4. /\ \A p \in Spanned(brk, len) : upte'[p] # None
            /\ \A addr \in brk .. new - 1 : PageOf(addr) \in Spanned(brk, len)
        BY <1>1, <1>4, <3>2, MmMallocMaps
      <3>5. ASSUME NEW addr \in EndOfImage .. new - 1 PROVE upte'[PageOf(addr)] # None
        <4>1. CASE addr \in brk .. new - 1
          BY <3>4, <4>1
        <4>2. CASE addr \in EndOfImage .. heap_end - 1
          BY <1>5, <2>1, <3>3, <3>5, <4>2
        <4>3. addr \in brk .. new - 1 \/ addr \in EndOfImage .. heap_end - 1
          BY <1>1, <1>5, <2>1
        <4> QED
          BY <4>1, <4>2, <4>3
      <3> QED
        BY <3>3, <3>5
    <2>3. CASE ~(new > brk)
      <3>1. upte' = upte
        BY <1>3, <2>3
      <3>2. \A addr \in EndOfImage .. new - 1 : addr \in EndOfImage .. heap_end - 1
        BY <1>1, <1>5, <2>3
      <3> QED
        BY <1>5, <3>1, <3>2
    <2> QED
      BY <2>2, <2>3
  <1>9. LoadedInv'
    BY <1>3, <1>8, LoadedStays
  <1>10. StackInv' /\ OrderInv'
    <2>1. \A p \in KOFFSET_PAGE - StackPages .. KOFFSET_PAGE - 1 : p \in UserPage
      BY ConstantFacts DEF UserPage
    <2> QED
      BY <1>3, <1>8, <2>1 DEF SInv, StackInv, OrderInv
  <1>11. EndOfImage' = EndOfImage
    BY <1>3 DEF EndOfImage
  <1>12. HeapInv'
    BY <1>1, <1>3, <1>5, <1>6, <1>7, <1>8, <1>11 DEF HeapInv
  <1> QED
    BY <1>9, <1>10, <1>12 DEF SInv

LEMMA NextSInv == PInv /\ SInv /\ [Next]_vars => SInv'
  <1> SUFFICES ASSUME PInv, SInv, [Next]_vars PROVE SInv'
    OBVIOUS
  <1>1. CASE LoadSegment
    BY <1>1, LoadSegmentKeepsSInv
  <1>2. CASE LoadStack
    BY <1>2, LoadStackKeepsSInv
  <1>3. CASE CreateVideoMapping
    BY <1>3, CreateVideoMappingKeepsSInv
  <1>4. CASE Switch
    BY <1>4, SwitchKeepsSInv
  <1>5. CASE \E page \in AllPages : Access(page)
    BY <1>5, IdleKeepsSInv DEF Access, tables
  <1>6. CASE \E incr \in 1 - PAGE_SIZE .. PAGE_SIZE + 1 : heap_end + incr >= EndOfImage /\ Sbrk(incr)
    <2>1. PICK incr \in Int : heap_end + incr >= EndOfImage /\ Sbrk(incr)
      BY <1>6, ConstantFacts
    <2> QED
      BY <2>1, SbrkKeepsSInv
  <1>7. CASE UNCHANGED vars
    BY <1>7, IdleKeepsSInv DEF vars, tables
  <1> QED
    BY <1>1, <1>2, <1>3, <1>4, <1>5, <1>6, <1>7 DEF Next

LEMMA SInvHolds == Spec => [](PInv /\ SInv)
  <1>1. Init => PInv /\ SInv
    BY InitPInv, InitSInv
  <1>2. PInv /\ SInv /\ [Next]_vars => (PInv /\ SInv)'
    BY NextPInv, NextSInv
  <1> QED
    BY <1>1, <1>2, PTL DEF Spec

LEMMA LoadedOfSInv == PInv /\ SInv => ProgramIsLoaded
  <1> SUFFICES ASSUME PInv, SInv, pc = "run"
               PROVE  /\ \A k \in DOMAIN ph.segs : \A addr \in Bytes(ph.segs[k]) :
                           mem[Translate(addr)] = Held(ph.segs[k], addr)
                      /\ \A addr \in EndOfImage .. heap_end - 1 : Walk(PageOf(addr)) # None
                      /\ \A page \in KOFFSET_PAGE - StackPages .. KOFFSET_PAGE - 1 : Walk(page) # None
    BY DEF ProgramIsLoaded, Bytes
  <1>1. Types /\ KOFFSET_PAGE \in Nat /\ NR_FRAMES \in Nat /\ StackPages \in Nat
    BY ConstantFacts DEF PInv
  <1>2. cr3 = "ucr3" /\ ph.next = Len(ph.segs) + 1
    BY DEF SInv, HeapInv, StackInv
  <1>3. \A p \in UserPage : p \in AllPages /\ Walk(p) = upte[p]
    <2>1. \A p \in UserPage : p \in AllPages /\ ~(p >= KOFFSET_PAGE)
      BY <1>1 DEF UserPage, AllPages
    <2> QED
      BY <1>2, <2>1 DEF Walk
  <1>4. ASSUME NEW k \in DOMAIN ph.segs, NEW addr \in Bytes(ph.segs[k])
        PROVE  mem[Translate(addr)] = Held(ph.segs[k], addr)
    <2>1. k \in 1 .. Len(ph.segs) /\ k \in 1 .. ph.next - 1
      <3>1. ph.segs \in Seq(Segments) /\ Len(ph.segs) \in Nat
        BY <1>1, SegmentFacts, PagingAssumption DEF Types
      <3>2. DOMAIN ph.segs = 1 .. Len(ph.segs)
        BY <3>1
      <3> QED
        BY <1>2, <3>1, <3>2
    <2>2. addr \in Nat /\ PageOf(addr) \in UserPage
      BY <1>1, <2>1, BytesFacts
    <2>3. upte[PageOf(addr)] # None /\ mem[Phys(upte, addr)] = Held(ph.segs[k], addr)
      BY <2>1 DEF SInv, LoadedInv
    <2>4. Translate(addr) = Phys(upte, addr)
      BY <1>3, <2>2, <2>3, TranslateFacts DEF Phys
    <2> QED
      BY <2>3, <2>4
  <1>5. ASSUME NEW addr \in EndOfImage .. heap_end - 1 PROVE Walk(PageOf(addr)) # None
    <2>1. PICK y \in Nat : y = PAGE_SIZE * KOFFSET_PAGE
      BY ConstantFacts
    <2>2. heap_end <= y /\ upte[PageOf(addr)] # None
      BY <2>1 DEF SInv, HeapInv
    <2>3. addr \in Nat /\ addr < y
      <3>1. EndOfImage \in Nat /\ heap_end \in Nat
        BY <1>1, EndFacts DEF Types
      <3> QED
        BY <2>1, <2>2, <3>1
    <2> QED
      BY <1>3, <2>1, <2>2, <2>3, UserAddress
  <1>6. ASSUME NEW page \in KOFFSET_PAGE - StackPages .. KOFFSET_PAGE - 1
        PROVE  Walk(page) # None
    <2>1. page \in UserPage
      BY <1>1, ConstantFacts DEF UserPage
    <2>2. upte[page] # None
      BY DEF SInv, StackInv
    <2> QED
      BY <1>3, <2>1, <2>2
  <1> QED
    BY <1>4, <1>5, <1>6

(* When the program starts, and as long as it runs, every byte of its file *)
(* is where its addresses say, zeros behind it, and all of its stack and of*)
(* the heap it was granted is there: the loader may well copy a segment by *)
(* the frame of its first byte alone, whatever the segments are and        *)
(* whether two of them share a page (elf.c:43, mm.c:20).                   *)
THEOREM ProgramLoaded == Spec => []ProgramIsLoaded
  BY SInvHolds, LoadedOfSInv, PTL
=============================================================================
