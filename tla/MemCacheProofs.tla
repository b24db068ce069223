--------------------------- MODULE MemCacheProofs ---------------------------
(***************************************************************************)
(* Proofs about MemCache for any geometry of the cache and any memory: a   *)
(* block is never cached twice; and as long as no write runs over the end  *)
(* of a line, the cache is coherent and cannot be told from no cache.      *)
(***************************************************************************)
EXTENDS MemCache, TLAPS

(* The inductive invariant.  Coherence needs TagsUnique (a write updates   *)
(* only the first line that hits), and holds only if no write crosses.     *)
IInv ==
  /\ TypeOK
  /\ TagsUnique
  /\ ~WritesCross => Coherent

-----------------------------------------------------------------------------
(* Addresses and accesses. *)

(* A block is a tag and a set; the block an access runs over into is one,  *)
(* if the access stays in memory, and not the block it begins in.          *)
LEMMA BlockFacts ==
  ASSUME NEW b \in Blocks
  PROVE  /\ b[1] \in Tags /\ b[2] \in Sets /\ b = <<b[1], b[2]>>
         /\ Succ(b) # b
BY DEF Blocks, Succ, Tags, Sets

(* Two blocks are equal if their fields are.                               *)
LEMMA BlockEq ==
  ASSUME NEW b \in Blocks, NEW c \in Blocks, b[1] = c[1], b[2] = c[2]
  PROVE  b = c
BY DEF Blocks

(* What a write leaves in a block is a block.                              *)
LEMMA PutTypes ==
  ASSUME NEW block \in Block, NEW pos \in Pos, NEW len \in Lens,
         NEW d \in [0 .. len - 1 -> Byte]
  PROVE  /\ PutFirst(block, pos, len, d) \in Block
         /\ PutRest(block, pos, len, d) \in Block
BY PhysMemAssumption DEF PutFirst, PutRest, Block, Pos

(* Memory after a write is memory.                                         *)
LEMMA PutMemory ==
  ASSUME NEW m \in Memory, NEW b \in Blocks, NEW pos \in Pos, NEW len \in Lens,
         NEW d \in [0 .. len - 1 -> Byte]
  PROVE  Put(m, b, pos, len, d) \in Memory
<1>1. \A c \in Blocks : m[c] \in Block
  BY DEF Memory
<1>2. \A c \in Blocks : /\ PutFirst(m[c], pos, len, d) \in Block
                        /\ PutRest(m[c], pos, len, d) \in Block
  BY <1>1, PutTypes
<1> QED BY <1>1, <1>2 DEF Put, Memory

-----------------------------------------------------------------------------
(* Lookup and replacement. *)

(* The hits of a block are ways, and the only one is the one that is found. *)
LEMMA HitFacts ==
  ASSUME TagsUnique, NEW b \in Blocks
  PROVE  /\ HitWays(b) \subseteq Ways
         /\ \A i : IsHit(b, i) <=> i \in HitWays(b)
<1>1. HitWays(b) \subseteq Ways
  BY DEF HitWays
<1>2. \A i, k \in HitWays(b) : i = k
  BY DEF TagsUnique
<1>3. \A i \in Ways : i <= i
  BY MemCacheAssumption DEF Ways
<1> QED BY <1>1, <1>2, <1>3 DEF IsHit

(* The data of a hit is the memory's, if the cache is coherent.            *)
LEMMA CachedIsMemory ==
  ASSUME TagsUnique, Coherent, NEW b \in Blocks, Hit(b)
  PROVE  Cached(b) = hw_mem[b]
<1>1. PICK i \in Ways : IsHit(b, i)
  BY HitFacts DEF Hit
<1> DEFINE j == CHOOSE k \in Ways : IsHit(b, k)
<1>2. j \in HitWays(b)
  BY <1>1, HitFacts
<1> HIDE DEF j
<1>3. cache[b[2]][j].data = hw_mem[b]
  BY <1>2 DEF Coherent
<1> QED BY <1>3 DEF Cached, j

(* A way chosen for replacement is a way.                                  *)
LEMMA VictimIsWay ==
  ASSUME NEW s, NEW i \in Victims(s)
  PROVE  i \in Ways
BY DEF Victims, Invalid

(* Filling a way with a block that is cached nowhere keeps the invariant.  *)
LEMMA FillPreserves ==
  ASSUME IInv, NEW b \in Blocks, ~Hit(b), NEW i \in Ways, Fill(b, i),
         UNCHANGED hw_mem
  PROVE  IInv'
<1> DEFINE new == [valid_bit |-> TRUE, tag |-> b[1], data |-> hw_mem[b]]
<1>a. b[1] \in Tags /\ b[2] \in Sets
  BY BlockFacts
<1>b. hw_mem \in Memory /\ hw_mem' = hw_mem /\ cache \in [Sets -> [Ways -> Line]]
  BY DEF IInv, TypeOK
<1>c. hw_mem[b] \in Block
  BY <1>b DEF Memory
<1>d. new \in Line
  BY <1>a, <1>c DEF Line
<1>e. /\ cache' = [cache EXCEPT ![b[2]][i] = new]
  BY DEF Fill
<1> HIDE DEF new
<1>f. \A s \in Sets, k \in Ways :
        cache'[s][k] = IF s = b[2] /\ k = i THEN new ELSE cache[s][k]
  BY <1>a, <1>b, <1>e
<1>g. new.valid_bit = TRUE /\ new.tag = b[1] /\ new.data = hw_mem[b]
  BY DEF new
<1>h. \A c \in Blocks : c[2] \in Sets
  BY BlockFacts
<1>1. TypeOK'
  BY <1>a, <1>b, <1>d, <1>e DEF TypeOK
<1>2. ASSUME NEW c \in Blocks, c # b
      PROVE  HitWays(c)' \subseteq HitWays(c) /\ (c[2] = b[2] => i \notin HitWays(c)')
  <2>1. c[2] = b[2] => c[1] # b[1]
    BY <1>2, BlockEq
  <2> QED BY <1>f, <1>g, <1>h, <2>1 DEF HitWays
<1>3. HitWays(b)' = {i}
  <2>1. HitWays(b) = {}
    BY DEF Hit
  <2> QED BY <1>a, <1>f, <1>g, <2>1 DEF HitWays
<1>4. TagsUnique'
  <2>1. \A c \in Blocks : \A j, k \in HitWays(c) : j = k
    BY DEF IInv, TagsUnique
  <2> QED BY <1>2, <1>3, <2>1 DEF TagsUnique
<1>5. ASSUME ~WritesCross
      PROVE  Coherent'
  <2>1. \A c \in Blocks : \A k \in HitWays(c) : cache[c[2]][k].data = hw_mem[c]
    BY <1>5 DEF IInv, Coherent
  <2>2. ASSUME NEW c \in Blocks, NEW k \in HitWays(c)'
        PROVE  cache'[c[2]][k].data = hw_mem[c]
    <3>1. k \in Ways
      BY <2>2 DEF HitWays
    <3>2. CASE c = b
      BY <1>3, <1>a, <1>f, <1>g, <2>2, <3>1, <3>2
    <3>3. CASE c # b
      <4>1. k \in HitWays(c) /\ ~(c[2] = b[2] /\ k = i)
        BY <1>2, <2>2, <3>3
      <4>2. cache'[c[2]][k] = cache[c[2]][k]
        BY <1>f, <1>h, <3>1, <4>1
      <4> QED BY <2>1, <4>1, <4>2
    <3> QED BY <3>2, <3>3
  <2> QED BY <1>b, <2>2 DEF Coherent
<1> QED BY <1>1, <1>4, <1>5, MemCacheAssumption DEF IInv

-----------------------------------------------------------------------------
(* The invariant. *)

(* A write keeps it: it changes no tag, and the line and the memory alike. *)
LEMMA WritePreserves ==
  ASSUME IInv, NEW b \in Blocks, NEW pos \in Pos, NEW len \in Lens,
         NEW d \in [0 .. len - 1 -> Byte], Write(b, pos, len, d)
  PROVE  IInv'
<1>a. /\ hw_mem \in Memory
      /\ cache \in [Sets -> [Ways -> Line]]
      /\ TagsUnique
  BY DEF IInv, TypeOK
<1>b. hw_mem' = Put(hw_mem, b, pos, len, d)
  BY DEF Write
<1> DEFINE first(s, i) == s = b[2] /\ IsHit(b, i)
           rest(s, i)  == /\ Hit(b) /\ Crosses(pos, len)
                          /\ s = Succ(b)[2] /\ IsHit(Succ(b), i)
           line(s, i)  == cache[s][i]
           new(s, i)   == IF first(s, i)
                            THEN [line(s, i) EXCEPT !.data = PutFirst(@, pos, len, d)]
                          ELSE IF rest(s, i)
                            THEN [line(s, i) EXCEPT !.data = PutRest(@, pos, len, d)]
                          ELSE line(s, i)
<1>c. cache' = [s \in Sets |-> [i \in Ways |-> new(s, i)]]
  BY DEF Write
<1>d. \A s \in Sets, i \in Ways :
        line(s, i) \in Line /\ line(s, i).data \in Block
  BY <1>a DEF Line
<1> HIDE DEF first, rest, line
<1>e. ASSUME NEW s \in Sets, NEW i \in Ways
      PROVE  /\ new(s, i) \in Line
             /\ new(s, i).valid_bit = line(s, i).valid_bit
             /\ new(s, i).tag = line(s, i).tag
             /\ new(s, i).data = IF first(s, i)
                                   THEN PutFirst(line(s, i).data, pos, len, d)
                                 ELSE IF rest(s, i)
                                   THEN PutRest(line(s, i).data, pos, len, d)
                                 ELSE line(s, i).data
  <2>1. line(s, i) \in Line /\ line(s, i).data \in Block
    BY <1>d
  <2>2. /\ PutFirst(line(s, i).data, pos, len, d) \in Block
        /\ PutRest(line(s, i).data, pos, len, d) \in Block
    BY <2>1, PutTypes
  <2> QED BY <2>1, <2>2 DEF Line
<1>f. \A s \in Sets, i \in Ways : cache'[s][i] = new(s, i)
  BY <1>c
<1> HIDE DEF new
<1>1. TypeOK'
  <2>1. hw_mem' \in Memory
    BY <1>a, <1>b, PutMemory
  <2>2. cache' \in [Sets -> [Ways -> Line]]
    BY <1>c, <1>e
  <2> QED BY <2>1, <2>2 DEF TypeOK
<1>2. \A c \in Blocks : HitWays(c)' = HitWays(c)
  <2>1. \A c \in Blocks : c[2] \in Sets
    BY BlockFacts
  <2> QED BY <1>e, <1>f, <2>1 DEF HitWays, line
<1>3. TagsUnique'
  BY <1>a, <1>2 DEF TagsUnique
<1>4. ASSUME ~WritesCross
      PROVE  Coherent'
  <2>1. ~Crosses(pos, len)
    BY <1>4 DEF Write
  <2>2. \A c \in Blocks :
          hw_mem'[c] = IF c = b THEN PutFirst(hw_mem[c], pos, len, d) ELSE hw_mem[c]
    BY <1>b, <2>1 DEF Put
  <2>3. \A c \in Blocks : \A i \in HitWays(c) : line(c[2], i).data = hw_mem[c]
    BY <1>4 DEF IInv, Coherent, line
  <2>4. ASSUME NEW c \in Blocks, NEW i \in HitWays(c)
        PROVE  cache'[c[2]][i].data = hw_mem'[c]
    <3>1. c[2] \in Sets /\ i \in Ways
      BY BlockFacts DEF HitWays
    <3>2. ~rest(c[2], i)
      BY <2>1 DEF rest
    <3>3. first(c[2], i) <=> c = b
      <4>1. c = b => first(c[2], i)
        BY <1>a, HitFacts DEF first
      <4>2. ASSUME first(c[2], i)
            PROVE  c = b
        <5>1. i \in HitWays(b) /\ c[2] = b[2]
          BY <4>2, <1>a, HitFacts DEF first
        <5>2. c[1] = b[1]
          BY <5>1 DEF HitWays
        <5> QED BY <5>1, <5>2, BlockEq
      <4> QED BY <4>1, <4>2
    <3>4. cache'[c[2]][i].data = IF c = b THEN PutFirst(line(c[2], i).data, pos, len, d)
                                 ELSE line(c[2], i).data
      BY <1>e, <1>f, <3>1, <3>2, <3>3
    <3> QED BY <2>2, <2>3, <3>4
  <2> QED BY <1>2, <2>4 DEF Coherent
<1> QED BY <1>1, <1>3, <1>4, MemCacheAssumption DEF IInv

(* Initially nothing is cached.                                            *)
LEMMA InitIInv == Init => IInv
<1> SUFFICES ASSUME Init PROVE IInv
  OBVIOUS
<1>1. PICK zero \in Byte :
        cache = [s \in Sets |-> [i \in Ways |->
                  [valid_bit |-> FALSE, tag |-> 0, data |-> [j \in Pos |-> zero]]]]
  BY DEF Init
<1>2. 0 \in Tags
  BY PhysMemAssumption DEF Tags
<1>3. TypeOK
  BY <1>1, <1>2 DEF Init, TypeOK, Line, Block
<1>4. \A b \in Blocks : HitWays(b) = {}
  BY <1>1, BlockFacts DEF HitWays
<1> QED BY <1>3, <1>4 DEF IInv, TagsUnique, Coherent

(* Every access keeps the invariant.                                       *)
LEMMA NextIInv == IInv /\ [Next]_vars => IInv'
<1> SUFFICES ASSUME IInv, [Next]_vars PROVE IInv'
  OBVIOUS
<1>1. CASE UNCHANGED vars
  BY <1>1 DEF vars, IInv, TypeOK, TagsUnique, Coherent, HitWays
<1>2. ASSUME NEW b \in Blocks, NEW pos \in Pos, NEW len \in Lens,
             ReadMiss(b, pos, len)
      PROVE  IInv'
  <2>1. PICK i \in Victims(b[2]) : Fill(b, i)
    BY <1>2 DEF ReadMiss
  <2> QED BY <1>2, <2>1, VictimIsWay, FillPreserves DEF ReadMiss
<1>3. ASSUME NEW b \in Blocks, NEW pos \in Pos, NEW len \in Lens,
             ReadHit(b, pos, len)
      PROVE  IInv'
  BY <1>3 DEF ReadHit, IInv, TypeOK, TagsUnique, Coherent, HitWays
<1>4. ASSUME NEW b \in Blocks, NEW pos \in Pos, NEW len \in Lens,
             ReadAcross(b, pos, len)
      PROVE  IInv'
  <2>1. Succ(b) \in Blocks
    BY <1>4 DEF ReadAcross, InMemory
  <2>2. CASE Hit(Succ(b))
    <3>1. UNCHANGED <<hw_mem, cache>>
      BY <1>4, <2>2 DEF ReadAcross
    <3> QED BY <3>1 DEF IInv, TypeOK, TagsUnique, Coherent, HitWays
  <2>3. CASE ~Hit(Succ(b))
    <3>1. PICK i \in Victims(Succ(b)[2]) : Fill(Succ(b), i)
      BY <1>4, <2>3 DEF ReadAcross
    <3> QED BY <1>4, <2>1, <2>3, <3>1, VictimIsWay, FillPreserves DEF ReadAcross
  <2> QED BY <2>2, <2>3
<1>5. ASSUME NEW b \in Blocks, NEW pos \in Pos, NEW len \in Lens,
             NEW d \in [0 .. len - 1 -> Byte], Write(b, pos, len, d)
      PROVE  IInv'
  BY <1>5, WritePreserves
<1> QED BY <1>1, <1>2, <1>3, <1>4, <1>5 DEF Next

(* The inductive invariant holds in every reachable state.                 *)
THEOREM IInvHolds == Spec => []IInv
BY InitIInv, NextIInv, PTL DEF Spec

(* Memory and cache keep their types: cache.c of any size, any accesses.   *)
THEOREM TypeCorrect == Spec => []TypeOK
<1>1. IInv => TypeOK
  BY DEF IInv
<1> QED BY <1>1, IInvHolds, PTL

(* cache_read and cache_write never have a block in two lines, so that the *)
(* first hit of their loops is the only one.                               *)
THEOREM NeverCachedTwice == Spec => []TagsUnique
<1>1. IInv => TagsUnique
  BY DEF IInv
<1> QED BY <1>1, IInvHolds, PTL

(* If no write crosses a line, the valid lines of cache.c are copies of    *)
(* memory.                                                                 *)
THEOREM CacheIsCoherent ==
  ASSUME ~WritesCross
  PROVE  Spec => []Coherent
<1>1. IInv => Coherent
  BY DEF IInv
<1> QED BY <1>1, IInvHolds, PTL

-----------------------------------------------------------------------------
(* Refinement. *)

(* A read that hits, wholly or at first, returns what memory holds.        *)
LEMMA ReadsMemory ==
  ASSUME TagsUnique, Coherent,
         NEW b \in Blocks, NEW pos \in Pos, NEW len \in Lens,
         ReadHit(b, pos, len) \/ ReadAcross(b, pos, len)
  PROVE  ret' = Get(hw_mem, b, pos, len)
<1>1. Hit(b)
  BY DEF ReadHit, ReadAcross
<1>2. Cached(b) = hw_mem[b]
  BY <1>1, CachedIsMemory
<1>3. CASE ReadHit(b, pos, len)
  <2>1. \A k \in 0 .. len - 1 : pos + k < BlockSize
    BY <1>3, PhysMemAssumption DEF ReadHit, Crosses, Pos
  <2> QED BY <1>2, <1>3, <2>1 DEF ReadHit, Get
<1>4. CASE ReadAcross(b, pos, len)
  <2>1. Succ(b) \in Blocks
    BY <1>4 DEF ReadAcross, InMemory
  <2>2. (IF Hit(Succ(b)) THEN Cached(Succ(b)) ELSE hw_mem[Succ(b)]) = hw_mem[Succ(b)]
    BY <2>1, CachedIsMemory
  <2> QED BY <1>2, <1>4, <2>2 DEF ReadAcross, Get
<1> QED BY <1>3, <1>4

(* Every access is the same access to a memory without a cache.            *)
LEMMA StepRefines ==
  ASSUME IInv, ~WritesCross, [Next]_vars
  PROVE  [Flat!Next]_<<hw_mem, ret>>
<1>a. TagsUnique /\ Coherent
  BY DEF IInv
<1>1. CASE UNCHANGED vars
  BY <1>1 DEF vars
<1>2. ASSUME NEW b \in Blocks, NEW pos \in Pos, NEW len \in Lens,
             ReadMiss(b, pos, len) \/ ReadHit(b, pos, len) \/ ReadAcross(b, pos, len)
      PROVE  Flat!Next
  <2>1. ret' = Get(hw_mem, b, pos, len)
    BY <1>2, <1>a, ReadsMemory DEF ReadMiss
  <2>2. InMemory(b, pos, len) /\ UNCHANGED hw_mem
    BY <1>2 DEF ReadMiss, ReadHit, ReadAcross, InMemory
  <2>3. Flat!Read(b, pos, len)
    BY <2>1, <2>2 DEF Flat!Read, Flat!InMemory, InMemory, Flat!Get, Get,
                      Flat!Crosses, Crosses, Flat!Succ, Succ, Flat!Blocks, Blocks,
                      Flat!Tags, Tags, Flat!Sets, Sets
  <2> QED BY <2>3 DEF Flat!Next, Flat!Blocks, Blocks, Flat!Tags, Tags,
                      Flat!Sets, Sets, Flat!Pos, Pos
<1>3. ASSUME NEW b \in Blocks, NEW pos \in Pos, NEW len \in Lens,
             NEW d \in [0 .. len - 1 -> Byte], Write(b, pos, len, d)
      PROVE  Flat!Next
  <2>1. Flat!Write(b, pos, len, d)
    <3>1. InMemory(b, pos, len) /\ hw_mem' = Put(hw_mem, b, pos, len, d) /\ ret' = ret
      BY <1>3 DEF Write
    <3> QED BY <3>1 DEF Flat!Write, Flat!InMemory, InMemory, Flat!Put, Put,
                        Flat!PutFirst, PutFirst, Flat!PutRest, PutRest,
                        Flat!Crosses, Crosses, Flat!Succ, Succ, Flat!Blocks, Blocks,
                        Flat!Tags, Tags, Flat!Sets, Sets, Flat!Pos, Pos
  <2> QED BY <2>1 DEF Flat!Next, Flat!Blocks, Blocks, Flat!Tags, Tags,
                      Flat!Sets, Sets, Flat!Pos, Pos
<1> QED BY <1>1, <1>2, <1>3 DEF Next

(* If no write crosses a line, a machine with cache.c behaves as one whose *)
(* paddr_read and paddr_write go to memory.                                *)
THEOREM CacheIsTransparent ==
  ASSUME ~WritesCross
  PROVE  Spec => ImplementsFlatMemory
<1>1. Init => Flat!Init
  BY DEF Init, Flat!Init, Memory, Flat!Memory, Block, Flat!Block, Blocks, Flat!Blocks,
         Tags, Flat!Tags, Sets, Flat!Sets, Pos, Flat!Pos
<1>2. IInv /\ [Next]_vars => [Flat!Next]_<<hw_mem, ret>>
  BY StepRefines
<1> QED BY <1>1, <1>2, IInvHolds, PTL DEF Spec, ImplementsFlatMemory, Flat!Spec

=============================================================================
