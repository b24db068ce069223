------------------------------ MODULE MemCache ------------------------------
(***************************************************************************)
(* NEMU's memory cache (memory/mmu/cache.c, built with CACHE_ENABLED): set *)
(* associative, random replacement, write through, no allocation on a      *)
(* write miss.  NEMU runs one instruction at a time, so an access is one   *)
(* step; what makes it hard is the access that runs over the end of a      *)
(* line, whose halves may hit and miss independently.                      *)
(***************************************************************************)
EXTENDS PhysMem

CONSTANTS
  NWays,         \* CACHE_GROUP_SIZE
  WritesCross    \* whether the program's writes may cross a line

ASSUME MemCacheAssumption == NWays \in Nat \ {0} /\ WritesCross \in BOOLEAN

Ways == 0 .. NWays - 1
Line == [valid_bit : BOOLEAN, tag : Tags, data : Block]

VARIABLES
  hw_mem,
  cache,     \* cache[set][way], a line
  ret        \* what the last read returned

vars == <<hw_mem, cache, ret>>

(* The loop over the group: the first valid line with the tag of block b.  *)
HitWays(b) == {i \in Ways : cache[b[2]][i].valid_bit /\ cache[b[2]][i].tag = b[1]}

(* Mutant of Hit: the loop stops one way short.                            *)
HitShort(b) == \E i \in HitWays(b) : i < NWays - 1

Hit(b)     == HitWays(b) # {}
IsHit(b, i) == i \in HitWays(b) /\ \A k \in HitWays(b) : i <= k

(* The ways a miss may fill: the first invalid one, else a random one.     *)
Invalid(s) == {i \in Ways : ~cache[s][i].valid_bit}
Victims(s) ==
  IF Invalid(s) = {} THEN Ways ELSE {i \in Invalid(s) : \A k \in Invalid(s) : i <= k}

(* replace_cache: the whole block b is copied from memory into way i.      *)
Fill(b, i) ==
  cache' = [cache EXCEPT ![b[2]][i] =
              [valid_bit |-> TRUE, tag |-> b[1], data |-> hw_mem[b]]]

(* The data of block b in the line it hits.                                *)
Cached(b) == cache[b[2]][CHOOSE i \in Ways : IsHit(b, i)].data

-----------------------------------------------------------------------------
(* cache_read: the block the access begins in misses; memory is read for   *)
(* all of the bytes, and only that block is brought in.                    *)
ReadMiss(b, pos, len) ==
  /\ InMemory(b, pos, len) /\ ~Hit(b)
  /\ \E i \in Victims(b[2]) : Fill(b, i)
  /\ ret' = Get(hw_mem, b, pos, len)
  /\ UNCHANGED hw_mem

(* It hits, and the line holds all of the bytes.                           *)
ReadHit(b, pos, len) ==
  /\ Hit(b) /\ ~Crosses(pos, len)
  /\ ret' = [k \in 0 .. len - 1 |-> Cached(b)[pos + k]]
  /\ UNCHANGED <<hw_mem, cache>>

(* Mutant of ReadAcross: the rest is taken from the same line.             *)
ReadAcrossWraps(b, pos, len) ==
  /\ InMemory(b, pos, len) /\ Hit(b) /\ Crosses(pos, len)
  /\ ret' = [k \in 0 .. len - 1 |-> Cached(b)[(pos + k) % BlockSize]]
  /\ UNCHANGED <<hw_mem, cache>>

(* It hits and the access runs over: the rest is a read of its own.        *)
ReadAcross(b, pos, len) ==
  /\ InMemory(b, pos, len) /\ Hit(b) /\ Crosses(pos, len)
  /\ LET next == Succ(b)
         rest == IF Hit(next) THEN Cached(next) ELSE hw_mem[next]
     IN /\ ret' = [k \in 0 .. len - 1 |->
                     IF pos + k < BlockSize THEN Cached(b)[pos + k]
                     ELSE rest[pos + k - BlockSize]]
        /\ IF Hit(next) THEN UNCHANGED cache
           ELSE \E i \in Victims(next[2]) : Fill(next, i)
  /\ UNCHANGED hw_mem

(* Mutant of Write: memory is written past the cache.                      *)
WriteAround(b, pos, len, d) ==
  /\ InMemory(b, pos, len)
  /\ Crosses(pos, len) => WritesCross
  /\ hw_mem' = Put(hw_mem, b, pos, len, d)
  /\ UNCHANGED <<cache, ret>>

(* cache_write: the line is updated if the block the access begins in      *)
(* hits; then, and only then, the rest is a write of its own.              *)
Write(b, pos, len, d) ==
  /\ InMemory(b, pos, len)
  /\ Crosses(pos, len) => WritesCross
  /\ hw_mem' = Put(hw_mem, b, pos, len, d)
  /\ cache' = [s \in Sets |-> [i \in Ways |->
        IF s = b[2] /\ IsHit(b, i)
          THEN [cache[s][i] EXCEPT !.data = PutFirst(@, pos, len, d)]
        ELSE IF /\ Hit(b) /\ Crosses(pos, len)
                /\ s = Succ(b)[2] /\ IsHit(Succ(b), i)
          THEN [cache[s][i] EXCEPT !.data = PutRest(@, pos, len, d)]
        ELSE cache[s][i]]]
  /\ UNCHANGED ret

-----------------------------------------------------------------------------
(* init_cache() clears every line; load_exec() has put anything in memory. *)
Init ==
  /\ hw_mem \in Memory
  /\ \E zero \in Byte :
       cache = [s \in Sets |-> [i \in Ways |->
                 [valid_bit |-> FALSE, tag |-> 0, data |-> [j \in Pos |-> zero]]]]
  /\ ret = <<>>

Next ==
  \E b \in Blocks, pos \in Pos, len \in Lens :
     \/ ReadMiss(b, pos, len)
     \/ ReadHit(b, pos, len)
     \/ ReadAcross(b, pos, len)
     \/ \E d \in [0 .. len - 1 -> Byte] : Write(b, pos, len, d)

Spec == Init /\ [][Next]_vars

-----------------------------------------------------------------------------
(* The type of memory and cache.                                           *)
TypeOK ==
  /\ hw_mem \in Memory
  /\ cache \in [Sets -> [Ways -> Line]]

(* A block is in at most one line: the first hit is the only one.          *)
TagsUnique == \A b \in Blocks : \A i, k \in HitWays(b) : i = k

(* A valid line is a copy of memory: write-through never lets them differ. *)
Coherent ==
  \A b \in Blocks : \A i \in HitWays(b) : cache[b[2]][i].data = hw_mem[b]

Flat == INSTANCE FlatMemory WITH mem <- hw_mem

(* The cache cannot be told from memory without a cache.                   *)
ImplementsFlatMemory == Flat!Spec
=============================================================================
