------------------------------ MODULE PhysMem ------------------------------
(***************************************************************************)
(* Physical memory as the cache of NEMU sees it (memory/mmu/cache.c): a    *)
(* physical address is the bit fields tag | set | position in the block,   *)
(* and a block is the pair <<tag, set>>.                                   *)
(*                                                                         *)
(* An access of len bytes begins at some position of a block and may run   *)
(* over into the next one; lengths are at most a block.                    *)
(***************************************************************************)
EXTENDS Integers

CONSTANTS
  NTags,       \* tags: MEM_SIZE_B / (CACHE_SET_SIZE * CACHE_BLOCK_SIZE)
  NSets,       \* CACHE_SET_SIZE
  BlockSize,   \* CACHE_BLOCK_SIZE
  Lens,        \* lengths of an access: 1, 2 and 4, and 3 at a page boundary
  Byte         \* what a byte of memory may hold

ASSUME PhysMemAssumption ==
  /\ NTags \in Nat \ {0} /\ NSets \in Nat \ {0} /\ BlockSize \in Nat \ {0}
  /\ Lens \subseteq 1 .. BlockSize
  /\ Byte # {}

Tags   == 0 .. NTags - 1
Sets   == 0 .. NSets - 1
Pos    == 0 .. BlockSize - 1
Blocks == Tags \X Sets

Block  == [Pos -> Byte]
Memory == [Blocks -> Block]

(* The block after b: the set overflows into the tag.                      *)
Succ(b) == IF b[2] + 1 < NSets THEN <<b[1], b[2] + 1>> ELSE <<b[1] + 1, 0>>

Crosses(pos, len) == pos + len > BlockSize

(* `assert(paddr + len <= MEM_SIZE_B)' of paddr_read and paddr_write.      *)
InMemory(b, pos, len) == Crosses(pos, len) => Succ(b) \in Blocks

(* The bytes of an access to memory m, lowest address first.               *)
Get(m, b, pos, len) ==
  [k \in 0 .. len - 1 |-> IF pos + k < BlockSize THEN m[b][pos + k]
                          ELSE m[Succ(b)][pos + k - BlockSize]]

(* What writing d (of length len) at pos leaves in the block it begins in, *)
(* and in the one it runs over into.                                       *)
PutFirst(block, pos, len, d) ==
  [j \in Pos |-> IF j \in pos .. pos + len - 1 THEN d[j - pos] ELSE block[j]]

PutRest(block, pos, len, d) ==
  [j \in Pos |-> IF j + BlockSize < pos + len THEN d[j + BlockSize - pos]
                 ELSE block[j]]

Put(m, b, pos, len, d) ==
  [c \in Blocks |->
     IF c = b THEN PutFirst(m[c], pos, len, d)
     ELSE IF Crosses(pos, len) /\ c = Succ(b) THEN PutRest(m[c], pos, len, d)
     ELSE m[c]]
=============================================================================
