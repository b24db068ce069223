----------------------------- MODULE FlatMemory -----------------------------
(***************************************************************************)
(* What paddr_read and paddr_write promise (memory/memory.c, with the      *)
(* cache compiled out): memory is an array of bytes, and a read returns    *)
(* what was last written to each of them.                                  *)
(***************************************************************************)
EXTENDS PhysMem

VARIABLES mem, ret

Init == mem \in Memory /\ ret = <<>>

Read(b, pos, len) ==
  /\ InMemory(b, pos, len)
  /\ ret' = Get(mem, b, pos, len)
  /\ UNCHANGED mem

Write(b, pos, len, d) ==
  /\ InMemory(b, pos, len)
  /\ mem' = Put(mem, b, pos, len, d)
  /\ UNCHANGED ret

Next ==
  \E b \in Blocks, pos \in Pos, len \in Lens :
     \/ Read(b, pos, len)
     \/ \E d \in [0 .. len - 1 -> Byte] : Write(b, pos, len, d)

Spec == Init /\ [][Next]_<<mem, ret>>
=============================================================================
