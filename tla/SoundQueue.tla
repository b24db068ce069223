----------------------------- MODULE SoundQueue -----------------------------
(***************************************************************************)
(* What the sound card promises to the guest: the blocks it writes are     *)
(* heard in order, each byte once and each block to its end.  In the place *)
(* of a byte there may be noise, but nothing is missing or heard again.    *)
(***************************************************************************)
EXTENDS Naturals, Sequences

CONSTANTS BlockSize,       \* the bytes of a block
          NBlocks          \* blocks are numbered modulo NBlocks

VARIABLES sent,            \* the number of the next block
          queue,           \* the bytes still to be heard
          heard            \* those heard last

Noise == NBlocks

Init == sent = 0 /\ queue = <<>> /\ heard = <<>>

(* A block is written while at most one is left to be heard.               *)
Write == /\ Len(queue) <= BlockSize
         /\ \E noisy \in SUBSET (1 .. BlockSize) :
              queue' = queue \o [o \in 1 .. BlockSize |-> <<IF o \in noisy THEN Noise ELSE sent, o>>]
         /\ sent' = (sent + 1) % NBlocks
         /\ UNCHANGED heard

Play == \E n \in 1 .. Len(queue) : /\ heard' = SubSeq(queue, 1, n)
                                   /\ queue' = SubSeq(queue, n + 1, Len(queue))
                                   /\ UNCHANGED sent

Next == Write \/ Play

Spec == Init /\ [][Next]_<<sent, queue, heard>>
=============================================================================
