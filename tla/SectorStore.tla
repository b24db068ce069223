---------------------------- MODULE SectorStore ----------------------------
(***************************************************************************)
(* What the kernel's IDE driver promises to its callers (ide_read and      *)
(* ide_write in kernel/src/driver/ide/ide.c): the disk is an array of      *)
(* words, a read returns the word last written, and every request is       *)
(* served.  Nothing here knows of sector caches, ports or interrupts.      *)
(***************************************************************************)
CONSTANTS
  Sectors,  \* the sectors of the disk
  Words,    \* the positions in a sector
  Data,     \* what a word may hold
  Image,    \* the disk image NEMU is started with
  NoReq     \* no request is being served

VARIABLES store, req, ret

vars == <<store, req, ret>>

Requests == [op : {"read"},  sector : Sectors, word : Words]
            \union
            [op : {"write"}, sector : Sectors, word : Words, data : Data]

Init ==
  /\ store = Image
  /\ req = NoReq
  /\ ret \in Data

Call(r) ==
  /\ req = NoReq
  /\ req' = r
  /\ UNCHANGED <<store, ret>>

Read ==
  /\ req # NoReq /\ req.op = "read"
  /\ ret' = store[req.sector][req.word]
  /\ req' = NoReq
  /\ UNCHANGED store

Write ==
  /\ req # NoReq /\ req.op = "write"
  /\ store' = [store EXCEPT ![req.sector][req.word] = req.data]
  /\ req' = NoReq
  /\ UNCHANGED ret

Next == (\E r \in Requests : Call(r)) \/ Read \/ Write

Spec == Init /\ [][Next]_vars /\ WF_vars(Read \/ Write)
=============================================================================
