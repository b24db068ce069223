------------------------------- MODULE Audio -------------------------------
(***************************************************************************)
(* The sound card of NEMU in the build that plays on the host itself       *)
(* (nemu/src/device/dev/audio.c without PA_ONLINE) and the program that    *)
(* feeds it (game/src/credits/credits.c).                                  *)
(*                                                                         *)
(* Two chunks are filled and played in turn by threads of their own: the   *)
(* guest's, which copies a block into the idle chunk; SDL's callback,      *)
(* which plays the other one and waits for the idle one when it has no     *)
(* more; and a monitor, which turns the callback's request for the next    *)
(* block into an interrupt.  A mutex for each chunk, two flags and the PIC *)
(* are all they have in common.                                            *)
(*                                                                         *)
(* Left out: pauses, the end of the song and of NEMU.                      *)
(***************************************************************************)
EXTENDS I8259, Sequences

CONSTANTS BlockSize,       \* data_len, an even number
          StreamSize,      \* len of fill_audio(), what SDL wants at a time
          NBlocks          \* bound: blocks are numbered modulo NBlocks

ASSUME AudioAssumption == /\ BlockSize \in Nat \ {0} /\ BlockSize % 2 = 0
                          /\ StreamSize \in Nat \ {0}
                          /\ NBlocks \in Nat /\ NBlocks >= 2

Chunks == {0, 1}
Offsets == 1 .. BlockSize
Free == "free"
Noise == NBlocks

VARIABLES
  slot,            \* the PIC
  intr_no,         \* local of do_intr(): the vector it has read, or NO_INTR
  pc,              \* where the guest is
  audio_reload,    \* its flag
  m,               \* the chunk whose mutex it locks
  sent,            \* the number of the block it writes next
  audio_chunk,     \* of which block the bytes of the chunks are, or Noise
  audio_len, audio_chunk_ready,
  play_idx, fill_idx,
  audio_pos,       \* <<chunk, offset>>
  audio_mutex,     \* Free, or who holds it
  switch_buf,
  cb,              \* where the callback is
  monitor,         \* where the monitor is: before or after the interrupt
  heard,           \* history: the bytes mixed last
  lost             \* history: a request came when it was about to be forgotten

guest   == <<pc, audio_reload, m, sent>>
buffers == <<audio_chunk, audio_len, audio_chunk_ready>>
playing == <<play_idx, fill_idx, audio_pos, cb, heard>>
signals == <<slot, intr_no, switch_buf, monitor, lost>>
vars    == <<guest, buffers, playing, signals, audio_mutex>>

-----------------------------------------------------------------------------
(* The guest: the loop of main_loop(), with interrupts on.  An interrupt   *)
(* comes between two of its instructions, and `out' is one instruction.    *)
(* The timer stands for every line below AUDIO_IRQ.  The CPU polls it;     *)
(* only the monitor raises its line at any moment.                         *)

Interruptible == pc \in {"hlt", "test", "loop", "write", "clear"}
Woken == IF pc = "hlt" THEN "test" ELSE pc

TimerFires ==
  /\ Interruptible /\ intr_no = NO_INTR
  /\ slot' = Arbitrate(TIMER_IRQ, slot)
  /\ UNCHANGED <<guest, buffers, playing, intr_no, switch_buf, monitor, lost, audio_mutex>>

(* do_intr() reads the vector, and acknowledges whatever is in the PIC by  *)
(* then: a request raised between the two is lost (cpu.c:161-163).         *)
Query ==
  /\ Interruptible /\ intr_no = NO_INTR /\ slot # NO_INTR
  /\ intr_no' = slot
  /\ UNCHANGED <<guest, buffers, playing, slot, switch_buf, monitor, lost, audio_mutex>>

Acknowledge == slot' = NO_INTR /\ intr_no' = NO_INTR

TimerIntr ==
  /\ intr_no = TIMER_IRQ + IRQ_BASE
  /\ Acknowledge /\ pc' = Woken
  /\ lost' = (lost \/ slot # intr_no)
  /\ UNCHANGED <<audio_reload, m, sent, buffers, playing, switch_buf, monitor, audio_mutex>>

(* audio_event(), whose flag the guest may be about to clear.              *)
AudioIntr ==
  /\ intr_no = AUDIO_IRQ + IRQ_BASE
  /\ Acknowledge /\ pc' = Woken
  /\ audio_reload' = TRUE
  /\ lost' = (lost \/ pc = "clear")
  /\ UNCHANGED <<m, sent, buffers, playing, switch_buf, monitor, audio_mutex>>

(* The next instruction: do_intr() has found nothing before it.            *)
Goto(from, to) == pc = from /\ intr_no = NO_INTR /\ pc' = to

Loop == /\ Goto("loop", "hlt")
        /\ UNCHANGED <<audio_reload, m, sent, buffers, playing, signals, audio_mutex>>

Test == /\ Goto("test", IF audio_reload THEN "write" ELSE "loop")
        /\ UNCHANGED <<audio_reload, m, sent, buffers, playing, signals, audio_mutex>>

(* audio_io_handler() of the data port.  fill_idx is read without a lock,  *)
(* and again for each use of it.                                           *)
Write == /\ Goto("write", "lock")
         /\ m' = fill_idx
         /\ UNCHANGED <<audio_reload, sent, buffers, playing, signals, audio_mutex>>

LockFill == /\ Goto("lock", "copy")
            /\ audio_mutex[m] = Free
            /\ audio_mutex' = [audio_mutex EXCEPT ![m] = "guest"]
            /\ UNCHANGED <<audio_reload, m, sent, buffers, playing, signals>>

(* What a copy thread brings that takes idx for its number.                *)
Share(idx) == {o \in Offsets : o > idx /\ (o - idx) % 2 = 1}

(* copy_audio_data().  Both threads are given the address of the variable  *)
(* that counts them, and read it when they run: 0, 1, or 2 at its end.     *)
(* What is left of an earlier block is noise.                              *)
Copy ==
  /\ Goto("copy", "len")
  /\ \E idx1, idx2 \in 0 .. 2 :
       audio_chunk' = [audio_chunk EXCEPT ![fill_idx] =
         [o \in Offsets |-> IF o \in Share(idx1) \union Share(idx2) THEN sent ELSE Noise]]
  /\ audio_chunk_ready' = [audio_chunk_ready EXCEPT ![fill_idx] = TRUE]
  /\ sent' = (sent + 1) % NBlocks
  /\ UNCHANGED <<audio_reload, m, audio_len, playing, signals, audio_mutex>>

SetLen == /\ Goto("len", "unlock")
          /\ audio_len' = [audio_len EXCEPT ![fill_idx] = BlockSize]
          /\ UNCHANGED <<audio_reload, m, sent, audio_chunk, audio_chunk_ready, playing, signals, audio_mutex>>

Unlock == /\ Goto("unlock", "clear")
          /\ audio_mutex' = [audio_mutex EXCEPT ![fill_idx] = Free]
          /\ UNCHANGED <<audio_reload, m, sent, buffers, playing, signals>>

Clear == /\ Goto("clear", "loop")
         /\ audio_reload' = FALSE
         /\ UNCHANGED <<m, sent, buffers, playing, signals, audio_mutex>>

-----------------------------------------------------------------------------
(* fill_audio(), called by SDL whenever it has played what it had.         *)

Step(from, to) == cb = from /\ cb' = to

Enter == /\ Step("idle", "locked")
         /\ audio_mutex[play_idx] = Free
         /\ audio_mutex' = [audio_mutex EXCEPT ![play_idx] = "callback"]
         /\ UNCHANGED <<guest, buffers, play_idx, fill_idx, audio_pos, heard, signals>>

HasMore == audio_len[play_idx] > 0 /\ audio_chunk_ready[play_idx]

PlayOn == /\ Step("locked", "mix") /\ HasMore
          /\ UNCHANGED <<guest, buffers, play_idx, fill_idx, audio_pos, heard, signals, audio_mutex>>

(* Mutant of RunDry: the next block is asked for at once.                  *)
RunDryAsks ==
  /\ Step("locked", "wait") /\ ~HasMore
  /\ audio_chunk_ready' = [audio_chunk_ready EXCEPT ![play_idx] = FALSE]
  /\ switch_buf' = TRUE
  /\ UNCHANGED <<guest, audio_chunk, audio_len, play_idx, fill_idx, audio_pos, heard, slot, intr_no, monitor, lost, audio_mutex>>

RunDry == /\ Step("locked", "wait") /\ ~HasMore
          /\ audio_chunk_ready' = [audio_chunk_ready EXCEPT ![play_idx] = FALSE]
          /\ UNCHANGED <<guest, audio_chunk, audio_len, play_idx, fill_idx, audio_pos, heard, signals, audio_mutex>>

Look == /\ Step("wait", "look")
        /\ audio_mutex[fill_idx] = Free
        /\ audio_mutex' = [audio_mutex EXCEPT ![fill_idx] = "callback"]
        /\ UNCHANGED <<guest, buffers, play_idx, fill_idx, audio_pos, heard, signals>>

(* Mutant of LookAgain: the mutex is kept.                                 *)
LookAgainLocked ==
  /\ Step("look", "look") /\ ~audio_chunk_ready[fill_idx]
  /\ UNCHANGED <<guest, buffers, play_idx, fill_idx, audio_pos, heard, signals, audio_mutex>>

LookAgain == /\ Step("look", "wait") /\ ~audio_chunk_ready[fill_idx]
             /\ audio_mutex' = [audio_mutex EXCEPT ![fill_idx] = Free]
             /\ UNCHANGED <<guest, buffers, play_idx, fill_idx, audio_pos, heard, signals>>

(* Mutant of Switch: audio_pos is set before play_idx.                     *)
SwitchLatePlay ==
  /\ Step("look", "release") /\ audio_chunk_ready[fill_idx]
  /\ fill_idx' = play_idx
  /\ play_idx' = (play_idx + 1) % 2
  /\ audio_pos' = <<play_idx, 1>>
  /\ UNCHANGED <<guest, buffers, heard, signals, audio_mutex>>

(* Of what is set here only fill_idx is read by another thread.            *)
Switch == /\ Step("look", "release") /\ audio_chunk_ready[fill_idx]
          /\ fill_idx' = play_idx
          /\ play_idx' = (play_idx + 1) % 2
          /\ audio_pos' = <<play_idx', 1>>
          /\ UNCHANGED <<guest, buffers, heard, signals, audio_mutex>>

Release == /\ Step("release", "request")
           /\ audio_mutex' = [audio_mutex EXCEPT ![fill_idx] = Free]
           /\ UNCHANGED <<guest, buffers, play_idx, fill_idx, audio_pos, heard, signals>>

(* The monitor may be about to clear switch_buf.                           *)
Request == /\ Step("request", "mix")
           /\ switch_buf' = TRUE
           /\ lost' = (lost \/ monitor = "after")
           /\ UNCHANGED <<guest, buffers, play_idx, fill_idx, audio_pos, heard, slot, intr_no, monitor, audio_mutex>>

Sound(chunk, o) == <<audio_chunk[chunk][o], o>>

Mix ==
  LET left == audio_len[play_idx]
      len  == IF StreamSize > left THEN left ELSE StreamSize
  IN  /\ Step("mix", "idle")
      /\ heard' = [i \in 1 .. len |-> Sound(audio_pos[1], audio_pos[2] + i - 1)]
      /\ audio_pos' = <<audio_pos[1], audio_pos[2] + len>>
      /\ audio_len' = [audio_len EXCEPT ![play_idx] = left - len]
      /\ audio_mutex' = [audio_mutex EXCEPT ![play_idx] = Free]
      /\ UNCHANGED <<guest, audio_chunk, audio_chunk_ready, play_idx, fill_idx, signals>>

-----------------------------------------------------------------------------
(* AUDIO_Monitor_Thread().                                                 *)
MonitorRaise == /\ monitor = "before" /\ switch_buf
                /\ slot' = Arbitrate(AUDIO_IRQ, slot)
                /\ monitor' = "after"
                /\ UNCHANGED <<guest, buffers, playing, intr_no, switch_buf, lost, audio_mutex>>

MonitorClear == /\ monitor = "after"
                /\ switch_buf' = FALSE
                /\ monitor' = "before"
                /\ UNCHANGED <<guest, buffers, playing, slot, intr_no, lost, audio_mutex>>

-----------------------------------------------------------------------------
(* audio_pause(0) has been called: the callback plays chunk 0, which is    *)
(* empty, and chunk 1 is asked for.                                        *)
Init ==
  /\ slot = NO_INTR /\ intr_no = NO_INTR
  /\ pc = "loop" /\ audio_reload = FALSE /\ m = 0 /\ sent = 0
  /\ audio_chunk = [c \in Chunks |-> [o \in Offsets |-> Noise]]
  /\ audio_len = [c \in Chunks |-> 0] /\ audio_chunk_ready = [c \in Chunks |-> FALSE]
  /\ play_idx = 0 /\ fill_idx = 1 /\ audio_pos = <<0, 1>>
  /\ audio_mutex = [c \in Chunks |-> Free]
  /\ switch_buf = TRUE /\ monitor = "before"
  /\ cb = "idle" /\ heard = <<>> /\ lost = FALSE

Handler  == Query \/ TimerIntr \/ AudioIntr
Guest    == Loop \/ Test \/ Write \/ LockFill \/ Copy \/ SetLen \/ Unlock \/ Clear
Callback == Enter \/ PlayOn \/ RunDry \/ Look \/ LookAgain \/ Switch \/ Release \/ Request \/ Mix
Monitor  == MonitorRaise \/ MonitorClear

Next == TimerFires \/ Handler \/ Guest \/ Callback \/ Monitor

(* Each thread is scheduled, the timer ticks, and a thread that waits for  *)
(* a mutex gets it: the callback sleeps between two looks.                 *)
Fairness == /\ WF_vars(Handler) /\ SF_vars(Guest)
            /\ SF_vars(Callback) /\ WF_vars(Monitor)
            /\ WF_vars(slot = NO_INTR /\ TimerFires)

Spec == Init /\ [][Next]_vars /\ Fairness
-----------------------------------------------------------------------------
TypeOK ==
  /\ {slot, intr_no} \subseteq {NO_INTR, TIMER_IRQ + IRQ_BASE, AUDIO_IRQ + IRQ_BASE}
  /\ {audio_reload, switch_buf, lost} \subseteq BOOLEAN
  /\ pc \in {"loop", "hlt", "test", "write", "lock", "copy", "len", "unlock", "clear"}
  /\ {m, play_idx, fill_idx} \subseteq Chunks /\ sent \in 0 .. NBlocks - 1
  /\ audio_chunk \in [Chunks -> [Offsets -> 0 .. NBlocks]]
  /\ audio_len \in [Chunks -> 0 .. BlockSize]
  /\ audio_chunk_ready \in [Chunks -> BOOLEAN]
  /\ audio_pos \in Chunks \X (1 .. BlockSize + 1)
  /\ audio_mutex \in [Chunks -> {Free, "guest", "callback"}]
  /\ cb \in {"idle", "locked", "wait", "look", "release", "request", "mix"}
  /\ monitor \in {"before", "after"}

(* The guest fills the chunk whose mutex it holds, and never the one that  *)
(* is played, although it reads fill_idx before it has locked anything     *)
(* (audio.c:182); and `assert(play_idx != fill_idx)' of fill_audio() holds.*)
FillsTheIdleChunk ==
  /\ pc \in {"copy", "len", "unlock"} => m = fill_idx /\ audio_mutex[m] = "guest"
  /\ cb = "mix" => audio_mutex[play_idx] = "callback" /\ audio_pos[1] = play_idx
  /\ play_idx # fill_idx

(* The chunks implement a queue: what the guest has written is heard in    *)
(* order, nothing missing and nothing twice, whatever the threads do.      *)
Left(chunk, len) == [i \in 1 .. len |-> Sound(chunk, BlockSize - len + i)]
Queue ==
  (IF audio_chunk_ready[play_idx] THEN Left(play_idx, audio_len[play_idx]) ELSE <<>>)
  \o (IF audio_chunk_ready[fill_idx] THEN Left(fill_idx, BlockSize) ELSE <<>>)

Promised == INSTANCE SoundQueue WITH queue <- Queue
ImplementsSoundQueue == Promised!Spec

(* The sound goes on: the callback, which holds one mutex while it waits   *)
(* for the other, the copy and the monitor never wait for each other for   *)
(* ever, and a request that is made reaches the guest.  It is excepted in  *)
(* three windows only, where a store of another thread forgets it: the     *)
(* monitor's `switch_buf = false' (audio.c:151), do_intr()'s               *)
(* acknowledgement of another vector (cpu.c:163), and the guest's          *)
(* `audio_reload = 0' (credits.c:51), which credits.c:49 knows of.         *)
SoundGoesOn == <>lost \/ []<>(cb = "mix")
=============================================================================
