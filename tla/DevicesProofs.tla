--------------------------- MODULE DevicesProofs ---------------------------
(***************************************************************************)
(* What holds of a game's sound and screen.  Of the sound card, for every  *)
(* size of a block and of what SDL plays at a time, in every interleaving  *)
(* of its threads; of the VGA, for every size of the screen and of its     *)
(* memory map, every palette and every guest whose stores do not run over  *)
(* a line.                                                                 *)
(*                                                                         *)
(* Sound: the guest reads fill_idx before it has locked anything.  What    *)
(* protects it is not a mutex but a request: there is one at the most, from*)
(* the moment the callback switches until the guest has filled the chunk,  *)
(* and as long as there is one the callback cannot switch again            *)
(* (RequestInv).                                                           *)
(*                                                                         *)
(* Screen: the flags are enough, as a line is marked by what changes it, so*)
(* that redrawing the marked lines redraws the screen.  The palette needs  *)
(* more: that the guest and the DAC, who count colours and components each *)
(* on its own, are at the same one (PointersAgree).                        *)
(***************************************************************************)
EXTENDS Devices, SequenceTheorems, TLAPS

(* A step of the game is one of the card or none, and one of the VGA or    *)
(* none.                                                                   *)
LEMMA DevicesStep ==
  ASSUME [CardStep \/ ScreenStep]_<<vars, picture, device>>
  PROVE  [Next]_vars /\ [Screen!Next]_picture
  BY DEF CardStep, ScreenStep

LEMMA DevicesStart == DevicesInit => Init /\ Screen!Init
  BY DEF DevicesInit

-----------------------------------------------------------------------------
(* The sound card. *)

Types ==
  /\ {slot, intr_no} \subseteq {NO_INTR, TIMER_IRQ + IRQ_BASE, AUDIO_IRQ + IRQ_BASE}
  /\ {m, play_idx, fill_idx} \subseteq Chunks
  /\ audio_chunk_ready \in [Chunks -> BOOLEAN]
  /\ audio_mutex \in [Chunks -> {Free, "guest", "callback"}]
  /\ play_idx # fill_idx
  /\ audio_pos[1] = play_idx
  /\ monitor \in {"before", "after"}

(* Where a request can be: with the callback that has switched, with the   *)
(* monitor, in the PIC or read by do_intr(), and with the guest until it   *)
(* has filled the chunk.                                                   *)
AtCallback == cb \in {"release", "request"}
AtMonitor  == switch_buf /\ monitor = "before"
AtPic      == AUDIO_IRQ + IRQ_BASE \in {slot, intr_no}
AtGuest    == audio_reload /\ pc \notin {"len", "unlock", "clear"}

RequestInv ==
  /\ AtCallback => ~AtMonitor /\ ~AtPic /\ ~AtGuest
  /\ AtMonitor => ~AtPic /\ ~AtGuest
  /\ AtPic => ~AtGuest
  /\ AtCallback \/ AtMonitor \/ AtPic \/ AtGuest => ~audio_chunk_ready[fill_idx]

GuestInv ==
  /\ pc \in {"write", "lock", "copy"} => audio_reload
  /\ pc \in {"lock", "copy", "len", "unlock"} => m = fill_idx
  /\ pc \in {"copy", "len", "unlock"} => audio_mutex[m] = "guest"

CallbackInv ==
  /\ cb # "idle" => audio_mutex[play_idx] = "callback"
  /\ cb \in {"look", "release"} => audio_mutex[fill_idx] = "callback"
  /\ cb \in {"wait", "look"} => ~audio_chunk_ready[play_idx]

AInv == Types /\ RequestInv /\ GuestInv /\ CallbackInv

-----------------------------------------------------------------------------

(* The vectors of the two lines in use as numbers, and what a raise leaves.*)
LEMMA RaiseFacts ==
  ASSUME NEW s \in {NO_INTR, TIMER_IRQ + IRQ_BASE, AUDIO_IRQ + IRQ_BASE}
  PROVE  /\ Arbitrate(TIMER_IRQ, s) \in {TIMER_IRQ + IRQ_BASE, AUDIO_IRQ + IRQ_BASE}
         /\ Arbitrate(TIMER_IRQ, s) = AUDIO_IRQ + IRQ_BASE <=> s = AUDIO_IRQ + IRQ_BASE
         /\ Arbitrate(AUDIO_IRQ, s) = AUDIO_IRQ + IRQ_BASE
         /\ NO_INTR # AUDIO_IRQ + IRQ_BASE /\ TIMER_IRQ + IRQ_BASE # AUDIO_IRQ + IRQ_BASE
  BY DEF Arbitrate, NO_INTR, IRQ_BASE, TIMER_IRQ, AUDIO_IRQ

LEMMA OtherChunk ==
  ASSUME NEW c \in Chunks
  PROVE  (c + 1) % 2 \in Chunks /\ (c + 1) % 2 # c
  BY DEF Chunks

LEMMA InitAInv == Init => AInv
  <1> SUFFICES ASSUME Init PROVE AInv
    OBVIOUS
  <1>1. ~audio_reload
    BY Zenon DEF Init
  <1>2. Types
    BY DEF Init, Types, Chunks
  <1>3. ~AtCallback /\ ~AtPic /\ ~AtGuest /\ ~audio_chunk_ready[fill_idx]
    BY <1>1 DEF Init, AtCallback, AtPic, AtGuest, Chunks, NO_INTR, AUDIO_IRQ, IRQ_BASE
  <1> QED
    BY <1>2, <1>3 DEF Init, AInv, RequestInv, GuestInv, CallbackInv

-----------------------------------------------------------------------------
(* The timer and the interrupts.                                           *)

LEMMA TimerPreserves == AInv /\ (TimerFires \/ Query \/ TimerIntr) => AInv'
  <1> SUFFICES ASSUME AInv, TimerFires \/ Query \/ TimerIntr PROVE AInv'
    OBVIOUS
  <1>1. /\ UNCHANGED <<audio_reload, m, audio_chunk_ready, play_idx, fill_idx, audio_pos, cb,
                       switch_buf, monitor, audio_mutex>>
        /\ pc' = pc \/ (pc' = "test" /\ pc = "hlt")
    BY DEF TimerFires, Query, TimerIntr, Woken, guest, buffers, playing
  <1>2. /\ {slot', intr_no'} \subseteq {NO_INTR, TIMER_IRQ + IRQ_BASE, AUDIO_IRQ + IRQ_BASE}
        /\ AtPic' => AtPic
    BY RaiseFacts DEF TimerFires, Query, TimerIntr, Acknowledge, AInv, Types, AtPic
  <1>3. AtGuest' <=> AtGuest
    BY <1>1 DEF AtGuest
  <1>4. AtCallback' <=> AtCallback
    BY <1>1 DEF AtCallback
  <1>5. AtMonitor' <=> AtMonitor
    BY <1>1 DEF AtMonitor
  <1>6. Types'
    BY <1>1, <1>2 DEF AInv, Types
  <1>7. RequestInv'
    BY <1>1, <1>2, <1>3, <1>4, <1>5 DEF AInv, RequestInv
  <1>8. GuestInv' /\ CallbackInv'
    BY <1>1 DEF AInv, GuestInv, CallbackInv
  <1> QED
    BY <1>6, <1>7, <1>8 DEF AInv

(* The request goes from the PIC to the guest, or is lost at the end of    *)
(* the guest's loop.                                                       *)
LEMMA AudioIntrPreserves == AInv /\ AudioIntr => AInv'
  <1> SUFFICES ASSUME AInv, AudioIntr PROVE AInv'
    OBVIOUS
  <1>1. /\ UNCHANGED <<m, audio_chunk_ready, play_idx, fill_idx, audio_pos, cb,
                       switch_buf, monitor, audio_mutex>>
        /\ pc' = pc \/ (pc' = "test" /\ pc = "hlt")
        /\ slot' = NO_INTR /\ intr_no' = NO_INTR /\ audio_reload' = TRUE
    BY DEF AudioIntr, Acknowledge, Woken, buffers, playing
  <1>2. AtPic /\ ~AtPic'
    BY <1>1 DEF AudioIntr, AtPic, NO_INTR, AUDIO_IRQ, IRQ_BASE
  <1>3. AtCallback' <=> AtCallback
    BY <1>1 DEF AtCallback
  <1>4. AtMonitor' <=> AtMonitor
    BY <1>1 DEF AtMonitor
  <1>5. ~AtCallback' /\ ~AtMonitor' /\ ~audio_chunk_ready'[fill_idx']
    BY <1>1, <1>2, <1>3, <1>4 DEF AInv, RequestInv
  <1>6. RequestInv'
    BY <1>2, <1>5 DEF RequestInv
  <1>7. Types' /\ GuestInv' /\ CallbackInv'
    BY <1>1 DEF AInv, Types, GuestInv, CallbackInv
  <1> QED
    BY <1>6, <1>7 DEF AInv

-----------------------------------------------------------------------------
(* The guest.                                                              *)

LEMMA GuestPreserves == AInv /\ (Loop \/ Test \/ Write \/ SetLen \/ Clear) => AInv'
  <1> SUFFICES ASSUME AInv, Loop \/ Test \/ Write \/ SetLen \/ Clear PROVE AInv'
    OBVIOUS
  <1>1. /\ UNCHANGED <<audio_chunk_ready, play_idx, fill_idx, audio_pos, cb, slot, intr_no,
                       switch_buf, monitor, audio_mutex>>
        /\ m' \in {m, fill_idx}
    BY DEF Loop, Test, Write, SetLen, Clear, buffers, playing, signals
  <1>2. /\ audio_reload' => audio_reload /\ pc # "clear"
        /\ pc' \in {"write", "lock", "copy"} => audio_reload'
        /\ pc = "len" <=> pc' = "unlock"
        /\ pc = "write" <=> pc' = "lock"
        /\ pc' \notin {"len", "copy"}
        /\ pc' = "lock" => m' = fill_idx
        /\ pc' = "unlock" => m' = m
        /\ pc # "unlock"
    BY DEF Loop, Test, Write, SetLen, Clear, Goto, AInv, GuestInv
  <1>3. AtGuest' => AtGuest
    BY <1>2 DEF AtGuest
  <1>4. AtCallback' <=> AtCallback
    BY <1>1 DEF AtCallback
  <1>5. AtMonitor' <=> AtMonitor
    BY <1>1 DEF AtMonitor
  <1>6. AtPic' <=> AtPic
    BY <1>1 DEF AtPic
  <1>7. RequestInv'
    BY <1>1, <1>3, <1>4, <1>5, <1>6 DEF AInv, RequestInv
  <1>8. Types'
    BY <1>1 DEF AInv, Types
  <1>9. GuestInv' /\ CallbackInv'
    BY <1>1, <1>2 DEF AInv, GuestInv, CallbackInv
  <1> QED
    BY <1>7, <1>8, <1>9 DEF AInv

(* The mutex is taken and given back.                                      *)
LEMMA GuestMutexPreserves == AInv /\ (LockFill \/ Unlock) => AInv'
  <1> SUFFICES ASSUME AInv, LockFill \/ Unlock PROVE AInv'
    OBVIOUS
  <1>1. /\ UNCHANGED <<audio_reload, m, audio_chunk_ready, play_idx, fill_idx, audio_pos, cb,
                       slot, intr_no, switch_buf, monitor>>
        /\ \/ /\ pc = "lock" /\ pc' = "copy" /\ audio_mutex[m] = Free
              /\ audio_mutex' = [audio_mutex EXCEPT ![m] = "guest"]
           \/ /\ pc = "unlock" /\ pc' = "clear"
              /\ audio_mutex' = [audio_mutex EXCEPT ![fill_idx] = Free]
    BY DEF LockFill, Unlock, Goto, buffers, playing, signals
  <1>2. m = fill_idx /\ m \in Chunks /\ play_idx \in Chunks /\ play_idx # fill_idx
    BY <1>1 DEF AInv, GuestInv, Types
  <1>3. /\ audio_mutex[m] # "callback"
        /\ audio_mutex' \in [Chunks -> {Free, "guest", "callback"}]
        /\ audio_mutex'[play_idx] = audio_mutex[play_idx]
        /\ pc' = "copy" => audio_mutex'[m] = "guest"
    BY <1>1, <1>2 DEF AInv, GuestInv, Types, Free
  <1>4. AtGuest' => AtGuest
    BY <1>1 DEF AtGuest
  <1>5. AtCallback' <=> AtCallback
    BY <1>1 DEF AtCallback
  <1>6. AtMonitor' <=> AtMonitor
    BY <1>1 DEF AtMonitor
  <1>7. AtPic' <=> AtPic
    BY <1>1 DEF AtPic
  <1>8. RequestInv'
    BY <1>1, <1>4, <1>5, <1>6, <1>7 DEF AInv, RequestInv
  <1>9. Types'
    BY <1>1, <1>3 DEF AInv, Types
  <1>10. GuestInv'
    BY <1>1, <1>2, <1>3 DEF AInv, GuestInv
  <1>11. CallbackInv'
    BY <1>1, <1>2, <1>3 DEF AInv, CallbackInv
  <1> QED
    BY <1>8, <1>9, <1>10, <1>11 DEF AInv

(* The chunk is filled, which answers the request.                         *)
LEMMA CopyPreserves == AInv /\ Copy => AInv'
  <1> SUFFICES ASSUME AInv, Copy PROVE AInv'
    OBVIOUS
  <1>1. /\ UNCHANGED <<audio_reload, m, play_idx, fill_idx, audio_pos, cb,
                       slot, intr_no, switch_buf, monitor, audio_mutex>>
        /\ audio_chunk_ready' = [audio_chunk_ready EXCEPT ![fill_idx] = TRUE]
        /\ pc = "copy" /\ pc' = "len"
    BY DEF Copy, Goto, playing, signals
  <1>2. AtGuest /\ ~AtGuest'
    BY <1>1 DEF AtGuest, AInv, GuestInv
  <1>3. AtCallback' <=> AtCallback
    BY <1>1 DEF AtCallback
  <1>4. AtMonitor' <=> AtMonitor
    BY <1>1 DEF AtMonitor
  <1>5. AtPic' <=> AtPic
    BY <1>1 DEF AtPic
  <1>6. RequestInv'
    BY <1>2, <1>3, <1>4, <1>5 DEF AInv, RequestInv
  <1>7. /\ audio_chunk_ready' \in [Chunks -> BOOLEAN]
        /\ audio_chunk_ready'[play_idx] = audio_chunk_ready[play_idx]
    BY <1>1 DEF AInv, Types
  <1>8. Types' /\ GuestInv' /\ CallbackInv'
    BY <1>1, <1>7 DEF AInv, Types, GuestInv, CallbackInv
  <1> QED
    BY <1>6, <1>8 DEF AInv

-----------------------------------------------------------------------------
(* The callback.                                                           *)

(* The steps that leave the chunks' flags and indices alone.               *)
CallbackMutexStep == Enter \/ PlayOn \/ Look \/ LookAgain \/ Release \/ Mix

LEMMA CallbackMutexPreserves == AInv /\ CallbackMutexStep => AInv'
  <1> SUFFICES ASSUME AInv, CallbackMutexStep PROVE AInv'
    OBVIOUS
  <1>1. /\ UNCHANGED <<audio_reload, pc, m, audio_chunk_ready, play_idx, fill_idx,
                       slot, intr_no, switch_buf, monitor>>
        /\ audio_pos'[1] = audio_pos[1]
    BY DEF CallbackMutexStep, Enter, PlayOn, Look, LookAgain, Release, Mix,
       guest, buffers, signals
  <1>2. \/ /\ cb = "idle" /\ cb' = "locked" /\ audio_mutex[play_idx] = Free
           /\ audio_mutex' = [audio_mutex EXCEPT ![play_idx] = "callback"]
        \/ cb = "locked" /\ cb' = "mix" /\ audio_mutex' = audio_mutex
        \/ /\ cb = "wait" /\ cb' = "look" /\ audio_mutex[fill_idx] = Free
           /\ audio_mutex' = [audio_mutex EXCEPT ![fill_idx] = "callback"]
        \/ /\ cb = "look" /\ cb' = "wait"
           /\ audio_mutex' = [audio_mutex EXCEPT ![fill_idx] = Free]
        \/ /\ cb = "release" /\ cb' = "request"
           /\ audio_mutex' = [audio_mutex EXCEPT ![fill_idx] = Free]
        \/ /\ cb = "mix" /\ cb' = "idle"
           /\ audio_mutex' = [audio_mutex EXCEPT ![play_idx] = Free]
    BY DEF CallbackMutexStep, Enter, PlayOn, Look, LookAgain, Release, Mix, Step
  <1>3. /\ play_idx \in Chunks /\ fill_idx \in Chunks /\ m \in Chunks /\ play_idx # fill_idx
        /\ audio_mutex \in [Chunks -> {Free, "guest", "callback"}]
    BY DEF AInv, Types
  <1>4. /\ audio_mutex' \in [Chunks -> {Free, "guest", "callback"}]
        /\ cb' # "idle" => audio_mutex'[play_idx] = "callback"
        /\ cb' \in {"look", "release"} => audio_mutex'[fill_idx] = "callback"
        /\ \A c \in Chunks : audio_mutex[c] = "guest" => audio_mutex'[c] = "guest"
    BY <1>2, <1>3 DEF AInv, CallbackInv, Free
  <1>5. AtCallback' => AtCallback
    BY <1>2 DEF AtCallback
  <1>6. AtGuest' <=> AtGuest
    BY <1>1 DEF AtGuest
  <1>7. AtMonitor' <=> AtMonitor
    BY <1>1 DEF AtMonitor
  <1>8. AtPic' <=> AtPic
    BY <1>1 DEF AtPic
  <1>9. RequestInv'
    BY <1>1, <1>5, <1>6, <1>7, <1>8 DEF AInv, RequestInv
  <1>10. Types'
    BY <1>1, <1>4 DEF AInv, Types
  <1>11. GuestInv'
    BY <1>1, <1>3, <1>4 DEF AInv, GuestInv
  <1>12. CallbackInv'
    BY <1>1, <1>2, <1>4 DEF AInv, CallbackInv
  <1> QED
    BY <1>9, <1>10, <1>11, <1>12 DEF AInv

LEMMA RunDryPreserves == AInv /\ RunDry => AInv'
  <1> SUFFICES ASSUME AInv, RunDry PROVE AInv'
    OBVIOUS
  <1>1. /\ UNCHANGED <<audio_reload, pc, m, play_idx, fill_idx, audio_pos, audio_mutex,
                       slot, intr_no, switch_buf, monitor>>
        /\ audio_chunk_ready' = [audio_chunk_ready EXCEPT ![play_idx] = FALSE]
        /\ cb = "locked" /\ cb' = "wait"
    BY DEF RunDry, Step, guest, signals
  <1>2. /\ audio_chunk_ready' \in [Chunks -> BOOLEAN]
        /\ audio_chunk_ready'[fill_idx] = audio_chunk_ready[fill_idx]
        /\ ~audio_chunk_ready'[play_idx]
    BY <1>1 DEF AInv, Types
  <1>3. ~AtCallback'
    BY <1>1 DEF AtCallback
  <1>4. AtGuest' <=> AtGuest
    BY <1>1 DEF AtGuest
  <1>5. AtMonitor' <=> AtMonitor
    BY <1>1 DEF AtMonitor
  <1>6. AtPic' <=> AtPic
    BY <1>1 DEF AtPic
  <1>7. RequestInv'
    BY <1>1, <1>2, <1>3, <1>4, <1>5, <1>6 DEF AInv, RequestInv
  <1>8. Types' /\ GuestInv' /\ CallbackInv'
    BY <1>1, <1>2 DEF AInv, Types, GuestInv, CallbackInv
  <1> QED
    BY <1>7, <1>8 DEF AInv

(* The callback switches when the chunk to be filled is ready, so that no  *)
(* request is left; the guest does not hold its mutex.                     *)
LEMMA SwitchPreserves == AInv /\ Switch => AInv'
  <1> SUFFICES ASSUME AInv, Switch PROVE AInv'
    OBVIOUS
  <1>1. /\ UNCHANGED <<audio_reload, pc, m, audio_chunk_ready, audio_mutex,
                       slot, intr_no, switch_buf, monitor>>
        /\ cb = "look" /\ cb' = "release" /\ audio_chunk_ready[fill_idx]
        /\ fill_idx' = play_idx /\ play_idx' = (play_idx + 1) % 2 /\ audio_pos'[1] = play_idx'
    BY DEF Switch, Step, guest, buffers, signals
  <1>2. play_idx' = fill_idx
    BY <1>1, OtherChunk DEF AInv, Types, Chunks
  <1>3. ~AtCallback /\ ~AtMonitor /\ ~AtPic /\ ~AtGuest
    BY <1>1 DEF AInv, RequestInv
  <1>4. ~AtMonitor' /\ ~AtPic' /\ ~AtGuest'
    BY <1>1, <1>3 DEF AtMonitor, AtPic, AtGuest
  <1>5. /\ audio_mutex[fill_idx] = "callback" /\ audio_mutex[play_idx] = "callback"
        /\ ~audio_chunk_ready[play_idx]
    BY <1>1 DEF AInv, CallbackInv
  <1>6. RequestInv'
    BY <1>1, <1>4, <1>5 DEF RequestInv
  <1>7. pc \notin {"lock", "copy", "len", "unlock"}
    BY <1>3, <1>5 DEF AtGuest, AInv, GuestInv
  <1>8. Types'
    BY <1>1, <1>2 DEF AInv, Types
  <1>9. GuestInv' /\ CallbackInv'
    BY <1>1, <1>2, <1>5, <1>7 DEF AInv, GuestInv, CallbackInv
  <1> QED
    BY <1>6, <1>8, <1>9 DEF AInv

(* The request goes to the monitor, unless that is about to clear the flag.*)
LEMMA RequestPreserves == AInv /\ Request => AInv'
  <1> SUFFICES ASSUME AInv, Request PROVE AInv'
    OBVIOUS
  <1>1. /\ UNCHANGED <<audio_reload, pc, m, audio_chunk_ready, audio_mutex, play_idx, fill_idx,
                       audio_pos, slot, intr_no, monitor>>
        /\ cb = "request" /\ cb' = "mix"
    BY DEF Request, Step, guest, buffers
  <1>2. AtCallback /\ ~AtCallback'
    BY <1>1 DEF AtCallback
  <1>3. ~AtPic' /\ ~AtGuest' /\ ~audio_chunk_ready'[fill_idx']
    BY <1>1, <1>2 DEF AInv, RequestInv, AtPic, AtGuest
  <1>4. RequestInv'
    BY <1>2, <1>3 DEF RequestInv
  <1>5. Types' /\ GuestInv' /\ CallbackInv'
    BY <1>1 DEF AInv, Types, GuestInv, CallbackInv
  <1> QED
    BY <1>4, <1>5 DEF AInv

-----------------------------------------------------------------------------
(* The monitor.                                                            *)

LEMMA MonitorPreserves == AInv /\ Monitor => AInv'
  <1> SUFFICES ASSUME AInv, Monitor PROVE AInv'
    OBVIOUS
  <1>1. UNCHANGED <<audio_reload, pc, m, audio_chunk_ready, audio_mutex, play_idx, fill_idx,
                    audio_pos, cb>>
    BY DEF Monitor, MonitorRaise, MonitorClear, guest, buffers, playing
  <1>2. AtCallback' <=> AtCallback
    BY <1>1 DEF AtCallback
  <1>3. AtGuest' <=> AtGuest
    BY <1>1 DEF AtGuest
  <1>4. GuestInv' /\ CallbackInv'
    BY <1>1 DEF AInv, GuestInv, CallbackInv
  <1>5. CASE MonitorRaise
    <2>1. AtMonitor /\ ~AtMonitor'
      BY <1>5 DEF MonitorRaise, AtMonitor
    <2>2. slot' = AUDIO_IRQ + IRQ_BASE /\ intr_no' = intr_no /\ monitor' = "after"
      BY <1>5, RaiseFacts DEF MonitorRaise, AInv, Types
    <2>3. RequestInv'
      BY <1>1, <1>2, <1>3, <2>1 DEF AInv, RequestInv
    <2>4. Types'
      BY <1>1, <2>2 DEF AInv, Types
    <2> QED
      BY <1>4, <2>3, <2>4 DEF AInv
  <1>6. CASE MonitorClear
    <2>1. ~AtMonitor' /\ slot' = slot /\ intr_no' = intr_no /\ monitor' = "before"
      BY <1>6 DEF MonitorClear, AtMonitor
    <2>2. AtPic' <=> AtPic
      BY <2>1 DEF AtPic
    <2>3. RequestInv'
      BY <1>1, <1>2, <1>3, <2>1, <2>2 DEF AInv, RequestInv
    <2>4. Types'
      BY <1>1, <2>1 DEF AInv, Types
    <2> QED
      BY <1>4, <2>3, <2>4 DEF AInv
  <1> QED
    BY <1>5, <1>6 DEF Monitor

-----------------------------------------------------------------------------

LEMMA NextAInv == AInv /\ [Next]_vars => AInv'
  <1> SUFFICES ASSUME AInv, [Next]_vars PROVE AInv'
    OBVIOUS
  <1>1. CASE TimerFires \/ Handler
    BY <1>1, TimerPreserves, AudioIntrPreserves DEF Handler
  <1>2. CASE Guest
    BY <1>2, GuestPreserves, GuestMutexPreserves, CopyPreserves DEF Guest
  <1>3. CASE Callback
    BY <1>3, CallbackMutexPreserves, RunDryPreserves, SwitchPreserves, RequestPreserves
       DEF Callback, CallbackMutexStep
  <1>4. CASE Monitor
    BY <1>4, MonitorPreserves
  <1>5. CASE UNCHANGED vars
    BY <1>5 DEF vars, guest, buffers, playing, signals, AInv, Types, RequestInv, GuestInv,
       CallbackInv, AtCallback, AtMonitor, AtPic, AtGuest
  <1> QED
    BY <1>1, <1>2, <1>3, <1>4, <1>5 DEF Next

LEMMA AInvariant == DevicesSpec => []AInv
  BY DevicesStart, DevicesStep, InitAInv, NextAInv, PTL DEF DevicesSpec

(* The guest fills the chunk whose mutex it holds, which is never the one  *)
(* that is played, although it reads fill_idx unlocked (audio.c:182), and  *)
(* fill_audio()'s `assert(play_idx != fill_idx)' holds.                    *)
THEOREM IdleChunkIsFilled == DevicesSpec => []FillsTheIdleChunk
  <1>1. AInv => FillsTheIdleChunk
    BY DEF AInv, Types, GuestInv, CallbackInv, FillsTheIdleChunk
  <1> QED
    BY <1>1, AInvariant, PTL

(* Until the chunk is filled its request is somewhere, or has been lost.   *)
RequestKept == lost \/ audio_chunk_ready[fill_idx] \/ AtCallback \/ AtMonitor \/ AtPic \/ AtGuest

(* do_intr() runs to its end between two instructions.                     *)
Polled == intr_no # NO_INTR => Interruptible

LEMMA InitKept == Init => RequestKept /\ Polled
  BY DEF Init, RequestKept, AtMonitor, Polled

LEMMA NextPolled == Polled /\ [Next]_vars => Polled'
  <1> SUFFICES ASSUME Polled, [Next]_vars PROVE Polled'
    OBVIOUS
  <1>1. CASE TimerFires \/ Handler
    BY <1>1 DEF TimerFires, Handler, Query, TimerIntr, AudioIntr, Acknowledge, guest, Polled, Interruptible
  <1>2. CASE Guest
    BY <1>2 DEF Guest, Loop, Test, Write, LockFill, Copy, SetLen, Unlock, Clear, Goto, signals, Polled
  <1>3. CASE Callback
    BY <1>3 DEF Callback, Enter, PlayOn, RunDry, Look, LookAgain, Switch, Release, Request, Mix,
       guest, signals, Polled, Interruptible
  <1>4. CASE Monitor \/ UNCHANGED vars
    BY <1>4 DEF Monitor, MonitorRaise, MonitorClear, vars, guest, signals, Polled, Interruptible
  <1> QED
    BY <1>1, <1>2, <1>3, <1>4 DEF Next

LEMMA NextKept == AInv /\ Polled /\ RequestKept /\ [Next]_vars => RequestKept'
  <1> SUFFICES ASSUME AInv, Polled, RequestKept, [Next]_vars PROVE RequestKept'
    OBVIOUS
  <1>1. CASE TimerFires \/ Query
    BY <1>1, RaiseFacts DEF TimerFires, Query, guest, buffers, playing, AInv, Types, RequestKept,
       AtCallback, AtMonitor, AtPic, AtGuest
  <1>2. CASE TimerIntr
    <2>1. CASE slot = intr_no
      <3>1. ~AtPic
        BY <1>2, <2>1 DEF TimerIntr, AtPic, TIMER_IRQ, AUDIO_IRQ, IRQ_BASE
      <3>2. UNCHANGED <<audio_reload, audio_chunk_ready, fill_idx, cb, switch_buf, monitor>>
        BY <1>2 DEF TimerIntr, buffers, playing
      <3>3. lost => lost'
        BY <1>2 DEF TimerIntr
      <3>4. pc' = pc \/ pc' = "test"
        BY <1>2 DEF TimerIntr, Woken
      <3> QED
        BY <3>1, <3>2, <3>3, <3>4 DEF RequestKept, AtCallback, AtMonitor, AtGuest
    <2>2. CASE slot # intr_no
      BY <1>2, <2>2 DEF TimerIntr, RequestKept
    <2> QED
      BY <2>1, <2>2
  <1>3. CASE AudioIntr
    <2>1. pc \notin {"len", "unlock"}
      BY <1>3 DEF AudioIntr, Polled, Interruptible, NO_INTR, AUDIO_IRQ, IRQ_BASE
    <2> QED
      BY <1>3, <2>1 DEF AudioIntr, Woken, RequestKept, AtGuest
  <1>4. CASE Guest
    <2>1. UNCHANGED <<fill_idx, cb, slot, intr_no, switch_buf, monitor, lost>>
      BY <1>4 DEF Guest, Loop, Test, Write, LockFill, Copy, SetLen, Unlock, Clear, playing, signals
    <2>2. CASE Copy
      BY <2>1, <2>2 DEF Copy, AInv, Types, RequestKept
    <2>3. CASE ~Copy
      <3>1. audio_chunk_ready' = audio_chunk_ready /\ (AtGuest => AtGuest')
        BY <1>4, <2>3 DEF Guest, Loop, Test, Write, LockFill, SetLen, Unlock, Clear, Goto, buffers,
           AtGuest
      <3> QED
        BY <2>1, <3>1 DEF RequestKept, AtCallback, AtMonitor, AtPic
    <2> QED
      BY <2>2, <2>3
  <1>5. CASE Callback
    <2>1. UNCHANGED <<audio_reload, pc, slot, intr_no, monitor>>
      BY <1>5 DEF Callback, Enter, PlayOn, RunDry, Look, LookAgain, Switch, Release, Request, Mix,
         guest, signals
    <2>2. CASE Switch
      BY <2>2 DEF Switch, Step, RequestKept, AtCallback
    <2>3. CASE Request
      BY <2>3 DEF Request, RequestKept, AtMonitor, AInv, Types, Step
    <2>4. CASE RunDry
      <3>1. audio_chunk_ready'[fill_idx'] = audio_chunk_ready[fill_idx]
        BY <2>4 DEF RunDry, AInv, Types
      <3> QED
        BY <2>1, <2>4, <3>1 DEF RunDry, Step, signals, RequestKept, AtCallback, AtMonitor, AtPic, AtGuest
    <2>5. CASE CallbackMutexStep
      <3>1. UNCHANGED <<audio_chunk_ready, fill_idx, switch_buf, lost>> /\ (AtCallback => AtCallback')
        BY <2>5 DEF CallbackMutexStep, Enter, PlayOn, Look, LookAgain, Release, Mix, Step,
           buffers, signals, AtCallback
      <3> QED
        BY <2>1, <3>1 DEF RequestKept, AtMonitor, AtPic, AtGuest
    <2> QED
      BY <1>5, <2>2, <2>3, <2>4, <2>5 DEF Callback, CallbackMutexStep
  <1>6. CASE Monitor
    BY <1>6, RaiseFacts DEF Monitor, MonitorRaise, MonitorClear, guest, buffers, playing, AInv,
       Types, RequestKept, AtCallback, AtMonitor, AtPic, AtGuest
  <1>7. CASE UNCHANGED vars
    BY <1>7 DEF vars, guest, buffers, playing, signals, RequestKept, AtCallback, AtMonitor, AtPic, AtGuest
  <1> QED
    BY <1>1, <1>2, <1>3, <1>4, <1>5, <1>6, <1>7 DEF Next, Handler

(* As long as the chunk to be filled is not ready, the request for it is   *)
(* with the callback, the monitor, the PIC or the guest: it vanishes in    *)
(* the three windows only in which `lost' is set, an assignment of the     *)
(* monitor (audio.c:151), of the guest (credits.c:51) or of do_intr()'s    *)
(* acknowledgement (cpu.c:163) over a store of another thread.             *)
THEOREM RequestsAreKept == DevicesSpec => []RequestKept
  BY DevicesStart, DevicesStep, InitKept, NextPolled, NextKept, AInvariant, PTL DEF DevicesSpec

-----------------------------------------------------------------------------
(* The chunks as a queue.                                                  *)

Sizes == {BlockSize, StreamSize, NBlocks} \subseteq Nat \ {0}

Bytes == Int \X Int

(* What is left to be heard of a block, and of a chunk.                    *)
Rest(block, len) == [i \in 1 .. len |-> <<block[BlockSize - len + i], BlockSize - len + i>>]

Part(ready, block, len) == IF ready THEN Rest(block, len) ELSE <<>>

Playing == Part(audio_chunk_ready[play_idx], audio_chunk[play_idx], audio_len[play_idx])
Waiting == Part(audio_chunk_ready[fill_idx], audio_chunk[fill_idx], BlockSize)

(* A chunk that is ready has a whole block, until it is played; and the    *)
(* callback plays on where it has stopped.                                 *)
QInv ==
  /\ sent \in Int
  /\ audio_chunk \in [Chunks -> [Offsets -> Int]]
  /\ audio_len \in [Chunks -> 0 .. BlockSize]
  /\ audio_chunk_ready[play_idx] => audio_pos[2] = BlockSize - audio_len[play_idx] + 1
  /\ audio_chunk_ready[fill_idx] /\ pc # "len" => audio_len[fill_idx] = BlockSize
  /\ cb \in {"release", "request", "mix"} =>
       audio_chunk_ready[play_idx] /\ audio_len[play_idx] > 0

LEMMA QueueParts == Queue = Playing \o Waiting /\ Queue' = Playing' \o Waiting'
  BY DEF Queue, Playing, Waiting, Part, Rest, Left, Sound

LEMMA RestFacts ==
  ASSUME Sizes, NEW block \in [Offsets -> Int], NEW len \in 0 .. BlockSize
  PROVE  /\ Rest(block, len) \in Seq(Bytes)
         /\ Len(Rest(block, len)) = len
         /\ \A i \in 1 .. len : Rest(block, len)[i] = <<block[BlockSize - len + i], BlockSize - len + i>>
  <1>1. BlockSize \in Nat /\ len \in Nat
    BY DEF Sizes
  <1>2. \A i \in 1 .. len : <<block[BlockSize - len + i], BlockSize - len + i>> \in Bytes
    BY <1>1 DEF Bytes, Offsets
  <1>3. Rest(block, len) \in [1 .. len -> Bytes]
    BY <1>2 DEF Rest
  <1>4. Rest(block, len) \in Seq(Bytes) /\ DOMAIN Rest(block, len) = 1 .. len
    BY <1>1, <1>3, SeqDef
  <1>5. Len(Rest(block, len)) = len
    BY <1>1, <1>4, LenProperties
  <1> QED
    BY <1>4, <1>5 DEF Rest

LEMMA PartFacts ==
  ASSUME Sizes, NEW block \in [Offsets -> Int], NEW len \in 0 .. BlockSize, NEW ready \in BOOLEAN
  PROVE  /\ Part(ready, block, len) \in Seq(Bytes)
         /\ Len(Part(ready, block, len)) \in 0 .. len
         /\ ready => Part(ready, block, len) = Rest(block, len)
         /\ ~ready \/ len = 0 => Part(ready, block, len) = <<>>
  <1>1. len \in Nat
    BY DEF Sizes
  <1>2. CASE ready
    <2>1. Part(ready, block, len) = Rest(block, len)
      BY <1>2 DEF Part
    <2>2. len = 0 => Rest(block, len) = <<>>
      BY EmptySeq, RestFacts
    <2>3. Rest(block, len) \in Seq(Bytes) /\ Len(Rest(block, len)) \in 0 .. len
      BY <1>1, RestFacts
    <2> QED
      BY <1>2, <2>1, <2>2, <2>3, Zenon
  <1>3. CASE ~ready
    <2>1. Part(ready, block, len) = <<>>
      BY <1>3 DEF Part
    <2> QED
      BY <1>1, <1>3, <2>1, EmptySeq
  <1> QED
    BY <1>2, <1>3

(* The first n of a sequence that goes on, and what is then left.          *)
LEMMA SliceFacts ==
  ASSUME NEW S, NEW s \in Seq(S), NEW t \in Seq(S), NEW n \in 1 .. Len(s)
  PROVE  /\ SubSeq(s \o t, 1, n) = SubSeq(s, 1, n)
         /\ SubSeq(s \o t, n + 1, Len(s \o t)) = SubSeq(s, n + 1, Len(s)) \o t
  <1>1. Len(s) \in Nat /\ Len(t) \in Nat
    BY LenProperties
  <1>2. SubSeq(s \o t, 1, n) = SubSeq(s, 1, n)
    BY <1>1, SubSeqOfConcat1
  <1> DEFINE st == s \o t  front == SubSeq(s, n + 1, Len(s))  back == SubSeq(st, n + 1, Len(st))
  <1>3. /\ st \in Seq(S) /\ Len(st) = Len(s) + Len(t)
        /\ \A i \in 1 .. Len(s) + Len(t) : st[i] = IF i <= Len(s) THEN s[i] ELSE t[i - Len(s)]
    BY ConcatProperties
  <1> HIDE DEF st
  <1>4. /\ front \in Seq(S) /\ Len(front) = Len(s) - n
        /\ \A i \in 1 .. Len(s) - n : front[i] = s[n + i]
    <2>1. \A i \in n + 1 .. Len(s) : s[i] \in S
      BY <1>1, ElementOfSeq
    <2>2. /\ front \in Seq(S) /\ Len(front) = IF n + 1 <= Len(s) THEN Len(s) - (n + 1) + 1 ELSE 0
          /\ \A i \in 1 .. Len(s) - (n + 1) + 1 : front[i] = s[n + 1 + i - 1]
      BY <1>1, <2>1, SubSeqProperties
    <2> HIDE DEF front
    <2> QED
      BY <1>1, <2>2
  <1>5. /\ back \in Seq(S) /\ Len(back) = Len(st) - n
        /\ \A i \in 1 .. Len(st) - n : back[i] = st[n + i]
    <2>1. Len(st) \in Nat /\ n + 1 \in Int /\ n <= Len(st)
      BY <1>1, <1>3
    <2>2. \A i \in n + 1 .. Len(st) : st[i] \in S
      BY <1>3, <2>1, ElementOfSeq
    <2>3. /\ back \in Seq(S) /\ Len(back) = IF n + 1 <= Len(st) THEN Len(st) - (n + 1) + 1 ELSE 0
          /\ \A i \in 1 .. Len(st) - (n + 1) + 1 : back[i] = st[n + 1 + i - 1]
      BY <2>1, <2>2, SubSeqProperties
    <2> HIDE DEF back
    <2>4. Len(back) = Len(st) - n /\ Len(st) - (n + 1) + 1 = Len(st) - n
      BY <2>1, <2>3
    <2>5. ASSUME NEW i \in 1 .. Len(st) - n PROVE back[i] = st[n + i]
      <3>1. n + 1 + i - 1 = n + i
        OBVIOUS
      <3> QED
        BY <2>3, <2>4, <3>1
    <2> QED
      BY <2>3, <2>4, <2>5
  <1> HIDE DEF front, back
  <1> DEFINE joined == front \o t
  <1>6. /\ joined \in Seq(S) /\ Len(joined) = Len(front) + Len(t)
        /\ \A i \in 1 .. Len(front) + Len(t) :
             joined[i] = IF i <= Len(front) THEN front[i] ELSE t[i - Len(front)]
    BY <1>4, ConcatProperties
  <1> HIDE DEF joined
  <1>7. Len(back) = Len(joined)
    BY <1>1, <1>3, <1>4, <1>5, <1>6
  <1>8. ASSUME NEW i \in 1 .. Len(back) PROVE back[i] = joined[i]
    <2>1. i \in 1 .. Len(s) + Len(t) - n /\ back[i] = st[n + i]
      BY <1>1, <1>3, <1>5
    <2>2. CASE i <= Len(s) - n
      BY <1>1, <1>3, <1>4, <1>6, <2>1, <2>2
    <2>3. CASE ~(i <= Len(s) - n)
      <3>1. st[n + i] = t[n + i - Len(s)]
        BY <1>1, <1>3, <2>1, <2>3
      <3>2. joined[i] = t[i - (Len(s) - n)]
        BY <1>1, <1>4, <1>6, <2>1, <2>3
      <3>3. n + i - Len(s) = i - (Len(s) - n)
        BY <1>1, <2>1
      <3> QED
        BY <2>1, <3>1, <3>2, <3>3
    <2> QED
      BY <2>2, <2>3
  <1>9. back = joined
    BY <1>5, <1>6, <1>7, <1>8, SeqEqual
  <1> QED
    BY <1>2, <1>9 DEF back, joined, st, front

(* The two parts of the queue.                                             *)
LEMMA QueueFacts ==
  ASSUME Sizes, AInv, QInv
  PROVE  /\ Playing \in Seq(Bytes) /\ Len(Playing) \in 0 .. BlockSize
         /\ Waiting \in Seq(Bytes) /\ Len(Waiting) \in 0 .. BlockSize
         /\ audio_chunk_ready[play_idx] =>
              Playing = Rest(audio_chunk[play_idx], audio_len[play_idx])
         /\ ~audio_chunk_ready[play_idx] \/ audio_len[play_idx] = 0 => Playing = <<>>
         /\ audio_chunk_ready[fill_idx] => Waiting = Rest(audio_chunk[fill_idx], BlockSize)
         /\ ~audio_chunk_ready[fill_idx] => Waiting = <<>>
  <1>1. /\ audio_chunk[play_idx] \in [Offsets -> Int] /\ audio_chunk[fill_idx] \in [Offsets -> Int]
        /\ audio_len[play_idx] \in 0 .. BlockSize /\ BlockSize \in 0 .. BlockSize
        /\ audio_chunk_ready[play_idx] \in BOOLEAN /\ audio_chunk_ready[fill_idx] \in BOOLEAN
    BY DEF AInv, Types, QInv, Sizes
  <1>2. /\ Playing \in Seq(Bytes) /\ Len(Playing) \in 0 .. audio_len[play_idx]
        /\ audio_chunk_ready[play_idx] =>
              Playing = Rest(audio_chunk[play_idx], audio_len[play_idx])
        /\ ~audio_chunk_ready[play_idx] \/ audio_len[play_idx] = 0 => Playing = <<>>
    BY <1>1, PartFacts DEF Playing
  <1>3. /\ Waiting \in Seq(Bytes) /\ Len(Waiting) \in 0 .. BlockSize
        /\ audio_chunk_ready[fill_idx] => Waiting = Rest(audio_chunk[fill_idx], BlockSize)
        /\ ~audio_chunk_ready[fill_idx] => Waiting = <<>>
    BY <1>1, PartFacts DEF Waiting
  <1>4. Len(Playing) \in 0 .. BlockSize
    BY <1>1, <1>2 DEF Sizes
  <1> QED
    BY <1>2, <1>3, <1>4

LEMMA InitQueue ==
  ASSUME Sizes, Init
  PROVE  QInv /\ Promised!Init
  <1>1. /\ audio_chunk = [c \in Chunks |-> [o \in Offsets |-> Noise]]
        /\ audio_len = [c \in Chunks |-> 0] /\ audio_chunk_ready = [c \in Chunks |-> FALSE]
        /\ play_idx = 0 /\ fill_idx = 1 /\ cb = "idle" /\ sent = 0 /\ heard = <<>>
    BY DEF Init
  <1>2. ~audio_chunk_ready[play_idx] /\ ~audio_chunk_ready[fill_idx]
    BY <1>1 DEF Chunks
  <1>3. QInv
    BY <1>1, <1>2 DEF QInv, Sizes, Noise
  <1>4. Queue = <<>> \o <<>>
    BY <1>2, QueueParts DEF Playing, Waiting, Part
  <1>5. Queue = <<>>
    BY <1>4, ConcatEmptySeq, EmptySeq
  <1> QED
    BY <1>1, <1>3, <1>5 DEF Promised!Init

-----------------------------------------------------------------------------
(* The steps that leave the chunks and what is heard alone.                *)

QuietStep ==
  \/ TimerFires \/ Handler \/ Monitor
  \/ Loop \/ Test \/ Write \/ LockFill \/ Unlock \/ Clear
  \/ Enter \/ PlayOn \/ Look \/ LookAgain \/ Release \/ Request
  \/ UNCHANGED vars

LEMMA QuietQueue ==
  ASSUME QInv, QuietStep
  PROVE  QInv' /\ UNCHANGED <<sent, Queue, heard>>
  <1>1. /\ UNCHANGED <<audio_chunk, audio_len, audio_chunk_ready, play_idx, fill_idx, audio_pos,
                       sent, heard>>
        /\ pc' # "len" <=> pc # "len"
        /\ cb' = cb \/ (cb' = "mix" /\ HasMore) \/ cb' \notin {"release", "request", "mix"}
           \/ cb \in {"release", "request"}
    <2>1. CASE TimerFires \/ Handler \/ Monitor \/ UNCHANGED vars
      BY <2>1 DEF TimerFires, Handler, Query, TimerIntr, AudioIntr, Monitor, MonitorRaise, MonitorClear,
         Woken, Interruptible, vars, guest, buffers, playing, signals
    <2>2. CASE Loop \/ Test \/ Write \/ LockFill \/ Unlock \/ Clear
      BY <2>2 DEF Loop, Test, Write, LockFill, Unlock, Clear, Goto, buffers, playing
    <2>3. CASE Enter \/ PlayOn \/ Look \/ LookAgain \/ Release \/ Request
      BY <2>3 DEF Enter, PlayOn, Look, LookAgain, Release, Request, Step, guest, buffers
    <2> QED
      BY <2>1, <2>2, <2>3 DEF QuietStep
  <1>2. QInv'
    BY <1>1 DEF QInv, HasMore
  <1>3. UNCHANGED Queue
    BY <1>1 DEF Queue, Left, Sound
  <1> QED
    BY <1>1, <1>2, <1>3

-----------------------------------------------------------------------------
(* The steps that change them.                                             *)

(* What the copy threads bring is a block, with noise where they have left *)
(* something out.                                                          *)
LEMMA CopyWrites ==
  ASSUME Sizes, AInv, QInv, Copy
  PROVE  QInv' /\ Promised!Write
  <1>1. PICK idx1 \in 0 .. 2, idx2 \in 0 .. 2 :
          audio_chunk' = [audio_chunk EXCEPT ![fill_idx] =
            [o \in Offsets |-> IF o \in Share(idx1) \union Share(idx2) THEN sent ELSE Noise]]
    BY DEF Copy
  <1> DEFINE noisy == Offsets \ (Share(idx1) \union Share(idx2))
             block == [o \in Offsets |-> IF o \in noisy THEN Noise ELSE sent]
             bytes == [o \in 1 .. BlockSize |-> <<IF o \in noisy THEN Promised!Noise ELSE sent, o>>]
  <1>2. audio_chunk' = [audio_chunk EXCEPT ![fill_idx] = block]
    BY <1>1
  <1>3. /\ noisy \in SUBSET (1 .. BlockSize)
        /\ block \in [Offsets -> Int]
        /\ BlockSize \in Nat
    BY DEF Offsets, Noise, QInv, Sizes
  <1>4. /\ UNCHANGED <<audio_len, play_idx, fill_idx, audio_pos, cb, heard>>
        /\ audio_chunk_ready' = [audio_chunk_ready EXCEPT ![fill_idx] = TRUE]
        /\ sent' = (sent + 1) % NBlocks /\ pc = "copy" /\ pc' = "len"
    BY DEF Copy, Goto, playing
  <1>5. Rest(block, BlockSize) = bytes
    BY <1>3 DEF Rest, Promised!Noise, Noise, Offsets
  <1> HIDE DEF block, bytes, noisy
  <1>6. ~audio_chunk_ready[fill_idx] /\ fill_idx \in Chunks /\ play_idx \in Chunks /\ play_idx # fill_idx
    BY <1>4 DEF AInv, GuestInv, RequestInv, AtGuest, Types
  <1>7. /\ audio_chunk' \in [Chunks -> [Offsets -> Int]]
        /\ audio_chunk'[play_idx] = audio_chunk[play_idx] /\ audio_chunk'[fill_idx] = block
    BY <1>2, <1>3, <1>6 DEF QInv
  <1>8. /\ audio_chunk_ready'[play_idx] = audio_chunk_ready[play_idx]
        /\ audio_chunk_ready'[fill_idx] = TRUE
    BY <1>4, <1>6 DEF AInv, Types
  <1>9. Playing' = Playing /\ Waiting' = Rest(block, BlockSize)
    BY <1>4, <1>7, <1>8 DEF Playing, Waiting, Part
  <1>10. Playing \in Seq(Bytes) /\ Len(Playing) \in 0 .. BlockSize /\ Waiting = <<>>
    BY <1>6, QueueFacts
  <1>11. Queue = Playing
    BY <1>10, QueueParts, ConcatEmptySeq
  <1>12. Queue' = Queue \o bytes
    <2>1. Queue' = Playing' \o Waiting'
      BY QueueParts
    <2> QED
      BY <1>5, <1>9, <1>11, <2>1
  <1>13. Len(Queue) <= BlockSize
    BY <1>3, <1>10, <1>11
  <1>14. Promised!Write
    BY <1>3, <1>4, <1>12, <1>13 DEF Promised!Write, bytes
  <1>15. sent' \in Int
    BY <1>4 DEF QInv, Sizes
  <1>16. QInv'
    BY <1>4, <1>7, <1>8, <1>15 DEF QInv
  <1> QED
    BY <1>14, <1>16

LEMMA SetLenQueue ==
  ASSUME Sizes, AInv, QInv, SetLen
  PROVE  QInv' /\ UNCHANGED <<sent, Queue, heard>>
  <1>1. /\ UNCHANGED <<sent, audio_chunk, audio_chunk_ready, play_idx, fill_idx, audio_pos, cb, heard>>
        /\ audio_len' = [audio_len EXCEPT ![fill_idx] = BlockSize]
    BY DEF SetLen, playing
  <1>2. /\ fill_idx \in Chunks /\ play_idx \in Chunks /\ play_idx # fill_idx
        /\ BlockSize \in 0 .. BlockSize
    BY DEF AInv, Types, Sizes
  <1>3. /\ audio_len' \in [Chunks -> 0 .. BlockSize]
        /\ audio_len'[play_idx] = audio_len[play_idx] /\ audio_len'[fill_idx] = BlockSize
    BY <1>1, <1>2 DEF QInv
  <1>4. QInv'
    BY <1>1, <1>3 DEF QInv
  <1>5. UNCHANGED <<Playing, Waiting>>
    BY <1>1, <1>3 DEF Playing, Waiting, Part
  <1>6. UNCHANGED Queue
    BY <1>5, QueueParts
  <1> QED
    BY <1>1, <1>4, <1>6

(* Nothing is left of the chunk that is given up.                          *)
LEMMA RunDryQueue ==
  ASSUME Sizes, AInv, QInv, RunDry
  PROVE  QInv' /\ UNCHANGED <<sent, Queue, heard>>
  <1>1. /\ UNCHANGED <<pc, sent, audio_chunk, audio_len, play_idx, fill_idx, audio_pos, heard>>
        /\ audio_chunk_ready' = [audio_chunk_ready EXCEPT ![play_idx] = FALSE]
        /\ cb' = "wait" /\ ~HasMore
    BY DEF RunDry, Step, guest
  <1>2. /\ fill_idx \in Chunks /\ play_idx \in Chunks /\ play_idx # fill_idx
        /\ audio_len[play_idx] \in 0 .. BlockSize /\ BlockSize \in Nat
    BY DEF AInv, Types, QInv, Sizes
  <1>3. /\ audio_chunk_ready'[play_idx] = FALSE
        /\ audio_chunk_ready'[fill_idx] = audio_chunk_ready[fill_idx]
    BY <1>1, <1>2 DEF AInv, Types
  <1>4. ~audio_chunk_ready[play_idx] \/ audio_len[play_idx] = 0
    BY <1>1, <1>2 DEF HasMore
  <1>5. Playing = <<>>
    BY <1>4, QueueFacts
  <1>6. Playing' = <<>> /\ Waiting' = Waiting
    BY <1>1, <1>3 DEF Playing, Waiting, Part
  <1>7. QInv'
    BY <1>1, <1>3 DEF QInv
  <1>8. Queue' = Playing' \o Waiting'
    BY QueueParts
  <1>9. UNCHANGED Queue
    BY <1>5, <1>6, <1>8, QueueParts
  <1> QED
    BY <1>1, <1>7, <1>9

(* The whole block that waited is the one that is played.                  *)
LEMMA SwitchQueue ==
  ASSUME Sizes, AInv, QInv, Switch
  PROVE  QInv' /\ UNCHANGED <<sent, Queue, heard>>
  <1>1. /\ UNCHANGED <<pc, sent, audio_chunk, audio_len, audio_chunk_ready, heard>>
        /\ cb = "look" /\ cb' = "release" /\ audio_chunk_ready[fill_idx]
        /\ fill_idx' = play_idx /\ play_idx' = (play_idx + 1) % 2 /\ audio_pos' = <<play_idx', 1>>
    BY DEF Switch, Step, guest, buffers
  <1>2. /\ fill_idx \in Chunks /\ play_idx \in Chunks /\ play_idx # fill_idx
        /\ BlockSize \in Nat \ {0}
    BY DEF AInv, Types, Sizes
  <1>3. play_idx' = fill_idx
    BY <1>1, <1>2, OtherChunk DEF Chunks
  <1>4. ~audio_chunk_ready[play_idx] /\ audio_mutex[fill_idx] = "callback"
    BY <1>1 DEF AInv, CallbackInv
  <1>5. pc # "len"
    BY <1>4 DEF AInv, GuestInv
  <1>6. audio_len[fill_idx] = BlockSize
    BY <1>1, <1>5 DEF QInv
  <1>7. QInv'
    BY <1>1, <1>2, <1>3, <1>4, <1>6 DEF QInv
  <1>8. Playing = <<>> /\ Waiting = Rest(audio_chunk[fill_idx], BlockSize) /\ Waiting \in Seq(Bytes)
    BY <1>1, <1>4, QueueFacts
  <1>9. Playing' = Waiting /\ Waiting' = <<>>
    BY <1>1, <1>3, <1>4, <1>6, <1>8 DEF Playing, Waiting, Part
  <1>10. Queue = Waiting
    BY <1>8, QueueParts, ConcatEmptySeq
  <1>11. Queue' = Playing' \o Waiting'
    BY QueueParts
  <1>12. UNCHANGED Queue
    BY <1>8, <1>9, <1>10, <1>11, ConcatEmptySeq
  <1> QED
    BY <1>1, <1>7, <1>12

(* The callback plays the beginning of the queue.                          *)
LEMMA MixPlays ==
  ASSUME Sizes, AInv, QInv, Mix
  PROVE  QInv' /\ Promised!Play
  <1> DEFINE left  == audio_len[play_idx]
             len   == IF StreamSize > left THEN left ELSE StreamSize
             block == audio_chunk[play_idx]
  <1>1. /\ UNCHANGED <<pc, sent, audio_chunk, audio_chunk_ready, play_idx, fill_idx>>
        /\ cb = "mix" /\ cb' = "idle"
        /\ heard' = [i \in 1 .. len |-> Sound(audio_pos[1], audio_pos[2] + i - 1)]
        /\ audio_pos' = <<audio_pos[1], audio_pos[2] + len>>
        /\ audio_len' = [audio_len EXCEPT ![play_idx] = left - len]
    BY DEF Mix, Step, guest
  <1>2. /\ fill_idx \in Chunks /\ play_idx \in Chunks /\ play_idx # fill_idx
        /\ audio_pos[1] = play_idx /\ BlockSize \in Nat /\ StreamSize \in Nat \ {0}
        /\ audio_chunk_ready[play_idx] /\ left \in 1 .. BlockSize
        /\ audio_pos[2] = BlockSize - left + 1 /\ block \in [Offsets -> Int]
    BY <1>1 DEF AInv, Types, QInv, Sizes
  <1>3. len \in 1 .. left /\ left - len \in 0 .. BlockSize
    BY <1>2
  <1> HIDE DEF left, len
  <1>4. /\ audio_len' \in [Chunks -> 0 .. BlockSize]
        /\ audio_len'[play_idx] = left - len /\ audio_len'[fill_idx] = audio_len[fill_idx]
    BY <1>1, <1>2, <1>3 DEF QInv
  <1>5. audio_pos'[2] = BlockSize - (left - len) + 1
    BY <1>1, <1>2, <1>3
  <1>6. QInv'
    BY <1>1, <1>4, <1>5 DEF QInv
  <1>7. Playing = Rest(block, left) /\ Playing \in Seq(Bytes) /\ Waiting \in Seq(Bytes)
    BY <1>2, QueueFacts DEF left
  <1> HIDE DEF block
  <1>8. /\ Len(Playing) = left
        /\ \A i \in 1 .. left : Playing[i] = <<block[BlockSize - left + i], BlockSize - left + i>>
    <2>1. left \in 0 .. BlockSize
      BY <1>2
    <2> QED
      BY <1>2, <1>7, <2>1, RestFacts
  <1>9. heard' = SubSeq(Queue, 1, len)
    <2>1. len \in 1 .. Len(Playing)
      BY <1>3, <1>8
    <2>2. SubSeq(Queue, 1, len) = SubSeq(Playing, 1, len)
      BY <1>7, <2>1, QueueParts, SliceFacts
    <2>3. \A i \in 1 .. len : Playing[i] \in Bytes
      BY <1>3, <1>7, <1>8, ElementOfSeq
    <2>4. /\ SubSeq(Playing, 1, len) \in Seq(Bytes) /\ Len(SubSeq(Playing, 1, len)) = len
          /\ \A i \in 1 .. len : SubSeq(Playing, 1, len)[i] = Playing[i]
      <3> DEFINE front == SubSeq(Playing, 1, len)
      <3>1. /\ front \in Seq(Bytes) /\ Len(front) = IF 1 <= len THEN len - 1 + 1 ELSE 0
            /\ \A i \in 1 .. len - 1 + 1 : front[i] = Playing[1 + i - 1]
        BY <1>2, <1>3, <2>3, SubSeqProperties
      <3> HIDE DEF front
      <3>2. len \in Nat /\ len >= 1
        BY <1>2, <1>3
      <3>3. \A i \in 1 .. len : i \in 1 .. len - 1 + 1 /\ 1 + i - 1 = i
        BY <3>2
      <3>4. Len(front) = len
        BY <3>1, <3>2
      <3>5. \A i \in 1 .. len : front[i] = Playing[i]
        BY <3>1, <3>3
      <3> QED
        BY <3>1, <3>4, <3>5 DEF front
    <2>5. \A i \in 1 .. len :
            /\ Sound(audio_pos[1], audio_pos[2] + i - 1) = Playing[i]
      <3> SUFFICES ASSUME NEW i \in 1 .. len
                   PROVE  Sound(audio_pos[1], audio_pos[2] + i - 1) = Playing[i]
        OBVIOUS
      <3>1. audio_pos[2] + i - 1 = BlockSize - left + i /\ i \in 1 .. left
        BY <1>2, <1>3
      <3> QED
        BY <1>2, <1>8, <3>1 DEF Sound, block
    <2>6. heard' = [i \in 1 .. len |-> Playing[i]]
      BY <1>1, <2>5
    <2>7. heard' \in Seq(Bytes) /\ Len(heard') = len
      <3>1. heard' \in [1 .. len -> Bytes] /\ len \in Nat
        BY <1>2, <1>3, <2>3, <2>6
      <3>2. heard' \in Seq(Bytes) /\ DOMAIN heard' = 1 .. len
        BY <3>1, SeqDef
      <3> QED
        BY <3>1, <3>2, LenProperties
    <2>8. heard' = SubSeq(Playing, 1, len)
      BY <2>4, <2>6, <2>7, SeqEqual
    <2> QED
      BY <2>2, <2>8
  <1>10. Queue' = SubSeq(Queue, len + 1, Len(Queue))
    <2>1. len \in 1 .. Len(Playing)
      BY <1>3, <1>8
    <2>2. SubSeq(Queue, len + 1, Len(Queue)) = SubSeq(Playing, len + 1, Len(Playing)) \o Waiting
      BY <1>7, <2>1, QueueParts, SliceFacts
    <2>3. Playing' = Rest(block, left - len) /\ Waiting' = Waiting
      BY <1>1, <1>2, <1>4 DEF Playing, Waiting, Part, block
    <2> DEFINE back == SubSeq(Playing, len + 1, left)
    <2>4. /\ back \in Seq(Bytes) /\ Len(back) = left - len
          /\ \A i \in 1 .. left - len : back[i] = Playing[len + i]
      <3>1. \A i \in len + 1 .. left : Playing[i] \in Bytes
        <4>1. \A i \in len + 1 .. left : i \in 1 .. Len(Playing)
          BY <1>2, <1>3, <1>8
        <4> QED
          BY <1>7, <4>1, ElementOfSeq
      <3>2. left \in Int /\ len + 1 \in Int
        BY <1>2, <1>3
      <3>3. /\ back \in Seq(Bytes)
            /\ Len(back) = IF len + 1 <= left THEN left - (len + 1) + 1 ELSE 0
            /\ \A i \in 1 .. left - (len + 1) + 1 : back[i] = Playing[len + 1 + i - 1]
        BY <3>1, <3>2, SubSeqProperties
      <3> HIDE DEF back
      <3>4. Len(back) = left - len
        BY <1>2, <1>3, <3>3
      <3>5. \A i \in 1 .. left - len : i \in 1 .. left - (len + 1) + 1 /\ len + 1 + i - 1 = len + i
        BY <1>2, <1>3
      <3> QED
        BY <3>3, <3>4, <3>5
    <2> HIDE DEF back
    <2>5. /\ Rest(block, left - len) \in Seq(Bytes) /\ Len(Rest(block, left - len)) = left - len
          /\ \A i \in 1 .. left - len : Rest(block, left - len)[i]
                 = <<block[BlockSize - (left - len) + i], BlockSize - (left - len) + i>>
      BY <1>2, <1>3, RestFacts
    <2>6. \A i \in 1 .. left - len : Rest(block, left - len)[i] = back[i]
      <3> SUFFICES ASSUME NEW i \in 1 .. left - len PROVE Rest(block, left - len)[i] = back[i]
        OBVIOUS
      <3>1. BlockSize - (left - len) + i = BlockSize - left + (len + i) /\ len + i \in 1 .. left
        BY <1>2, <1>3
      <3> QED
        BY <1>8, <2>4, <2>5, <3>1
    <2>7. Rest(block, left - len) = back
      BY <2>4, <2>5, <2>6, SeqEqual
    <2>8. Queue' = Playing' \o Waiting'
      BY QueueParts
    <2> QED
      BY <1>8, <2>2, <2>3, <2>7, <2>8 DEF back
  <1>11. len \in 1 .. Len(Queue)
    <2>1. Len(Queue) = left + Len(Waiting) /\ Len(Waiting) \in Nat
      BY <1>7, <1>8, QueueParts, ConcatProperties, LenProperties
    <2> QED
      BY <1>2, <1>3, <2>1
  <1>12. Promised!Play
    BY <1>1, <1>9, <1>10, <1>11 DEF Promised!Play
  <1> QED
    BY <1>6, <1>12

LEMMA NextQueue ==
  ASSUME Sizes, AInv, QInv, [Next]_vars
  PROVE  QInv' /\ [Promised!Next]_<<sent, Queue, heard>>
  <1>1. CASE QuietStep
    BY <1>1, QuietQueue
  <1>2. CASE Copy
    BY <1>2, CopyWrites DEF Promised!Next
  <1>3. CASE SetLen \/ RunDry \/ Switch
    BY <1>3, SetLenQueue, RunDryQueue, SwitchQueue
  <1>4. CASE Mix
    BY <1>4, MixPlays DEF Promised!Next
  <1> QED
    BY <1>1, <1>2, <1>3, <1>4 DEF Next, Guest, Callback, QuietStep

(* What the guest writes is heard in order, each byte once and each block  *)
(* to its end, in every interleaving of the four threads.                  *)
THEOREM SoundIsQueued == DevicesSpec => ImplementsSoundQueue
  <1>1. Sizes
    BY AudioAssumption DEF Sizes
  <1>2. Init => QInv /\ Promised!Init
    BY <1>1, InitQueue
  <1>3. AInv /\ QInv /\ [Next]_vars => QInv' /\ [Promised!Next]_<<sent, Queue, heard>>
    BY <1>1, NextQueue
  <1> QED
    BY <1>2, <1>3, DevicesStart, DevicesStep, AInvariant, PTL
       DEF DevicesSpec, ImplementsSoundQueue, Promised!Spec

-----------------------------------------------------------------------------
(* The VGA. *)

(* The VGA's assumption, in its constants' names here.                     *)
LEMMA ScreenSizes ==
  /\ {Rows, Lines, Cols, Entries, NR_CRTC} \subseteq Nat \ {0}
  /\ Rows <= Lines
  /\ Lens \subseteq Nat \ {0}
  /\ Palettes \union {DefaultPalette} \subseteq [Screen!Entry -> Screen!Colour]
  /\ CrtcIndices \subseteq 0 .. NR_CRTC - 1
  /\ 0 \in CrtcIndices /\ 0 \in CrtcValues
  /\ 0 \in Indices
  BY ScreenAssumption DEF Screen!VgaAssumption

(* What is drawn, and the flags.                                           *)
MemoryTypes ==
  /\ vmem \in [Screen!Pixels -> Indices] /\ screen \in [Screen!Pixels -> Indices]
  /\ line_dirty \subseteq Screen!Visible /\ vmem_dirty \in BOOLEAN

MemoryInv == MemoryTypes /\ Screen!CleanLinesAreShown

(* The CRTC.                                                               *)
CrtcInv ==
  /\ crtc_port.index \in 0 .. NR_CRTC - 1
  /\ DOMAIN crtc_port = {"index", "data"}
  /\ DOMAIN vga_crtc_regs = 0 .. NR_CRTC - 1
  /\ Screen!CrtcReadsRegister

(* The palette.  While one is written, the DAC's pointer is where the      *)
(* writer is, and what the writer has passed is in the DAC.                *)
WriterTypes ==
  /\ writer \in [colors : Palettes \union {DefaultPalette}, nr_color : 0 .. Entries,
                 i : 0 .. Entries, part : 0 .. 2]
  /\ writer.i <= writer.nr_color
  /\ writer.nr_color > 0 => writer.colors \in Palettes

PointersAgree == writer.i < writer.nr_color => color_ptr = <<writer.i, writer.part>>

Passed(e, k) == e < writer.i \/ (e = writer.i /\ k < writer.part)

PaletteInv ==
  /\ WriterTypes /\ PointersAgree
  /\ writer.i = writer.nr_color => writer.part = 0
  /\ palette \in [Screen!Entry -> [0 .. 2 -> Int]]
  /\ \A e \in Screen!Entry, k \in 0 .. 2 :
       Passed(e, k) => palette[e][k] = Screen!Truncated(writer.colors)[e][k]
  /\ writer.i = Entries => shown_palette = palette
  /\ shown_palette \in {Screen!Truncated(p) : p \in Palettes} \union {DefaultPalette}

-----------------------------------------------------------------------------
(* Video memory and the screen.                                            *)

LEMMA InitMemoryInv == Screen!Init => MemoryInv
  <1> SUFFICES ASSUME Screen!Init PROVE MemoryInv
    OBVIOUS
  <1>1. /\ vmem = [p \in Screen!Pixels |-> 0] /\ screen = [p \in Screen!Pixels |-> 0]
        /\ line_dirty = {} /\ vmem_dirty = FALSE
    BY Zenon DEF Screen!Init
  <1>2. vmem_dirty \in BOOLEAN /\ ~vmem_dirty
    BY <1>1, Zenon
  <1>3. MemoryTypes
    BY <1>1, <1>2, ScreenSizes DEF MemoryTypes
  <1>4. Screen!CleanLinesAreShown
    BY <1>1, <1>2 DEF Screen!CleanLinesAreShown
  <1> QED
    BY <1>3, <1>4 DEF MemoryInv

(* A line whose flag is clear is one that a marking store did not change.  *)
LEMMA MarkedPreserves ==
  ASSUME MemoryInv, NEW lines, Screen!Marked(lines), UNCHANGED screen,
         vmem' \in [Screen!Pixels -> Indices],
         \A p \in Screen!Pixels : p[1] \notin lines => vmem'[p] = vmem[p]
  PROVE  MemoryInv'
  <1>1. /\ line_dirty' = line_dirty \union (lines \intersect Screen!Visible)
        /\ vmem_dirty' = (vmem_dirty \/ lines \intersect Screen!Visible # {})
    BY DEF Screen!Marked
  <1>2. vmem_dirty' \in BOOLEAN
    BY <1>1, Zenon DEF MemoryInv, MemoryTypes
  <1>3. line_dirty # {} <=> vmem_dirty
    BY DEF MemoryInv, Screen!CleanLinesAreShown
  <1>4. line_dirty' # {} <=> vmem_dirty'
    <2>1. line_dirty' # {} <=> line_dirty # {} \/ lines \intersect Screen!Visible # {}
      BY <1>1
    <2> QED
      BY <1>1, <1>3, <2>1, Zenon
  <1>5. \A p \in Screen!Pixels : p[1] \notin line_dirty' => screen'[p] = vmem'[p]
    <2> SUFFICES ASSUME NEW p \in Screen!Pixels, p[1] \notin line_dirty'
                 PROVE  screen'[p] = vmem'[p]
      OBVIOUS
    <2>1. p[1] \in Screen!Visible
      BY DEF Screen!Pixels
    <2>2. p[1] \notin line_dirty /\ p[1] \notin lines
      BY <1>1, <2>1
    <2> QED
      BY <2>2 DEF MemoryInv, Screen!CleanLinesAreShown
  <1>6. MemoryTypes'
    BY <1>1, <1>2 DEF MemoryInv, MemoryTypes
  <1> QED
    BY <1>4, <1>5, <1>6 DEF MemoryInv, Screen!CleanLinesAreShown

LEMMA StorePreserves ==
  ASSUME MemoryInv, NEW line \in Screen!Line, NEW col \in Screen!Column, NEW len \in Lens,
         NEW data \in Indices,
         Screen!Store(line, col, len, data)
  PROVE  MemoryInv'
  <1>1. vmem' = [p \in Screen!Pixels |-> IF p[1] = line /\ p[2] \in col .. col + len - 1
                                    THEN data ELSE vmem[p]]
    BY DEF Screen!Store
  <1>2. \A p \in Screen!Pixels : vmem[p] \in Indices
    BY DEF MemoryInv, MemoryTypes
  <1>3. vmem' \in [Screen!Pixels -> Indices]
    BY <1>1, <1>2
  <1>4. \A p \in Screen!Pixels : p[1] \notin {line} => vmem'[p] = vmem[p]
    BY <1>1
  <1> QED
    BY <1>3, <1>4, MarkedPreserves DEF Screen!Store

LEMMA DisplayBufferPreserves ==
  ASSUME MemoryInv, NEW vbuf \in [Screen!Pixels -> Indices], Screen!DisplayBuffer(vbuf)
  PROVE  MemoryInv'
  <1>1. \A p \in Screen!Pixels : p[1] \in Screen!Visible
    BY DEF Screen!Pixels
  <1> QED
    BY <1>1, MarkedPreserves DEF Screen!DisplayBuffer

(* Redrawing the marked lines redraws the screen.                          *)
LEMMA DrawnIsMemory == MemoryInv => Screen!Drawn = vmem
  BY DEF MemoryInv, MemoryTypes, Screen!CleanLinesAreShown, Screen!Drawn

LEMMA UpdateScreenPreserves == MemoryInv /\ Screen!UpdateScreen => MemoryInv'
  <1> SUFFICES ASSUME MemoryInv, Screen!UpdateScreen PROVE MemoryInv'
    OBVIOUS
  <1>1. screen' = vmem /\ vmem' = vmem /\ line_dirty' = {} /\ vmem_dirty' = FALSE
    BY DrawnIsMemory DEF Screen!UpdateScreen
  <1>2. vmem_dirty' \in BOOLEAN /\ ~vmem_dirty'
    BY <1>1, Zenon
  <1> QED
    BY <1>1, <1>2 DEF MemoryInv, MemoryTypes, Screen!CleanLinesAreShown

LEMMA NextMemoryInv == MemoryInv /\ [Screen!Next]_picture => MemoryInv'
  <1> SUFFICES ASSUME MemoryInv, [Screen!Next]_picture PROVE MemoryInv'
    OBVIOUS
  <1>1. CASE \E line \in Screen!Line, col \in Screen!Column, len \in Lens, data \in Indices :
               Screen!Store(line, col, len, data)
    BY <1>1, StorePreserves
  <1>2. CASE \E vbuf \in [Screen!Pixels -> Indices] : Screen!DisplayBuffer(vbuf)
    BY <1>2, DisplayBufferPreserves
  <1>3. CASE Screen!UpdateScreen
    BY <1>3, UpdateScreenPreserves
  <1>4. CASE UNCHANGED Screen!memory
    <2>1. UNCHANGED <<vmem, line_dirty, vmem_dirty, screen>>
      BY <1>4 DEF Screen!memory
    <2>2. vmem_dirty' \in BOOLEAN
      BY <2>1, Zenon DEF MemoryInv, MemoryTypes
    <2> QED
      BY <2>1, <2>2 DEF MemoryInv, MemoryTypes, Screen!CleanLinesAreShown
  <1>5. CASE \/ \E colors \in Palettes, nr_color \in 1 .. Entries : Screen!WritePalette(colors, nr_color)
             \/ Screen!WriteComponent
             \/ \E index \in CrtcIndices : Screen!CrtcIndex(index)
             \/ \E value \in CrtcValues : Screen!CrtcData(value)
    BY <1>4, <1>5 DEF Screen!WritePalette, Screen!WriteComponent, Screen!CrtcIndex, Screen!CrtcData
  <1>6. CASE UNCHANGED picture
    BY <1>4, <1>6 DEF picture, Screen!memory
  <1> QED
    BY <1>1, <1>2, <1>3, <1>5, <1>6 DEF Screen!Next

LEMMA MemoryInvariant == DevicesSpec => []MemoryInv
  BY DevicesStart, DevicesStep, InitMemoryInv, NextMemoryInv, PTL DEF DevicesSpec

(* The flags never miss a line that memory and screen show differently     *)
(* (vga.c:43).                                                             *)
THEOREM CleanLinesShown == DevicesSpec => []CleanLinesAreShown
  <1>1. MemoryInv => CleanLinesAreShown
    BY DEF MemoryInv, CleanLinesAreShown
  <1> QED
    BY <1>1, MemoryInvariant, PTL

-----------------------------------------------------------------------------
(* The safety of the refinement: every step draws, or shows all there is.  *)

LEMMA InitDisplay == Screen!Init => Screen!D!Init
  <1> SUFFICES ASSUME Screen!Init PROVE Screen!D!Init
    OBVIOUS
  <1>1. vmem = [p \in Screen!Pixels |-> 0] /\ screen = [p \in Screen!Pixels |-> 0]
    BY Zenon DEF Screen!Init
  <1> QED
    BY <1>1, ScreenSizes DEF Screen!D!Init, Screen!D!Frames

LEMMA StepDisplay ==
  MemoryInv /\ MemoryInv' /\ [Screen!Next]_picture => [Screen!D!Next]_<<vmem, screen>>
  <1> SUFFICES ASSUME MemoryInv, MemoryInv', [Screen!Next]_picture
               PROVE  Screen!D!Next \/ UNCHANGED <<vmem, screen>>
    OBVIOUS
  <1>1. vmem' \in Screen!D!Frames
    BY DEF MemoryInv, MemoryTypes, Screen!D!Frames
  <1>2. CASE Screen!UpdateScreen
    BY <1>2, DrawnIsMemory DEF Screen!UpdateScreen, Screen!D!Next, Screen!D!Refresh
  <1>3. CASE \/ \E line \in Screen!Line, col \in Screen!Column, len \in Lens, data \in Indices :
                  Screen!Store(line, col, len, data)
             \/ \E vbuf \in [Screen!Pixels -> Indices] : Screen!DisplayBuffer(vbuf)
    BY <1>1, <1>3 DEF Screen!Store, Screen!DisplayBuffer, Screen!D!Next, Screen!D!Draw
  <1>4. CASE \/ \E colors \in Palettes, nr_color \in 1 .. Entries : Screen!WritePalette(colors, nr_color)
             \/ Screen!WriteComponent
             \/ \E index \in CrtcIndices : Screen!CrtcIndex(index)
             \/ \E value \in CrtcValues : Screen!CrtcData(value)
    BY <1>4 DEF Screen!WritePalette, Screen!WriteComponent, Screen!CrtcIndex, Screen!CrtcData, Screen!memory
  <1>5. CASE UNCHANGED picture
    BY <1>5 DEF picture, Screen!memory
  <1> QED
    BY <1>2, <1>3, <1>4, <1>5 DEF Screen!Next

(* Whatever is drawn, the screen only ever shows video memory as it is,    *)
(* whole, although only marked lines are drawn (vga.c:47-70).              *)
THEOREM ScreenShowsMemory == DevicesSpec => Screen!D!Init /\ [][Screen!D!Next]_<<vmem, screen>>
  BY DevicesStart, DevicesStep, InitDisplay, StepDisplay, MemoryInvariant, PTL DEF DevicesSpec

-----------------------------------------------------------------------------
(* The CRTC.                                                               *)

LEMMA InitCrtcInv == Screen!Init => CrtcInv
  <1> SUFFICES ASSUME Screen!Init PROVE CrtcInv
    OBVIOUS
  <1>1. crtc_port = [index |-> 0, data |-> 0] /\ vga_crtc_regs = [r \in 0 .. NR_CRTC - 1 |-> 0]
    BY Zenon DEF Screen!Init
  <1>2. 0 \in 0 .. NR_CRTC - 1
    BY ScreenSizes
  <1> QED
    BY <1>1, <1>2 DEF CrtcInv, Screen!CrtcReadsRegister

LEMMA NextCrtcInv == CrtcInv /\ [Screen!Next]_picture => CrtcInv'
  <1> SUFFICES ASSUME CrtcInv, [Screen!Next]_picture PROVE CrtcInv'
    OBVIOUS
  <1>1. ASSUME NEW index \in CrtcIndices, Screen!CrtcIndex(index) PROVE CrtcInv'
    <2>1. index \in 0 .. NR_CRTC - 1
      BY ScreenSizes
    <2> QED
      BY <1>1, <2>1 DEF Screen!CrtcIndex, CrtcInv, Screen!CrtcReadsRegister
  <1>2. ASSUME NEW value \in CrtcValues, Screen!CrtcData(value) PROVE CrtcInv'
    <2>1. crtc_port' = [crtc_port EXCEPT !.data = value]
      BY <1>2 DEF Screen!CrtcData
    <2>2. crtc_port'.index = crtc_port.index /\ crtc_port'.data = value
          /\ DOMAIN crtc_port' = {"index", "data"}
      BY <2>1 DEF CrtcInv
    <2> QED
      BY <1>2, <2>2 DEF Screen!CrtcData, CrtcInv, Screen!CrtcReadsRegister
  <1>3. CASE UNCHANGED Screen!crtc
    BY <1>3 DEF Screen!crtc, CrtcInv, Screen!CrtcReadsRegister
  <1>4. CASE \/ \E line \in Screen!Line, col \in Screen!Column, len \in Lens, data \in Indices :
                  Screen!Store(line, col, len, data)
             \/ \E vbuf \in [Screen!Pixels -> Indices] : Screen!DisplayBuffer(vbuf)
             \/ Screen!UpdateScreen
    BY <1>3, <1>4 DEF Screen!Store, Screen!DisplayBuffer, Screen!UpdateScreen
  <1>5. CASE \/ \E colors \in Palettes, nr_color \in 1 .. Entries : Screen!WritePalette(colors, nr_color)
             \/ Screen!WriteComponent
    BY <1>3, <1>5 DEF Screen!WritePalette, Screen!WriteComponent
  <1>6. CASE UNCHANGED picture
    BY <1>3, <1>6 DEF picture, Screen!crtc
  <1> QED
    BY <1>1, <1>2, <1>4, <1>5, <1>6 DEF Screen!Next

(* The data port, which in() reads without a handler, holds the register   *)
(* that was named last (vga.c:118-129).                                    *)
THEOREM CrtcPortIsRegister == DevicesSpec => []CrtcReadsRegister
  <1>1. CrtcInv => CrtcReadsRegister
    BY DEF CrtcInv, CrtcReadsRegister
  <1> QED
    BY <1>1, DevicesStart, DevicesStep, InitCrtcInv, NextCrtcInv, PTL DEF DevicesSpec

-----------------------------------------------------------------------------
(* The palette.                                                            *)

(* The guest takes two bits away from a component, and the DAC puts zeros  *)
(* there.                                                                  *)
LEMMA LevelOfSixBits ==
  ASSUME NEW level \in 0 .. 255
  PROVE  Screen!Level(Screen!SixBits(level)) = level - (level % 4) /\ Screen!Level(Screen!SixBits(level)) \in Int
  BY DEF Screen!Level, Screen!SixBits

LEMMA TruncatedFacts ==
  ASSUME NEW p \in [Screen!Entry -> Screen!Colour]
  PROVE  /\ Screen!Truncated(p) \in [Screen!Entry -> [0 .. 2 -> Int]]
         /\ \A e \in Screen!Entry, k \in 0 .. 2 : Screen!Truncated(p)[e][k] = p[e][k] - (p[e][k] % 4)
  <1>1. \A e \in Screen!Entry, k \in 0 .. 2 : p[e][k] \in 0 .. 255
    BY DEF Screen!Colour
  <1>2. \A e \in Screen!Entry, k \in 0 .. 2 : p[e][k] - (p[e][k] % 4) \in Int
    BY <1>1
  <1> QED
    BY <1>2 DEF Screen!Truncated

LEMMA InitPaletteInv == Screen!Init => PaletteInv
  <1> SUFFICES ASSUME Screen!Init PROVE PaletteInv
    OBVIOUS
  <1>1. /\ palette = DefaultPalette /\ shown_palette = DefaultPalette
        /\ writer = [colors |-> DefaultPalette, nr_color |-> 0, i |-> 0, part |-> 0]
    BY Zenon DEF Screen!Init, Screen!Idle
  <1>2. Entries \in Nat /\ Entries # 0
    BY ScreenSizes
  <1>3. DefaultPalette \in [Screen!Entry -> [0 .. 2 -> Int]]
    <2>1. DefaultPalette \in [Screen!Entry -> Screen!Colour]
      BY ScreenSizes
    <2>2. \A e \in Screen!Entry : DefaultPalette[e] \in [0 .. 2 -> Int]
      BY <2>1 DEF Screen!Colour
    <2> QED
      BY <2>1, <2>2
  <1>4. WriterTypes
    <2>1. writer.nr_color = 0 /\ writer.i = 0 /\ writer.part = 0
      BY <1>1
    <2>2. writer \in [colors : Palettes \union {DefaultPalette}, nr_color : 0 .. Entries,
                     i : 0 .. Entries, part : 0 .. 2]
      BY <1>1, <1>2
    <2> QED
      BY <2>1, <2>2 DEF WriterTypes
  <1> QED
    BY <1>1, <1>2, <1>3, <1>4 DEF PaletteInv, PointersAgree, Passed, Screen!Entry

LEMMA WritePalettePreserves ==
  ASSUME PaletteInv, NEW colors \in Palettes, NEW nr_color \in 1 .. Entries,
         Screen!WritePalette(colors, nr_color)
  PROVE  PaletteInv'
  <1>1. /\ color_ptr' = <<0, 0>> /\ UNCHANGED <<palette, shown_palette>>
        /\ writer' = [colors |-> colors, nr_color |-> nr_color, i |-> 0, part |-> 0]
    BY DEF Screen!WritePalette
  <1>2. Entries \in Nat /\ Entries # 0
    BY ScreenSizes
  <1>3. WriterTypes'
    BY <1>1, <1>2 DEF WriterTypes
  <1>4. \A e \in Screen!Entry, k \in 0 .. 2 : ~Passed(e, k)'
    BY <1>1 DEF Passed, Screen!Entry
  <1> QED
    BY <1>1, <1>2, <1>3, <1>4 DEF PaletteInv, PointersAgree

(* One component is stored where both pointers are, and both move on.      *)
LEMMA WriteComponentPreserves == PaletteInv /\ Screen!WriteComponent => PaletteInv'
  <1> SUFFICES ASSUME PaletteInv, Screen!WriteComponent PROVE PaletteInv'
    OBVIOUS
  <1> DEFINE data == Screen!SixBits(writer.colors[writer.i][writer.part])
  <1>1. /\ writer.i < writer.nr_color
        /\ palette' = Screen!Stored(data) /\ color_ptr' = Screen!After(color_ptr)
        /\ shown_palette' = IF color_ptr'[1] = Entries THEN palette' ELSE shown_palette
        /\ writer' = IF writer.part = 2 THEN [writer EXCEPT !.i = @ + 1, !.part = 0]
                      ELSE [writer EXCEPT !.part = @ + 1]
    BY DEF Screen!WriteComponent, Screen!DacData
  <1>2. /\ Entries \in Nat /\ writer.i \in 0 .. Entries - 1 /\ writer.part \in 0 .. 2
        /\ writer.nr_color \in 1 .. Entries /\ writer.i < writer.nr_color
        /\ writer.colors \in Palettes
    BY <1>1, ScreenSizes DEF PaletteInv, WriterTypes
  <1>3. color_ptr = <<writer.i, writer.part>>
    BY <1>1 DEF PaletteInv, PointersAgree
  <1>4. writer.colors \in [Screen!Entry -> Screen!Colour] /\ writer.colors[writer.i][writer.part] \in 0 .. 255
    <2>1. writer.colors \in [Screen!Entry -> Screen!Colour]
      BY <1>2, ScreenSizes
    <2>2. writer.i \in Screen!Entry
      BY <1>2 DEF Screen!Entry
    <2>3. writer.colors[writer.i] \in [0 .. 2 -> 0 .. 255]
      BY <2>1, <2>2 DEF Screen!Colour
    <2> QED
      BY <1>2, <2>1, <2>3
  <1>5. /\ Screen!Level(data) = Screen!Truncated(writer.colors)[writer.i][writer.part]
        /\ Screen!Level(data) \in Int
    BY <1>2, <1>4, LevelOfSixBits, TruncatedFacts DEF Screen!Entry
  <1> HIDE DEF data
  <1>6. /\ palette' \in [Screen!Entry -> [0 .. 2 -> Int]]
        /\ \A e \in Screen!Entry, k \in 0 .. 2 :
             palette'[e][k] = IF e = writer.i /\ k = writer.part THEN Screen!Level(data) ELSE palette[e][k]
    <2>1. \A e \in Screen!Entry, k \in 0 .. 2 : palette[e][k] \in Int
      BY DEF PaletteInv
    <2>2. \A e \in Screen!Entry, k \in 0 .. 2 :
            (<<e, k>> = color_ptr) <=> (e = writer.i /\ k = writer.part)
      BY <1>3
    <2> QED
      BY <1>1, <1>5, <2>1, <2>2 DEF Screen!Stored
  <1>7. /\ writer'.colors = writer.colors /\ writer'.nr_color = writer.nr_color
        /\ writer'.i = IF writer.part = 2 THEN writer.i + 1 ELSE writer.i
        /\ writer'.part = IF writer.part = 2 THEN 0 ELSE writer.part + 1
        /\ writer' \in [colors : Palettes \union {DefaultPalette}, nr_color : 0 .. Entries,
                        i : 0 .. Entries, part : 0 .. 2]
    <2>1. writer \in [colors : Palettes \union {DefaultPalette}, nr_color : 0 .. Entries,
                      i : 0 .. Entries, part : 0 .. 2]
      BY DEF PaletteInv, WriterTypes
    <2>2. CASE writer.part = 2
      <3>1. writer' = [writer EXCEPT !.i = @ + 1, !.part = 0] /\ writer.i + 1 \in 0 .. Entries
        BY <1>1, <1>2, <2>2
      <3>2. writer' = [colors |-> writer.colors, nr_color |-> writer.nr_color,
                       i |-> writer.i + 1, part |-> 0]
        BY <2>1, <3>1
      <3> QED
        BY <2>1, <2>2, <3>1, <3>2
    <2>3. CASE writer.part # 2
      <3>1. writer' = [writer EXCEPT !.part = @ + 1] /\ writer.part + 1 \in 0 .. 2
        BY <1>1, <1>2, <2>3
      <3> QED
        BY <2>1, <2>3, <3>1
    <2> QED
      BY <2>2, <2>3
  <1>8. color_ptr' = <<writer'.i, writer'.part>>
    BY <1>1, <1>2, <1>3, <1>7 DEF Screen!After
  <1>9. WriterTypes' /\ (writer'.i = writer'.nr_color => writer'.part = 0)
    BY <1>2, <1>7 DEF WriterTypes
  <1>10. \A e \in Screen!Entry, k \in 0 .. 2 :
           Passed(e, k)' => palette'[e][k] = Screen!Truncated(writer'.colors)[e][k]
    <2> SUFFICES ASSUME NEW e \in Screen!Entry, NEW k \in 0 .. 2, Passed(e, k)'
                 PROVE  palette'[e][k] = Screen!Truncated(writer.colors)[e][k]
      BY <1>7
    <2>1. CASE e = writer.i /\ k = writer.part
      BY <1>5, <1>6, <2>1
    <2>2. CASE ~(e = writer.i /\ k = writer.part)
      <3>1. Passed(e, k)
        BY <1>2, <1>7, <2>2 DEF Passed, Screen!Entry
      <3> QED
        BY <1>6, <2>2, <3>1 DEF PaletteInv
    <2> QED
      BY <2>1, <2>2
  <1>11. writer'.i = Entries => palette' = Screen!Truncated(writer.colors)
    <2> SUFFICES ASSUME writer'.i = Entries PROVE palette' = Screen!Truncated(writer.colors)
      OBVIOUS
    <2>1. \A e \in Screen!Entry, k \in 0 .. 2 : palette'[e][k] = Screen!Truncated(writer.colors)[e][k]
      BY <1>2, <1>7, <1>10 DEF Passed, Screen!Entry
    <2>2. Screen!Truncated(writer.colors) \in [Screen!Entry -> [0 .. 2 -> Int]]
      BY <1>4, TruncatedFacts
    <2>3. \A e \in Screen!Entry : palette'[e] = Screen!Truncated(writer.colors)[e]
      BY <1>6, <2>1, <2>2
    <2> QED
      BY <1>6, <2>2, <2>3
  <1>12. shown_palette' = IF writer'.i = Entries THEN palette' ELSE shown_palette
    BY <1>1, <1>8
  <1>13. /\ writer'.i = Entries => shown_palette' = palette'
         /\ shown_palette' \in {Screen!Truncated(p) : p \in Palettes} \union {DefaultPalette}
    BY <1>2, <1>11, <1>12 DEF PaletteInv
  <1> QED
    BY <1>6, <1>8, <1>9, <1>10, <1>13 DEF PaletteInv, PointersAgree

LEMMA NextPaletteInv == PaletteInv /\ [Screen!Next]_picture => PaletteInv'
  <1> SUFFICES ASSUME PaletteInv, [Screen!Next]_picture PROVE PaletteInv'
    OBVIOUS
  <1>1. CASE \E colors \in Palettes, nr_color \in 1 .. Entries : Screen!WritePalette(colors, nr_color)
    BY <1>1, WritePalettePreserves
  <1>2. CASE Screen!WriteComponent
    BY <1>2, WriteComponentPreserves
  <1>3. CASE UNCHANGED Screen!dac
    BY <1>3 DEF Screen!dac, PaletteInv, WriterTypes, PointersAgree, Passed, Screen!Truncated
  <1>4. CASE \/ \E line \in Screen!Line, col \in Screen!Column, len \in Lens, data \in Indices :
                  Screen!Store(line, col, len, data)
             \/ \E vbuf \in [Screen!Pixels -> Indices] : Screen!DisplayBuffer(vbuf)
             \/ Screen!UpdateScreen
    BY <1>3, <1>4 DEF Screen!Store, Screen!DisplayBuffer, Screen!UpdateScreen
  <1>5. CASE \/ \E index \in CrtcIndices : Screen!CrtcIndex(index)
             \/ \E value \in CrtcValues : Screen!CrtcData(value)
    BY <1>3, <1>5 DEF Screen!CrtcIndex, Screen!CrtcData
  <1>6. CASE UNCHANGED picture
    BY <1>3, <1>6 DEF picture, Screen!dac
  <1> QED
    BY <1>1, <1>2, <1>4, <1>5, <1>6 DEF Screen!Next

LEMMA PaletteInvGives == PaletteInv => Screen!PaletteLoaded
  <1> SUFFICES ASSUME PaletteInv PROVE Screen!PaletteLoaded
    OBVIOUS
  <1>1. Entries \in Nat /\ writer.i \in 0 .. Entries /\ writer.colors \in [Screen!Entry -> Screen!Colour]
    BY ScreenSizes DEF PaletteInv, WriterTypes
  <1>2. Screen!Truncated(writer.colors) \in [Screen!Entry -> [0 .. 2 -> Int]]
    BY <1>1, TruncatedFacts
  <1>3. \A e \in 0 .. writer.i - 1 : palette[e] = Screen!Truncated(writer.colors)[e]
    <2> SUFFICES ASSUME NEW e \in 0 .. writer.i - 1
                 PROVE  palette[e] = Screen!Truncated(writer.colors)[e]
      OBVIOUS
    <2>1. e \in Screen!Entry /\ \A k \in 0 .. 2 : Passed(e, k)
      BY <1>1 DEF Screen!Entry, Passed
    <2>2. \A k \in 0 .. 2 : palette[e][k] = Screen!Truncated(writer.colors)[e][k]
      BY <2>1 DEF PaletteInv
    <2>3. palette[e] \in [0 .. 2 -> Int] /\ Screen!Truncated(writer.colors)[e] \in [0 .. 2 -> Int]
      BY <1>2, <2>1 DEF PaletteInv
    <2> QED
      BY <2>2, <2>3
  <1> QED
    BY <1>3 DEF PaletteInv, Screen!PaletteLoaded

(* A palette is shown when all of it has arrived, and is then the guest's, *)
(* less the two low bits of each component (vga.c:100-107).                *)
THEOREM PaletteIsLoaded == DevicesSpec => []PaletteLoaded
  <1>1. PaletteInv => PaletteLoaded
    BY PaletteInvGives DEF PaletteLoaded
  <1> QED
    BY <1>1, DevicesStart, DevicesStep, InitPaletteInv, NextPaletteInv, PTL DEF DevicesSpec
=============================================================================
