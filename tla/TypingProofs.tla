---------------------------- MODULE TypingProofs ----------------------------
(***************************************************************************)
(* What holds of the typing game for every number of letters, every size of*)
(* its pool, every speed and every screen.                                 *)
(*                                                                         *)
(* PressInv says where a key event can be on its way to a letter: in the   *)
(* one buffer, while the keyboard's interrupt is pending or handled, or in *)
(* letter_pressed.  LinkInv says how the two lists are linked.             *)
(* AgeInv says how old a letter can be, and so how many there are.         *)
(***************************************************************************)
EXTENDS Typing, FiniteSetTheorems, WellFoundedInduction, TLAPS

Flying == [x : Int, v : {1, -Rise}, text : Letters, called : BOOLEAN]

(* The types these proofs need; the bounds of TypeOK are the model's.      *)
Types ==
  /\ slot \in Vectors \union {NO_INTR} /\ eflags_IF \in BOOLEAN /\ handler \in BOOLEAN
  /\ scan_code_buf \in Letters \union {Other}
  /\ letter_pressed \subseteq Letters
  /\ fly \in [Live -> Flying]

(* update_keypress() is the only part of the main loop that runs with      *)
(* interrupts off.                                                         *)
MaskedAtKeysOnly == pc # "keys" => eflags_IF \/ handler

(* A key event on its way: its interrupt pending or being handled, its code*)
(* in the buffer.                                                          *)
OnItsWay(text) ==
  scan_code_buf = text /\ (handler \/ slot = KEYBOARD_IRQ + IRQ_BASE)

(* A press that can strike a letter was made while it was there.           *)
PressInv ==
  \A n \in Falling :
    fly[n].text \in letter_pressed \/ OnItsWay(fly[n].text) => fly[n].called

KeyInv == Types /\ MaskedAtKeysOnly /\ PressInv

-----------------------------------------------------------------------------

(* The lines and vectors of the model as numbers. *)
LEMMA VectorValues == IRQs = {0, 1, 2, 14} /\ Vectors = {32, 33, 34, 46}
  BY DEF IRQs, Vectors, IRQ_BASE, TIMER_IRQ, KEYBOARD_IRQ, AUDIO_IRQ, IDE_IRQ

(* A raise leaves the slot with a vector, and only the keyboard's raise     *)
(* makes that the keyboard's.                                               *)
LEMMA ArbitrateFacts ==
  ASSUME NEW irq \in IRQs, NEW s \in Vectors \union {NO_INTR}
  PROVE  /\ Arbitrate(irq, s) \in Vectors \union {NO_INTR}
         /\ Arbitrate(TIMER_IRQ, s) = KEYBOARD_IRQ + IRQ_BASE => s = KEYBOARD_IRQ + IRQ_BASE
  <1>1. irq \in {0, 1, 2, 14} /\ s \in {32, 33, 34, 46, 255}
    BY VectorValues DEF NO_INTR
  <1> QED
    BY <1>1, VectorValues DEF Arbitrate, NO_INTR, IRQ_BASE, TIMER_IRQ, KEYBOARD_IRQ

(* Where the main loop goes on outside update_keypress(), no interrupt is  *)
(* pending and so no key event on its way.                                 *)
LEMMA NothingOnItsWay ==
  ASSUME KeyInv, NEW p, At(p), p # "keys"
  PROVE  eflags_IF /\ \A text : ~OnItsWay(text)
  <1>1. eflags_IF /\ ~handler
    BY DEF KeyInv, MaskedAtKeysOnly, At
  <1>2. slot = NO_INTR
    BY <1>1 DEF At, Pending
  <1> QED
    BY <1>1, <1>2 DEF OnItsWay, NO_INTR, KEYBOARD_IRQ, IRQ_BASE

LEMMA InitKeyInv == Init => KeyInv
  <1> SUFFICES ASSUME Init PROVE KeyInv
    OBVIOUS
  <1>1. /\ slot = NO_INTR /\ scan_code_buf = Other /\ letter_pressed = {}
        /\ eflags_IF \in BOOLEAN /\ handler \in BOOLEAN /\ eflags_IF
        /\ fly = [n \in {} |-> Letter(n)]
    BY Zenon DEF Init
  <1>2. Live = {}
    BY <1>1, Zenon DEF Live
  <1>3. fly \in [{} -> Flying]
    BY <1>1
  <1> QED
    BY <1>1, <1>2, <1>3 DEF KeyInv, Types, MaskedAtKeysOnly, PressInv, Falling

-----------------------------------------------------------------------------
(* The events and the handlers. *)

LEMMA TimerFiresKeyInv == KeyInv /\ TimerFires => KeyInv'
  <1> SUFFICES ASSUME KeyInv, TimerFires PROVE KeyInv'
    OBVIOUS
  <1> USE DEF KeyInv
  <1>1. TIMER_IRQ \in IRQs
    BY DEF IRQs
  <1>2. /\ slot' \in Vectors \union {NO_INTR}
        /\ slot' = KEYBOARD_IRQ + IRQ_BASE => slot = KEYBOARD_IRQ + IRQ_BASE
    BY <1>1, ArbitrateFacts DEF TimerFires, Types
  <1>3. Types'
    <2>1. UNCHANGED <<eflags_IF, handler, scan_code_buf, letter_pressed, fly>>
      BY DEF TimerFires, pool
    <2>2. eflags_IF' \in BOOLEAN /\ handler' \in BOOLEAN
      BY <2>1, Zenon DEF Types
    <2> QED
      BY <1>2, <2>1, <2>2 DEF Types, Live
  <1>4. MaskedAtKeysOnly'
    BY DEF TimerFires, MaskedAtKeysOnly
  <1>5. PressInv'
    <2>1. /\ UNCHANGED <<scan_code_buf, handler, letter_pressed, fly>>
          /\ Falling' = Falling
      BY DEF TimerFires, pool, Falling, Live
    <2>2. \A text : OnItsWay(text)' => OnItsWay(text)
      BY <1>2, <2>1 DEF OnItsWay
    <2> QED
      BY <2>1, <2>2 DEF PressInv
  <1> QED
    BY <1>3, <1>4, <1>5

LEMMA KeyEventKeyInv ==
  ASSUME KeyInv, NEW code \in Letters \union {Other}, KeyEvent(code)
  PROVE  KeyInv'
  <1> USE DEF KeyInv
  <1>1. KEYBOARD_IRQ \in IRQs
    BY DEF IRQs
  <1>2. slot' \in Vectors \union {NO_INTR}
    BY <1>1, ArbitrateFacts DEF KeyEvent, Types
  <1>3. fly' = Called(code)
    BY DEF KeyEvent
  <1>4. \A n \in Live : /\ fly[n] \in Flying
                        /\ [fly[n] EXCEPT !.called = TRUE] \in Flying
    BY DEF Types, Flying
  <1>5. Live' = Live /\ fly' \in [Live -> Flying]
    BY <1>3, <1>4 DEF Called, Live
  <1>6. \A n \in Live : /\ fly'[n].v = fly[n].v
                        /\ fly'[n].text = fly[n].text
                        /\ fly'[n].called = (fly[n].called \/ fly[n].text = code)
    BY <1>3, <1>4 DEF Called, Flying
  <1>7. Types'
    BY <1>2, <1>5 DEF KeyEvent, Types
  <1>8. MaskedAtKeysOnly'
    BY DEF KeyEvent, MaskedAtKeysOnly
  <1>9. PressInv'
    <2> SUFFICES ASSUME NEW n \in Falling',
                        \/ fly'[n].text \in letter_pressed'
                        \/ /\ scan_code_buf' = fly'[n].text
                           /\ handler' \/ slot' = KEYBOARD_IRQ + IRQ_BASE
                 PROVE  fly'[n].called
      BY DEF PressInv, OnItsWay
    <2>1. n \in Falling /\ fly'[n].text = fly[n].text
      BY <1>5, <1>6 DEF Falling
    <2>2. CASE fly[n].text = code
      BY <1>6, <2>1, <2>2 DEF Falling
    <2>3. CASE fly[n].text # code
      <3>1. fly[n].text \in letter_pressed
        BY <2>1, <2>3 DEF KeyEvent
      <3>2. fly[n].called
        BY <2>1, <3>1 DEF PressInv
      <3> QED
        BY <1>6, <2>1, <3>2 DEF Falling
    <2> QED
      BY <2>2, <2>3
  <1> QED
    BY <1>7, <1>8, <1>9

LEMMA HandlerKeyInv == KeyInv /\ Handler => KeyInv'
  <1> SUFFICES ASSUME KeyInv, Handler PROVE KeyInv'
    OBVIOUS
  <1> USE DEF KeyInv
  <1>1. CASE TimerIntr
    <2>1. Woken # "keys" \/ Woken = pc
      BY DEF Woken
    <2>2. pc' = Woken /\ slot' = NO_INTR /\ UNCHANGED <<eflags_IF, handler, scan_code_buf, letter_pressed, fly>>
      BY <1>1 DEF TimerIntr, pool
    <2>3. eflags_IF
      BY <1>1 DEF TimerIntr, Pending
    <2> QED
      BY <2>1, <2>2, <2>3 DEF Types, MaskedAtKeysOnly, PressInv, OnItsWay, Falling, Live,
         NO_INTR, KEYBOARD_IRQ, IRQ_BASE
  <1>2. CASE KeyboardIntr
    <2>1. /\ slot' = NO_INTR /\ handler' = TRUE /\ eflags_IF' = FALSE
          /\ slot = KEYBOARD_IRQ + IRQ_BASE
          /\ UNCHANGED <<scan_code_buf, letter_pressed, fly>>
      BY <1>2 DEF KeyboardIntr, pool
    <2>2. eflags_IF' \in BOOLEAN /\ handler' \in BOOLEAN
      BY <2>1, Zenon
    <2>3. Types'
      BY <2>1, <2>2 DEF Types, Live
    <2> QED
      BY <2>1, <2>3 DEF MaskedAtKeysOnly, PressInv, OnItsWay, Falling, Live
  <1>3. CASE ReadKey
    <2>1. /\ handler /\ handler' = FALSE /\ eflags_IF' = TRUE
          /\ letter_pressed' \in {letter_pressed, letter_pressed \union {scan_code_buf}}
          /\ scan_code_buf = Other => letter_pressed' = letter_pressed
          /\ UNCHANGED <<slot, scan_code_buf, fly>>
      BY <1>3 DEF ReadKey, pool, pic
    <2>2. eflags_IF' \in BOOLEAN /\ handler' \in BOOLEAN
      BY <2>1, Zenon
    <2>3. letter_pressed' \subseteq Letters
      BY <2>1 DEF Types
    <2>4. Types'
      BY <2>1, <2>2, <2>3 DEF Types, Live
    <2> QED
      BY <2>1, <2>4 DEF MaskedAtKeysOnly, PressInv, OnItsWay, Falling, Live
  <1> QED
    BY <1>1, <1>2, <1>3 DEF Handler
-----------------------------------------------------------------------------
(* The steps of the game that leave the keys and the letters' texts alone.  *)

QuietGame ==
  Boot \/ Hlt \/ Check \/ KeysDone \/ NoNewLetter \/ TickDone \/ CaughtUp

LEMMA QuietKeyInv == KeyInv /\ QuietGame => KeyInv'
  <1> SUFFICES ASSUME KeyInv, QuietGame PROVE KeyInv'
    OBVIOUS
  <1>1. /\ UNCHANGED <<slot, scan_code_buf, handler, letter_pressed, fly>>
        /\ eflags_IF' \in {eflags_IF, TRUE}
        /\ pc' # "keys" /\ pc = "keys" => (eflags_IF' = TRUE)
    <2>1. CASE Boot
      BY <2>1 DEF Boot, At, AddIrqHandle, pic, pool
    <2>2. CASE Hlt \/ Check \/ CaughtUp
      BY <2>2 DEF Hlt, Check, CaughtUp, At, pic, pool
    <2>3. CASE KeysDone
      BY <2>3 DEF KeysDone, At, pic, pool
    <2>4. CASE NoNewLetter \/ TickDone
      BY <2>4 DEF NoNewLetter, TickDone, At, pic, pool
    <2> QED
      BY <2>1, <2>2, <2>3, <2>4 DEF QuietGame
  <1>2. eflags_IF' \in BOOLEAN /\ handler' \in BOOLEAN
    BY <1>1, Zenon DEF KeyInv, Types
  <1>3. Types'
    BY <1>1, <1>2 DEF KeyInv, Types, Live
  <1>4. MaskedAtKeysOnly'
    <2>1. eflags_IF => eflags_IF'
      BY <1>1
    <2> QED
      BY <1>1, <2>1, Zenon DEF KeyInv, MaskedAtKeysOnly
  <1>5. PressInv'
    BY <1>1 DEF KeyInv, PressInv, OnItsWay, Falling, Live
  <1> QED
    BY <1>3, <1>4, <1>5 DEF KeyInv

(* A strike takes the key's flag away: a letter of the same text stays     *)
(* called only if another event of the key is on its way.                  *)
LEMMA StrikeKeyInv ==
  ASSUME KeyInv, NEW s \in Nodes, Strike(s)
  PROVE  KeyInv'
  <1>1. /\ s \in Live /\ fly[s].v > 0 /\ pc = "keys" /\ ~handler
        /\ letter_pressed' = letter_pressed \ {fly[s].text}
        /\ fly' = Struck(s) /\ eflags_IF' = FALSE
        /\ UNCHANGED <<slot, scan_code_buf, handler, pc>>
    BY DEF Strike, At, IsLowest, Targets, Falling, pic
  <1>2. \A m \in Live : /\ fly[m] \in Flying
                        /\ [fly[m] EXCEPT !.v = -Rise] \in Flying
                        /\ [fly[m] EXCEPT !.called = @ /\ Unread(fly[s].text)] \in Flying
    BY DEF KeyInv, Types, Flying
  <1>3. Live' = Live /\ fly' \in [Live -> Flying]
    BY <1>1, <1>2 DEF Struck, Live
  <1>4. \A m \in Live :
          /\ fly'[m].text = fly[m].text
          /\ m # s => fly'[m].v = fly[m].v
          /\ m = s => fly'[m].v = -Rise
          /\ m # s /\ fly[m].text # fly[s].text => fly'[m].called = fly[m].called
          /\ m # s /\ fly[m].text = fly[s].text =>
               fly'[m].called = (fly[m].called /\ Unread(fly[s].text))
    BY <1>1, <1>2 DEF Struck, Flying
  <1>5. eflags_IF' \in BOOLEAN /\ handler' \in BOOLEAN
    BY <1>1, Zenon DEF KeyInv, Types
  <1>6. Types'
    BY <1>1, <1>3, <1>5 DEF KeyInv, Types
  <1>7. MaskedAtKeysOnly'
    BY <1>1 DEF MaskedAtKeysOnly
  <1>8. PressInv'
    <2> SUFFICES ASSUME NEW n \in Falling',
                        \/ fly'[n].text \in letter_pressed'
                        \/ scan_code_buf' = fly'[n].text /\ slot' = KEYBOARD_IRQ + IRQ_BASE
                 PROVE  fly'[n].called
      BY <1>1 DEF PressInv, OnItsWay
    <2>1. n \in Live /\ fly'[n].v > 0
      BY <1>3 DEF Falling
    <2>2. n # s
      BY <1>4, <2>1, TypingAssumption
    <2>3. n \in Falling /\ fly'[n].text = fly[n].text
      BY <1>4, <2>1, <2>2 DEF Falling
    <2>4. fly[n].text \in letter_pressed \/ OnItsWay(fly[n].text)
      BY <1>1, <2>3 DEF OnItsWay
    <2>5. fly[n].called
      BY <2>3, <2>4 DEF KeyInv, PressInv
    <2>6. CASE fly[n].text # fly[s].text
      BY <1>4, <2>1, <2>2, <2>5, <2>6
    <2>7. CASE fly[n].text = fly[s].text
      <3>1. Unread(fly[s].text)
        BY <1>1, <2>3, <2>7 DEF Unread
      <3> QED
        BY <1>4, <2>1, <2>2, <2>5, <2>7, <3>1
    <2> QED
      BY <2>6, <2>7
  <1> QED
    BY <1>6, <1>7, <1>8 DEF KeyInv

(* A new letter has its key released, and no event of it on its way.       *)
LEMMA CreateKeyInv ==
  ASSUME KeyInv, NEW l \in Letters, CreateNewLetter(l)
  PROVE  KeyInv'
  <1>1. eflags_IF /\ \A text : ~OnItsWay(text)
    BY NothingOnItsWay DEF CreateNewLetter
  <1>2. /\ UNCHANGED <<slot, scan_code_buf, handler, eflags_IF>>
        /\ pc' # "keys" /\ pc # "keys"
    BY DEF CreateNewLetter, At, pic
  <1>3. \A text : ~OnItsWay(text)'
    BY <1>1, <1>2 DEF OnItsWay
  <1>4. eflags_IF' \in BOOLEAN /\ handler' \in BOOLEAN
    BY <1>2, Zenon DEF KeyInv, Types
  <1>5. MaskedAtKeysOnly'
    BY <1>1, <1>2 DEF MaskedAtKeysOnly
  <1>6. CASE IsFree
    <2> DEFINE node == FirstFree
    <2>1. /\ fly' = [n \in Live \union {node} |-> IF n = node THEN Letter(l) ELSE fly[n]]
          /\ letter_pressed' = letter_pressed \ {l}
      BY <1>6 DEF CreateNewLetter, Created
    <2> HIDE DEF node
    <2>2. Letter(l) \in Flying /\ Letter(l).text = l
      BY DEF Letter, Flying
    <2>3. \A n \in Live : fly[n] \in Flying
      BY DEF KeyInv, Types
    <2>4. Live' = Live \union {node}
      BY <2>1 DEF Live
    <2>5. fly' \in [Live \union {node} -> Flying]
      BY <2>1, <2>2, <2>3
    <2>6. Types'
      BY <1>2, <1>4, <2>1, <2>4, <2>5 DEF KeyInv, Types
    <2>7. PressInv'
      <3> SUFFICES ASSUME NEW n \in Falling', fly'[n].text \in letter_pressed'
                   PROVE  fly'[n].called
        BY <1>3 DEF PressInv
      <3>1. n \in Live \union {node} /\ fly'[n].v > 0
        BY <2>4 DEF Falling
      <3>2. n # node
        BY <2>1, <2>2, <3>1
      <3>3. n \in Falling /\ fly'[n] = fly[n]
        BY <2>1, <3>1, <3>2 DEF Falling
      <3> QED
        BY <2>1, <3>3 DEF KeyInv, PressInv
    <2> QED
      BY <1>5, <2>6, <2>7 DEF KeyInv
  <1>7. CASE ~IsFree
    <2>1. UNCHANGED <<fly, letter_pressed>>
      BY <1>7 DEF CreateNewLetter, pool
    <2> QED
      BY <1>2, <1>3, <1>4, <1>5, <2>1 DEF KeyInv, Types, PressInv, Falling, Live
  <1> QED
    BY <1>6, <1>7

(* A step of a letter changes its height, or takes it off the list.        *)
LEMMA MoveFacts ==
  ASSUME Types, MoveLetter \/ RemoveLetter
  PROVE  /\ Live' \subseteq Live /\ fly' \in [Live' -> Flying]
         /\ \A n \in Live' : /\ fly'[n].v = fly[n].v /\ fly'[n].text = fly[n].text
                             /\ fly'[n].called = fly[n].called
  <1>1. \A n \in Live : /\ fly[n] \in Flying
                        /\ [fly[n] EXCEPT !.x = Moved(n)] \in Flying
    BY TypingAssumption DEF Types, Flying, Moved
  <1>2. CASE MoveLetter
    <2>1. fly' = [fly EXCEPT ![it].x = Moved(it)]
      BY <1>2 DEF MoveLetter
    <2>2. Live' = Live
      BY <2>1 DEF Live
    <2>3. CASE it \notin Live
      BY <1>1, <2>1, <2>2, <2>3 DEF Types
    <2>4. CASE it \in Live
      BY <1>1, <2>1, <2>2, <2>4 DEF Types, Flying
    <2> QED
      BY <2>3, <2>4
  <1>3. CASE RemoveLetter
    <2>1. fly' = [m \in Live \ {it} |-> fly[m]]
      BY <1>3 DEF RemoveLetter, Removed
    <2>2. Live' = Live \ {it}
      BY <2>1 DEF Live
    <2> QED
      BY <1>1, <2>1, <2>2
  <1> QED
    BY <1>2, <1>3

LEMMA MoveKeyInv == KeyInv /\ (MoveLetter \/ RemoveLetter) => KeyInv'
  <1> SUFFICES ASSUME KeyInv, MoveLetter \/ RemoveLetter PROVE KeyInv'
    OBVIOUS
  <1>1. UNCHANGED <<slot, scan_code_buf, handler, letter_pressed, eflags_IF, pc>>
    BY DEF MoveLetter, RemoveLetter, pic
  <1>2. /\ Live' \subseteq Live /\ fly' \in [Live' -> Flying]
        /\ \A n \in Live' : /\ fly'[n].v = fly[n].v /\ fly'[n].text = fly[n].text
                            /\ fly'[n].called = fly[n].called
    BY MoveFacts DEF KeyInv
  <1>3. eflags_IF' \in BOOLEAN /\ handler' \in BOOLEAN
    BY <1>1, Zenon DEF KeyInv, Types
  <1>4. Types'
    BY <1>1, <1>2, <1>3 DEF KeyInv, Types
  <1>5. MaskedAtKeysOnly'
    BY <1>1 DEF KeyInv, MaskedAtKeysOnly
  <1>6. PressInv'
    BY <1>1, <1>2 DEF KeyInv, PressInv, OnItsWay, Falling
  <1> QED
    BY <1>4, <1>5, <1>6 DEF KeyInv

LEMMA NextKeyInv == KeyInv /\ [Next]_vars => KeyInv'
  <1> SUFFICES ASSUME KeyInv, [Next]_vars PROVE KeyInv'
    OBVIOUS
  <1>1. CASE User
    BY <1>1, KeyEventKeyInv DEF User
  <1>2. CASE TimerFires
    BY <1>2, TimerFiresKeyInv
  <1>3. CASE Handler
    BY <1>3, HandlerKeyInv
  <1>4. CASE Game
    <2>1. CASE QuietGame
      BY <2>1, QuietKeyInv
    <2>2. CASE MoveLetter \/ RemoveLetter
      BY <2>2, MoveKeyInv
    <2>3. CASE \E n \in Nodes : Strike(n)
      BY <2>3, StrikeKeyInv
    <2>4. CASE \E l \in Letters : CreateNewLetter(l)
      BY <2>4, CreateKeyInv
    <2> QED
      BY <1>4, <2>1, <2>2, <2>3, <2>4 DEF Game, QuietGame
  <1>5. CASE UNCHANGED vars
    <2>1. UNCHANGED <<slot, scan_code_buf, eflags_IF, handler, letter_pressed, pc, fly>>
      BY <1>5 DEF vars, pic, pool
    <2>2. eflags_IF' \in BOOLEAN /\ handler' \in BOOLEAN
      BY <2>1, Zenon DEF KeyInv, Types
    <2> QED
      BY <2>1, <2>2 DEF KeyInv, Types, MaskedAtKeysOnly, PressInv, OnItsWay, Falling, Live
  <1> QED
    BY <1>1, <1>2, <1>3, <1>4, <1>5 DEF Next

LEMMA KeyInvariant == Spec => []KeyInv
  BY InitKeyInv, NextKeyInv, PTL DEF Spec

(* The main loop waits with interrupts on, on every path out of            *)
(* update_keypress() (effect.c:97, game.c).                                *)
THEOREM SleepsInterruptibly == Spec => []WaitsWithInterruptsOn
  <1>1. KeyInv => WaitsWithInterruptsOn
    BY DEF KeyInv, MaskedAtKeysOnly, WaitsWithInterruptsOn
  <1> QED
    BY <1>1, KeyInvariant, PTL

(* Only a strike turns a letter upwards, and it strikes a called one.      *)
OwnPress == \A n \in Falling : n \in DOMAIN fly' /\ fly'[n].v < 0 => fly[n].called

LEMMA StrikeOwnPress ==
  ASSUME KeyInv, NEW s \in Nodes, Strike(s)
  PROVE  OwnPress
  <1> SUFFICES ASSUME NEW n \in Falling, fly'[n].v < 0
               PROVE  fly[n].called
    BY DEF OwnPress
  <1>1. fly' = Struck(s) /\ s \in Falling /\ fly[s].text \in letter_pressed
    BY DEF Strike, IsLowest, Targets
  <1>2. fly[n] \in Flying /\ fly[n].v > 0 /\ n \in Live
    BY DEF KeyInv, Types, Falling
  <1>3. n # s => fly'[n].v = fly[n].v
    BY <1>1, <1>2 DEF Struck, Flying
  <1>4. n = s
    BY <1>2, <1>3, TypingAssumption DEF Flying
  <1> QED
    BY <1>1, <1>4 DEF KeyInv, PressInv

LEMMA CreateOwnPress ==
  ASSUME KeyInv, NEW l \in Letters, CreateNewLetter(l)
  PROVE  OwnPress
  <1> SUFFICES ASSUME NEW n \in Falling, fly'[n].v < 0
               PROVE  FALSE
    BY DEF OwnPress
  <1>1. fly[n] \in Flying /\ fly[n].v > 0 /\ n \in Live
    BY DEF KeyInv, Types, Falling
  <1>2. fly'[n] \in {fly[n], Letter(l)}
    BY <1>1 DEF CreateNewLetter, Created, pool
  <1> QED
    BY <1>1, <1>2, TypingAssumption DEF Letter, Flying

LEMMA KeyEventOwnPress ==
  ASSUME KeyInv, NEW code \in Letters \union {Other}, KeyEvent(code)
  PROVE  OwnPress
  <1> SUFFICES ASSUME NEW n \in Falling, fly'[n].v < 0
               PROVE  FALSE
    BY DEF OwnPress
  <1>1. fly[n] \in Flying /\ fly[n].v > 0 /\ n \in Live /\ fly' = Called(code)
    BY DEF KeyInv, Types, Falling, KeyEvent
  <1>2. fly'[n].v = fly[n].v
    BY <1>1 DEF Called, Flying
  <1> QED
    BY <1>1, <1>2, TypingAssumption DEF Flying

LEMMA NextOwnPress == KeyInv /\ [Next]_vars => OwnPress
  <1> SUFFICES ASSUME KeyInv, [Next]_vars PROVE OwnPress
    OBVIOUS
  <1>1. \A n \in Falling : fly[n].v \in Int /\ ~(fly[n].v < 0)
    BY TypingAssumption DEF KeyInv, Types, Flying, Falling
  <1>2. UNCHANGED fly => OwnPress
    BY <1>1 DEF OwnPress
  <1>3. CASE User
    BY <1>3, KeyEventOwnPress DEF User
  <1>4. CASE TimerFires \/ Handler
    BY <1>2, <1>4 DEF TimerFires, Handler, TimerIntr, KeyboardIntr, ReadKey, pool
  <1>5. CASE Game
    <2>1. CASE QuietGame
      BY <1>2, <2>1 DEF QuietGame, Boot, Hlt, Check, KeysDone, NoNewLetter, TickDone, CaughtUp, pool
    <2>2. CASE MoveLetter \/ RemoveLetter
      BY <1>1, <2>2, MoveFacts DEF KeyInv, OwnPress, Live
    <2>3. CASE \E n \in Nodes : Strike(n)
      BY <2>3, StrikeOwnPress
    <2>4. CASE \E l \in Letters : CreateNewLetter(l)
      BY <2>4, CreateOwnPress
    <2> QED
      BY <1>5, <2>1, <2>2, <2>3, <2>4 DEF Game, QuietGame
  <1>6. CASE UNCHANGED vars
    BY <1>2, <1>6 DEF vars, pool
  <1> QED
    BY <1>3, <1>4, <1>5, <1>6 DEF Next

(* No letter is struck by a press that was made before it appeared, or     *)
(* that another letter has used up (keyboard.c:14, effect.c:53 and 97).    *)
THEOREM PressesAreTheLetters == Spec => StruckByItsOwnPress
  <1>1. KeyInv /\ [Next]_vars => [OwnPress]_vars
    BY NextOwnPress
  <1> QED
    BY <1>1, KeyInvariant, PTL DEF Spec, StruckByItsOwnPress, OwnPress
-----------------------------------------------------------------------------
(* Linked lists: nx[n] is the node after n, or Null. *)

(* Who has a node of S has the next one.                                   *)
ClosedBy(nx, S) == \A n \in S : nx[n] # Null => nx[n] \in S

(* Nothing of T is missed by who starts at h.                              *)
WholeBy(nx, T, h) == \A S \in SUBSET T : h \in S /\ ClosedBy(nx, S) => S = T

(* A node put before the list.                                             *)
LEMMA PushWhole ==
  ASSUME NEW nx, NEW my, NEW T, NEW h, NEW n,
         ClosedBy(nx, T), WholeBy(nx, T, h), h \in T \/ (h = Null /\ T = {}),
         n \notin T, Null \notin T, my[n] = h, \A m \in T : my[m] = nx[m]
  PROVE  ClosedBy(my, T \union {n}) /\ WholeBy(my, T \union {n}, n)
  <1>1. ClosedBy(my, T \union {n})
    BY DEF ClosedBy
  <1>2. ASSUME NEW S \in SUBSET (T \union {n}), n \in S, ClosedBy(my, S)
        PROVE  S = T \union {n}
    <2>1. CASE h = Null /\ T = {}
      BY <1>2, <2>1
    <2>2. CASE h \in T
      <3>1. h \in S
        BY <1>2, <2>2 DEF ClosedBy
      <3>2. ClosedBy(nx, S \intersect T)
        BY <1>2 DEF ClosedBy
      <3>3. S \intersect T = T
        BY <2>2, <3>1, <3>2 DEF WholeBy
      <3> QED
        BY <1>2, <3>3
    <2> QED
      BY <2>1, <2>2
  <1> QED
    BY <1>1, <1>2 DEF WholeBy

(* The first node taken off the list, when it is not the only one.         *)
LEMMA PopWhole ==
  ASSUME NEW nx, NEW my, NEW T, NEW h \in T,
         ClosedBy(nx, T), WholeBy(nx, T, h), nx[h] # Null,
         \A m \in T : nx[m] # h, \A m \in T \ {h} : my[m] = nx[m]
  PROVE  ClosedBy(my, T \ {h}) /\ WholeBy(my, T \ {h}, nx[h])
  <1>1. ClosedBy(my, T \ {h})
    BY DEF ClosedBy
  <1>2. ASSUME NEW S \in SUBSET (T \ {h}), nx[h] \in S, ClosedBy(my, S)
        PROVE  S = T \ {h}
    <2>1. ClosedBy(nx, S \union {h})
      BY <1>2 DEF ClosedBy
    <2>2. S \union {h} \in SUBSET T
      BY <1>2
    <2>3. S \union {h} = T
      BY <2>1, <2>2 DEF WholeBy
    <2> QED
      BY <1>2, <2>3
  <1> QED
    BY <1>1, <1>2 DEF WholeBy

(* A node n taken out anywhere; p is the node before it, or Null.          *)
IsCut(nx, my, T, h, n, p) ==
  /\ h \in T /\ n \in T /\ Null \notin T
  /\ p \in T \/ p = Null
  /\ (p = Null) <=> (n = h)
  /\ \A m \in T : nx[m] = n <=> m = p
  /\ \A m \in T \ {n} : my[m] = IF m = p THEN nx[n] ELSE nx[m]

LEMMA CutWhole ==
  ASSUME NEW nx, NEW my, NEW T, NEW h, NEW n, NEW p,
         IsCut(nx, my, T, h, n, p), ClosedBy(nx, T), WholeBy(nx, T, h)
  PROVE  /\ p # n /\ nx[n] # n
         /\ ClosedBy(my, T \ {n})
         /\ WholeBy(my, T \ {n}, IF n = h THEN nx[n] ELSE h)
  <1> USE DEF IsCut
  <1>1. p # n
    <2> SUFFICES ASSUME p = n PROVE FALSE
      OBVIOUS
    <2>1. h \in T \ {n}
      OBVIOUS
    <2>2. ClosedBy(nx, T \ {n})
      BY DEF ClosedBy
    <2>3. T \ {n} = T
      BY <2>1, <2>2 DEF WholeBy
    <2> QED
      BY <2>3
  <1>2. nx[n] # n
    BY <1>1
  <1>3. ClosedBy(my, T \ {n})
    BY <1>2 DEF ClosedBy
  <1>4. ASSUME NEW S \in SUBSET (T \ {n}), (IF n = h THEN nx[n] ELSE h) \in S,
               ClosedBy(my, S)
        PROVE  S = T \ {n}
    <2>1. CASE n = h \/ p \in S
      <3>1. nx[n] # Null => nx[n] \in S
        <4>1. CASE n = h
          BY <1>4, <4>1
        <4>2. CASE n # h
          <5>1. p \in S /\ my[p] = nx[n]
            BY <1>1, <2>1, <4>2
          <5> QED
            BY <1>4, <5>1 DEF ClosedBy
        <4> QED
          BY <4>1, <4>2
      <3>2. ASSUME NEW m \in S, nx[m] # Null PROVE nx[m] \in S \union {n}
        <4>1. CASE m = p
          BY <3>2, <4>1
        <4>2. CASE m # p
          <5>1. my[m] = nx[m]
            BY <1>4, <4>2
          <5> QED
            BY <1>4, <3>2, <5>1 DEF ClosedBy
        <4> QED
          BY <4>1, <4>2
      <3>3. ClosedBy(nx, S \union {n})
        BY <3>1, <3>2 DEF ClosedBy
      <3>4. h \in S \union {n} /\ S \union {n} \in SUBSET T
        BY <1>4
      <3>5. S \union {n} = T
        BY <3>3, <3>4 DEF WholeBy
      <3> QED
        BY <1>4, <3>5
    <2>2. CASE n # h /\ p \notin S
      <3>1. \A m \in S : my[m] = nx[m]
        BY <1>4, <2>2
      <3>2. ClosedBy(nx, S)
        BY <1>4, <3>1 DEF ClosedBy
      <3>3. S = T
        BY <1>4, <2>2, <3>2 DEF WholeBy
      <3> QED
        BY <1>4, <3>3
    <2> QED
      BY <2>1, <2>2
  <1> QED
    BY <1>1, <1>2, <1>3, <1>4 DEF WholeBy

-----------------------------------------------------------------------------
(* The pool of the letters. *)

LinkTypes ==
  /\ next \in [Nodes -> Nodes \union {Null}] /\ prev \in [Nodes -> Nodes \union {Null}]
  /\ free_head \in Nodes \union {Null} /\ head \in Nodes \union {Null}
  /\ Live \subseteq Nodes

(* The links of the free nodes F, the first of which is h.                 *)
FreeLinks(nx, F, h) ==
  \A n \in F : /\ nx[n] = Null <=> n = SIZE
               /\ nx[n] # Null => nx[n] \in F /\ nx[n] # h
               /\ \A m \in F : nx[m] = nx[n] => m = n

(* The game's place in the list is a node in use, the last node of the pool*)
(* is never used, and both lists are linked and whole.                     *)
LinkInv ==
  /\ LinkTypes
  /\ it \in Live \union {Null}
  /\ SIZE \notin Live
  /\ free_head = Null => Live = {} /\ next[SIZE] = Null
  /\ free_head # Null => free_head \in Free
  /\ ListInUse /\ WholeBy(next, Live, head)
  /\ FreeLinks(next, Free, free_head) /\ WholeBy(next, Free, free_head)

LEMMA NodeFacts == /\ SIZE \in Nodes /\ 0 \in Nodes /\ 0 # SIZE /\ Null \notin Nodes
                   /\ \A n \in Nodes : n # SIZE => n + 1 \in Nodes /\ n < SIZE /\ n + 1 # 0
                   /\ ~(SIZE < SIZE)
  BY TypingAssumption DEF Nodes

LEMMA InitLinkInv == Init => LinkInv
  <1> SUFFICES ASSUME Init PROVE LinkInv
    OBVIOUS
  <1>1. /\ next = [n \in Nodes |-> Null] /\ prev = [n \in Nodes |-> Null]
        /\ free_head = Null /\ head = Null /\ it = Null /\ Live = {}
    BY Zenon DEF Init, Live
  <1>2. Free = {}
    BY <1>1 DEF Free
  <1> QED
    BY <1>1, <1>2, NodeFacts DEF LinkInv, LinkTypes, ListInUse, WholeBy, FreeLinks

(* A set of nodes that is not empty has a least one.                       *)
LEMMA LeastNode ==
  ASSUME NEW T, T \subseteq Nodes, T # {}
  PROVE  \E m \in T : \A k \in T : m <= k
  <1> DEFINE Below == {p \in Nat \X Nat : p[1] < p[2]}
  <1>1. Below = OpToRel(<, Nat)
    BY Zenon DEF OpToRel
  <1>2. IsWellFoundedOn(Below, Nat)
    BY <1>1, NatLessThanWellFounded, Zenon
  <1>3. \A a, b \in Nat : <<a, b>> \notin Below => b <= a
    OBVIOUS
  <1>4. T \subseteq Nat
    BY TypingAssumption DEF Nodes
  <1> HIDE DEF Below
  <1>5. PICK m \in T : \A k \in T : ~ (<<k, m>> \in Below)
    BY <1>2, <1>4, WFMin, Zenon
  <1> QED
    BY <1>3, <1>4, <1>5

(* fly_new() finds a free list, of all nodes if there was no pool.         *)
LEMMA ThreadedFacts ==
  ASSUME LinkInv
  PROVE  /\ Threaded \in [Nodes -> Nodes \union {Null}]
         /\ FirstFree \in Nodes \ Live
         /\ \A n \in Live : Threaded[n] = next[n]
         /\ FreeLinks(Threaded, Nodes \ Live, FirstFree)
         /\ WholeBy(Threaded, Nodes \ Live, FirstFree)
  <1>1. CASE free_head # Null
    <2>1. Threaded = next /\ FirstFree = free_head /\ Free = Nodes \ Live
      BY <1>1 DEF Threaded, FirstFree, Free
    <2> QED
      BY <1>1, <2>1 DEF LinkInv, LinkTypes
  <1>2. CASE free_head = Null
    <2> DEFINE nx == [n \in Nodes |-> IF n < SIZE THEN n + 1 ELSE next[n]]
    <2>1. /\ Threaded = nx /\ FirstFree = 0 /\ Live = {} /\ next[SIZE] = Null
          /\ next \in [Nodes -> Nodes \union {Null}]
      BY <1>2 DEF Threaded, FirstFree, LinkInv, LinkTypes
    <2>2. /\ nx[SIZE] = Null
          /\ \A n \in Nodes : n # SIZE => nx[n] = n + 1 /\ n + 1 \in Nodes /\ n + 1 # 0
      BY <2>1, NodeFacts
    <2>3. nx \in [Nodes -> Nodes \union {Null}]
      BY <2>1, NodeFacts
    <2> HIDE DEF nx
    <2>4. \A m, n \in Nodes : m + 1 = n + 1 => m = n
      BY DEF Nodes
    <2>5. FreeLinks(nx, Nodes, 0)
      BY <2>2, <2>4, NodeFacts DEF FreeLinks
    <2>6. ASSUME NEW S \in SUBSET Nodes, 0 \in S, ClosedBy(nx, S)
          PROVE  S = Nodes
      <3> SUFFICES ASSUME Nodes \ S # {} PROVE FALSE
        BY <2>6
      <3>1. PICK m \in Nodes \ S : \A k \in Nodes \ S : m <= k
        BY LeastNode
      <3>2. m # 0 /\ m \in Nodes
        BY <2>6
      <3>3. m - 1 \in Nodes /\ ~(m <= m - 1) /\ m - 1 # SIZE /\ (m - 1) + 1 = m
        BY <3>2, TypingAssumption DEF Nodes
      <3>4. m - 1 \in S
        BY <3>1, <3>3
      <3>5. nx[m - 1] = m /\ m # Null
        BY <2>2, <3>2, <3>3, NodeFacts
      <3> QED
        BY <2>6, <3>1, <3>4, <3>5 DEF ClosedBy
    <2>7. WholeBy(nx, Nodes, 0)
      BY <2>6 DEF WholeBy
    <2> QED
      BY <2>1, <2>3, <2>5, <2>7, NodeFacts
  <1> QED
    BY <1>1, <1>2

(* create_new_letter(): the first free node becomes the first in use.      *)
LEMMA CreateLinks ==
  ASSUME LinkInv, NEW l \in Letters, CreateNewLetter(l)
  PROVE  LinkInv'
  <1>1. CASE ~IsFree
    BY <1>1 DEF CreateNewLetter, pool, LinkInv, LinkTypes, Live, Free, ListInUse
  <1>2. CASE IsFree
    <2> DEFINE nx   == Threaded
               node == FirstFree
               F    == Nodes \ Live
    <2>1. /\ nx[node] # Null
          /\ free_head' = nx[node]
          /\ next' = [nx EXCEPT ![node] = head]
          /\ prev' = [n \in Nodes |-> IF n = node THEN Null ELSE IF n = head THEN node ELSE prev[n]]
          /\ head' = node /\ it' = head'
          /\ fly' = [n \in Live \union {node} |-> IF n = node THEN Letter(l) ELSE fly[n]]
      BY <1>2, Zenon DEF CreateNewLetter, Created, IsFree
    <2>2. Live' = Live \union {node}
      BY <2>1 DEF Live
    <2>3. /\ nx \in [Nodes -> Nodes \union {Null}] /\ node \in F
          /\ \A n \in Live : nx[n] = next[n]
          /\ FreeLinks(nx, F, node) /\ WholeBy(nx, F, node)
      BY ThreadedFacts
    <2> HIDE DEF nx, node
    <2>4. /\ next' \in [Nodes -> Nodes \union {Null}] /\ next'[node] = head
          /\ \A n \in Live : next'[n] = next[n]
          /\ \A n \in F \ {node} : next'[n] = nx[n]
      BY <2>1, <2>3 DEF LinkInv, LinkTypes
    <2>5. /\ prev' \in [Nodes -> Nodes \union {Null}] /\ prev'[node] = Null
          /\ \A n \in Live : prev'[n] = IF n = head THEN node ELSE prev[n]
      BY <2>1, <2>3 DEF LinkInv, LinkTypes
    <2>6. Live' \subseteq Nodes /\ head' \in Nodes /\ free_head' \in Nodes /\ LinkTypes'
      BY <2>1, <2>2, <2>3, <2>4, <2>5 DEF LinkInv, LinkTypes
    <2>7. node # SIZE /\ SIZE \notin Live'
      BY <2>1, <2>2, <2>3 DEF FreeLinks, LinkInv
    <2>8. Free' = F \ {node} /\ free_head' # Null
      BY <2>1, <2>2 DEF Free
    <2>9. node # Null /\ Null \notin Live
      BY <2>3, NodeFacts DEF LinkInv, LinkTypes
    <2>10. ListInUse'
      <3>1. head # Null => head \in Live
        BY DEF LinkInv, ListInUse
      <3>2. head = Null => Live = {}
        BY DEF LinkInv, ListInUse
      <3>3. ASSUME NEW n \in Live'
            PROVE  /\ next'[n] # Null => next'[n] \in Live' /\ prev'[next'[n]] = n
                   /\ prev'[n] # Null => prev'[n] \in Live' /\ next'[prev'[n]] = n
                   /\ prev'[n] = Null => n = head'
        <4>1. CASE n = node
          BY <2>1, <2>2, <2>4, <2>5, <3>1, <4>1
        <4>2. CASE n # node
          <5>1. /\ n \in Live /\ node \notin Live
                /\ next'[n] = next[n]
                /\ prev'[n] = IF n = head THEN node ELSE prev[n]
            BY <2>2, <2>3, <2>4, <2>5, <4>2
          <5>2. /\ next[n] # Null => next[n] \in Live /\ prev[next[n]] = n
                /\ prev[n] # Null => prev[n] \in Live /\ next[prev[n]] = n
                /\ prev[n] = Null => n = head
            BY <5>1 DEF LinkInv, ListInUse
          <5>3. head # Null => prev[head] = Null
            BY DEF LinkInv, ListInUse
          <5>4. next[n] # Null => next'[n] \in Live' /\ prev'[next'[n]] = n
            <6> SUFFICES ASSUME next[n] # Null PROVE next[n] \in Live' /\ prev'[next[n]] = n
              BY <5>1
            <6>1. next[n] \in Live /\ next[n] # head
              BY <2>9, <5>1, <5>2, <5>3
            <6> QED
              BY <2>2, <2>5, <5>2, <6>1
          <5>5. prev'[n] # Null => prev'[n] \in Live' /\ next'[prev'[n]] = n
            BY <2>2, <2>4, <5>1, <5>2
          <5>6. prev'[n] # Null
            BY <2>9, <5>1, <5>2
          <5> QED
            BY <5>1, <5>4, <5>5, <5>6
        <4> QED
          BY <4>1, <4>2
      <3>4. head' \in Live' /\ head' # Null /\ prev'[head'] = Null
        BY <2>1, <2>2, <2>5, <2>9
      <3> QED
        BY <3>3, <3>4 DEF ListInUse
    <2>11. WholeBy(next', Live \union {node}, node)
      <3>1. ClosedBy(next, Live) /\ WholeBy(next, Live, head)
        BY DEF LinkInv, ListInUse, ClosedBy
      <3>2. head \in Live \/ (head = Null /\ Live = {})
        BY DEF LinkInv, ListInUse
      <3>3. node \notin Live
        BY <2>3
      <3> QED
        BY <2>4, <2>9, <3>1, <3>2, <3>3, PushWhole
    <2>12. WholeBy(next', F \ {node}, nx[node])
      <3>1. ClosedBy(nx, F) /\ \A m \in F : nx[m] # node
        BY <2>3, <2>9 DEF FreeLinks, ClosedBy
      <3> QED
        BY <2>1, <2>3, <2>4, <3>1, PopWhole
    <2>13. FreeLinks(next', F \ {node}, nx[node])
      BY <2>3, <2>4 DEF FreeLinks
    <2>14. nx[node] \in F \ {node}
      BY <2>1, <2>3 DEF FreeLinks
    <2> QED
      BY <2>1, <2>2, <2>6, <2>7, <2>8, <2>10, <2>11, <2>12, <2>13, <2>14 DEF LinkInv
  <1> QED
    BY <1>1, <1>2

(* fly_remove() and fly_free(): a node in use becomes the first free one.  *)
LEMMA RemoveLinks ==
  ASSUME LinkInv, RemoveLetter
  PROVE  LinkInv'
  <1> DEFINE p == prev[it]
             q == next[it]
  <1>1. /\ it # Null
        /\ next' = [m \in Nodes |-> IF m = it THEN free_head ELSE IF m = p THEN q ELSE next[m]]
        /\ prev' = [m \in Nodes |-> IF m = q THEN p ELSE prev[m]]
        /\ free_head' = it
        /\ fly' = [m \in Live \ {it} |-> fly[m]]
        /\ head' = IF it = head THEN q ELSE head
        /\ it' = q
    BY Zenon DEF RemoveLetter, Removed
  <1>2. it \in Live /\ it \in Nodes /\ Live' = Live \ {it} /\ Null \notin Live
    BY <1>1, NodeFacts DEF Live, LinkInv, LinkTypes
  <1>3. free_head # Null /\ Free = Nodes \ Live /\ it # SIZE
    BY <1>2 DEF LinkInv, Free
  <1>4. Free' = Free \union {it} /\ it \notin Free /\ Null \notin Free
    BY <1>1, <1>2, <1>3, NodeFacts DEF Free
  <1>5. /\ head \in Live /\ prev[head] = Null
        /\ \A n \in Live : /\ next[n] # Null => next[n] \in Live /\ prev[next[n]] = n
                           /\ prev[n] # Null => prev[n] \in Live /\ next[prev[n]] = n
                           /\ prev[n] = Null => n = head
    BY <1>2 DEF LinkInv, ListInUse
  <1>6. /\ p \in Live \/ p = Null
        /\ (p = Null) <=> (it = head)
        /\ \A m \in Live : next[m] = it <=> m = p
    BY <1>1, <1>2, <1>5
  <1>7. /\ next' \in [Nodes -> Nodes \union {Null}] /\ next'[it] = free_head
        /\ \A m \in Live \ {it} : next'[m] = IF m = p THEN q ELSE next[m]
        /\ \A m \in Free : next'[m] = next[m]
    <2>1. \A m \in Free : m # it /\ m # p /\ m \in Nodes
      BY <1>2, <1>3, <1>6, NodeFacts
    <2>2. /\ next \in [Nodes -> Nodes \union {Null}] /\ free_head \in Nodes
          /\ q \in Nodes \union {Null} /\ Live \subseteq Nodes
      BY <1>2, <1>3 DEF LinkInv, LinkTypes
    <2> HIDE DEF p, q
    <2> QED
      BY <1>1, <1>2, <2>1, <2>2
  <1>8. /\ prev' \in [Nodes -> Nodes \union {Null}]
        /\ \A m \in Live : prev'[m] = IF m = q THEN p ELSE prev[m]
    <2>1. /\ prev \in [Nodes -> Nodes \union {Null}] /\ p \in Nodes \union {Null}
          /\ Live \subseteq Nodes
      BY <1>2 DEF LinkInv, LinkTypes
    <2> HIDE DEF p, q
    <2> QED
      BY <1>1, <2>1
  <1>9. /\ p # it /\ q # it
        /\ WholeBy(next', Live \ {it}, IF it = head THEN q ELSE head)
    <2>1. ClosedBy(next, Live) /\ WholeBy(next, Live, head)
      BY <1>5 DEF LinkInv, ClosedBy
    <2>2. \A m \in Live \ {it} : next'[m] = IF m = p THEN next[it] ELSE next[m]
      BY <1>7
    <2>3. head \in Live /\ it \in Live /\ Null \notin Live
      BY <1>2, <1>5
    <2>4. IsCut(next, next', Live, head, it, p)
      BY <1>6, <2>2, <2>3 DEF IsCut
    <2> HIDE DEF p
    <2> QED
      BY <2>1, <2>4, CutWhole
  <1>10. q = Null \/ q \in Live \ {it}
    BY <1>2, <1>5, <1>9
  <1>11. LinkTypes'
    BY <1>1, <1>2, <1>7, <1>8, <1>10 DEF LinkInv, LinkTypes
  <1>12. ListInUse'
    <2>1. p # Null => p \in Live' /\ next'[p] = q
      BY <1>2, <1>6, <1>7, <1>9
    <2>2. q # Null => q \in Live' /\ prev'[q] = p /\ prev[q] = it
      BY <1>2, <1>5, <1>8, <1>10
    <2>3. ASSUME NEW n \in Live'
          PROVE  /\ next'[n] # Null => next'[n] \in Live' /\ prev'[next'[n]] = n
                 /\ prev'[n] # Null => prev'[n] \in Live' /\ next'[prev'[n]] = n
                 /\ prev'[n] = Null => n = head'
      <3>1. n \in Live /\ n # it
        BY <1>2, <2>3
      <3>2. /\ next'[n] = IF n = p THEN q ELSE next[n]
            /\ prev'[n] = IF n = q THEN p ELSE prev[n]
        BY <1>7, <1>8, <3>1
      <3>3. next'[n] # Null => next'[n] \in Live' /\ prev'[next'[n]] = n
        <4>1. CASE n = p
          BY <2>2, <3>2, <4>1
        <4>2. CASE n # p
          <5> SUFFICES ASSUME next[n] # Null PROVE next[n] \in Live' /\ prev'[next[n]] = n
            BY <3>2, <4>2
          <5>1. next[n] \in Live /\ prev[next[n]] = n /\ next[n] # it
            BY <1>5, <1>6, <3>1, <4>2
          <5>2. next[n] # q
            BY <2>2, <3>1, <5>1
          <5> QED
            BY <1>2, <1>8, <5>1, <5>2
        <4> QED
          BY <4>1, <4>2
      <3>4. prev'[n] # Null => prev'[n] \in Live' /\ next'[prev'[n]] = n
        <4>1. CASE n = q
          BY <2>1, <3>2, <4>1
        <4>2. CASE n # q
          <5> SUFFICES ASSUME prev[n] # Null PROVE prev[n] \in Live' /\ next'[prev[n]] = n
            BY <3>2, <4>2
          <5>1. prev[n] \in Live /\ next[prev[n]] = n
            BY <1>5, <3>1
          <5>2. prev[n] # it
            BY <4>2, <5>1
          <5>3. prev[n] # p
            BY <1>6, <3>1, <5>1
          <5> QED
            BY <1>2, <1>7, <5>1, <5>2, <5>3
        <4> QED
          BY <4>1, <4>2
      <3>5. prev'[n] = Null => n = head'
        BY <1>1, <1>5, <1>6, <2>2, <3>1, <3>2
      <3> QED
        BY <3>3, <3>4, <3>5
    <2>4. head' # Null => head' \in Live' /\ prev'[head'] = Null
      <3>1. CASE it = head
        BY <1>1, <1>6, <2>2, <3>1
      <3>2. CASE it # head
        <4>1. head' = head /\ head \in Live'
          BY <1>1, <1>2, <1>5, <3>2
        <4>2. head # q
          BY <1>1, <1>2, <1>5, <2>2
        <4> QED
          BY <1>5, <1>8, <4>1, <4>2
      <3> QED
        BY <3>1, <3>2
    <2>5. head' = Null => Live' = {}
      <3> SUFFICES ASSUME head' = Null PROVE Live' = {}
        OBVIOUS
      <3>1. it = head /\ q = Null
        BY <1>1, <1>2, <1>5
      <3>2. ClosedBy(next, {it})
        BY <3>1 DEF ClosedBy
      <3>3. {it} = Live
        BY <1>2, <3>1, <3>2 DEF LinkInv, WholeBy
      <3> QED
        BY <1>2, <3>3
    <2>6. Live' = {} => head' = Null
      BY <2>4, <1>1, <1>5, <1>2, <1>10
    <2> HIDE DEF p, q
    <2> QED
      BY <2>3, <2>4, <2>5, <2>6 DEF ListInUse
  <1>13. /\ FreeLinks(next, Free, free_head) /\ WholeBy(next, Free, free_head)
         /\ free_head \in Free
    BY <1>3 DEF LinkInv
  <1>14. WholeBy(next', Free \union {it}, it)
    <2>1. ClosedBy(next, Free)
      BY <1>13 DEF FreeLinks, ClosedBy
    <2> QED
      BY <1>4, <1>7, <1>13, <2>1, PushWhole
  <1>15. FreeLinks(next', Free \union {it}, it)
    BY <1>3, <1>4, <1>7, <1>13 DEF FreeLinks
  <1> QED
    <2>1. /\ it' \in Live' \union {Null} /\ SIZE \notin Live'
          /\ free_head' # Null /\ free_head' \in Free'
      BY <1>1, <1>2, <1>4, <1>10 DEF LinkInv
    <2>2. WholeBy(next', Live', head')
      BY <1>1, <1>2, <1>9
    <2>3. FreeLinks(next', Free', free_head') /\ WholeBy(next', Free', free_head')
      BY <1>1, <1>4, <1>14, <1>15
    <2> HIDE DEF p, q
    <2> QED
      BY <1>11, <1>12, <2>1, <2>2, <2>3 DEF LinkInv

LEMMA NextLinkInv == LinkInv /\ [Next]_vars => LinkInv'
  <1> SUFFICES ASSUME LinkInv, [Next]_vars PROVE LinkInv'
    OBVIOUS
  <1>1. ASSUME UNCHANGED <<next, prev, free_head, head>>, Live' = Live,
               it' \in Live \union {Null}
        PROVE  LinkInv'
    BY <1>1 DEF LinkInv, LinkTypes, ListInUse, Free
  <1>2. it \in Live \union {Null} /\ head \in Live \union {Null}
    BY DEF LinkInv, ListInUse
  <1>3. CASE User
    <2>1. PICK code \in Letters \union {Other} : KeyEvent(code)
      BY <1>3 DEF User
    <2>2. Live' = Live
      BY <2>1 DEF KeyEvent, Called, Live
    <2> QED
      BY <1>1, <1>2, <2>1, <2>2 DEF KeyEvent
  <1>4. CASE TimerFires \/ Handler
    BY <1>1, <1>2, <1>4 DEF TimerFires, Handler, TimerIntr, KeyboardIntr, ReadKey, pool, Live
  <1>5. CASE Game
    <2>1. CASE Boot \/ Hlt \/ Check \/ KeysDone \/ TickDone \/ CaughtUp \/ NoNewLetter
      BY <1>1, <1>2, <2>1
      DEF Boot, Hlt, Check, KeysDone, NoNewLetter, TickDone, CaughtUp, pool, Live
    <2>2. CASE MoveLetter
      <3>1. Live' = Live
        BY <2>2 DEF MoveLetter, Live
      <3>2. it' \in Live \union {Null}
        BY <1>2, <2>2 DEF MoveLetter, LinkInv, ListInUse
      <3> QED
        BY <1>1, <2>2, <3>1, <3>2 DEF MoveLetter
    <2>3. CASE RemoveLetter
      BY <2>3, RemoveLinks
    <2>4. CASE \E n \in Nodes : Strike(n)
      <3>1. Live' = Live
        BY <2>4 DEF Strike, Struck, Live
      <3> QED
        BY <1>1, <1>2, <2>4, <3>1 DEF Strike
    <2>5. CASE \E l \in Letters : CreateNewLetter(l)
      BY <2>5, CreateLinks
    <2> QED
      BY <1>5, <2>1, <2>2, <2>3, <2>4, <2>5 DEF Game
  <1>6. CASE UNCHANGED vars
    BY <1>1, <1>2, <1>6 DEF vars, pool, Live
  <1> QED
    BY <1>3, <1>4, <1>5, <1>6 DEF Next

(* What is whole is reached from its head.                                 *)
LEMMA WholeIsReached ==
  ASSUME NEW T, T \subseteq Nodes, NEW h, ClosedBy(next, T), WholeBy(next, T, h),
         h \in T \/ (h = Null /\ T = {})
  PROVE  Reached(h) = T
  <1>1. CASE h = Null /\ T = {}
    BY <1>1 DEF Reached
  <1>2. CASE h \in T
    <2>1. h # Null
      BY <1>2, NodeFacts
    <2>2. ASSUME NEW n \in Reached(h) PROVE n \in T
      BY <1>2, <2>2 DEF Reached, Closed, ClosedBy
    <2>3. ASSUME NEW n \in T, NEW S \in SUBSET Nodes, h \in S, Closed(S) PROVE n \in S
      <3>1. ClosedBy(next, S \intersect T) /\ h \in S \intersect T
        BY <1>2, <2>3 DEF Closed, ClosedBy
      <3>2. S \intersect T = T
        BY <3>1 DEF WholeBy
      <3> QED
        BY <3>2
    <2>4. ASSUME NEW n \in T PROVE n \in Reached(h)
      BY <2>1, <2>3 DEF Reached
    <2> QED
      BY <2>2, <2>4
  <1> QED
    BY <1>1, <1>2

LEMMA LinkImplies == LinkInv => ListsShareThePool
  <1> SUFFICES ASSUME LinkInv PROVE ListsShareThePool
    OBVIOUS
  <1>1. Reached(head) = Live
    <2>1. ClosedBy(next, Live) /\ (head \in Live \/ (head = Null /\ Live = {}))
      BY DEF LinkInv, ListInUse, ClosedBy
    <2> QED
      BY <2>1, WholeIsReached DEF LinkInv, LinkTypes
  <1>2. free_head # Null => Reached(free_head) = Free
    <2> SUFFICES ASSUME free_head # Null PROVE Reached(free_head) = Free
      OBVIOUS
    <2>1. ClosedBy(next, Free) /\ free_head \in Free /\ Free \subseteq Nodes
      BY DEF LinkInv, FreeLinks, ClosedBy, Free
    <2> QED
      BY <2>1, WholeIsReached DEF LinkInv
  <1>3. FreeList
    BY DEF LinkInv, FreeLinks, FreeList
  <1> QED
    BY <1>1, <1>2, <1>3 DEF LinkInv, ListsShareThePool, NothingLeaks

(* No node of fly_pool is lost or in both lists, however letters come and  *)
(* go, for every size of the pool (linklist.h).                            *)
THEOREM PoolIsShared == Spec => []ListsShareThePool
  <1>1. LinkInv /\ [Next]_vars => LinkInv'
    BY NextLinkInv
  <1>2. Init => LinkInv
    BY InitLinkInv
  <1>3. LinkInv => ListsShareThePool
    BY LinkImplies
  <1> QED
    BY <1>1, <1>2, <1>3, PTL DEF Spec
-----------------------------------------------------------------------------
(* How long a letter lives. *)

(* A letter with the fields of f has moved k times: when it falls, once for*)
(* each height; when it rises, it is gone before its lifetime is over.     *)
Lives(f, k) ==
  /\ f.x \in Nat
  /\ \/ f.v = 1 /\ f.x = k /\ k <= Bottom
     \/ f.v = -Rise /\ \E left \in Nat : k + left <= Lifetime /\ f.x < Rise * left + Rise

LEMMA LifetimeFacts ==
  /\ Bottom \div Rise \in Nat /\ Lifetime \in Nat
  /\ Lifetime = Bottom + Bottom \div Rise
  /\ Bottom < Rise * (Bottom \div Rise) + Rise
  <1> DEFINE q == Bottom \div Rise
             r == Bottom % Rise
  <1>1. Bottom \in Nat /\ Rise \in Nat /\ Rise > 0
    BY TypingAssumption
  <1>2. q \in Nat /\ r \in 0 .. Rise - 1 /\ Bottom = Rise * q + r
    BY <1>1, SMTT(30)
  <1> HIDE DEF r
  <1> QED
    BY <1>1, <1>2 DEF Lifetime

LEMMA MoveLives ==
  ASSUME NEW f, NEW g, NEW k \in Nat, Lives(f, k), g.v = f.v, g.x = f.x + f.v,
         ~(g.x < 0), ~(g.x > Bottom)
  PROVE  Lives(g, k + 1)
  <1>1. Bottom \in Nat /\ Rise \in Nat /\ Rise > 0 /\ f.x \in Nat
    BY TypingAssumption DEF Lives
  <1>2. CASE f.v = 1 /\ f.x = k
    BY <1>1, <1>2 DEF Lives
  <1>3. CASE f.v = -Rise /\ \E left \in Nat : k + left <= Lifetime /\ f.x < Rise * left + Rise
    <2>1. PICK left \in Nat : k + left <= Lifetime /\ f.x < Rise * left + Rise
      BY <1>3
    <2>2. g.x = f.x - Rise /\ g.x \in Nat
      BY <1>1, <1>3
    <2>3. left # 0
      <3> SUFFICES ASSUME left = 0 PROVE FALSE
        OBVIOUS
      <3>1. Rise * left = 0
        BY <1>1
      <3> QED
        BY <1>1, <2>1, <2>2, <3>1
    <2>4. left - 1 \in Nat /\ Rise * left = Rise * (left - 1) + Rise /\ Rise * (left - 1) \in Int
      BY <1>1, <2>3
    <2>5. k + 1 + (left - 1) <= Lifetime /\ g.x < Rise * (left - 1) + Rise
      BY <1>1, <2>1, <2>2, <2>4, LifetimeFacts
    <2> QED
      BY <1>3, <2>2, <2>4, <2>5 DEF Lives
  <1> QED
    BY <1>2, <1>3 DEF Lives

LEMMA StrikeLives ==
  ASSUME NEW f, NEW g, NEW k \in Nat, Lives(f, k), f.v > 0, g.v = -Rise, g.x = f.x
  PROVE  Lives(g, k)
  <1>1. Bottom \in Nat /\ Rise \in Nat /\ Rise > 0
    BY TypingAssumption
  <1>2. f.x = k /\ k <= Bottom
    BY <1>1 DEF Lives
  <1>3. /\ k + Bottom \div Rise <= Lifetime /\ Bottom \div Rise \in Nat
        /\ Rise * (Bottom \div Rise) \in Int
        /\ f.x < Rise * (Bottom \div Rise) + Rise
    BY <1>1, <1>2, LifetimeFacts
  <1> QED
    BY <1>2, <1>3 DEF Lives

LEMMA LivesBound ==
  ASSUME NEW f, NEW k \in Nat, Lives(f, k)
  PROVE  k <= Lifetime
BY LifetimeFacts, TypingAssumption DEF Lives

(* What update_letter_pos() has still to move: the list from `it' on.      *)
LeftToMove(todo) ==
  /\ ClosedBy(next, todo) /\ WholeBy(next, todo, it)
  /\ it \in todo \/ (it = Null /\ todo = {})
  /\ \A m \in todo : next[m] # it

(* The moves of a letter that appeared t Periods ago.                      *)
Moves(t, done) == Period * t + phase + done

(* The moves of a letter in the current tick.                              *)
Done(n, todo) == IF n \in todo THEN 0 ELSE 1

(* turn[n] tells how many Periods ago the letter n appeared: no two letters*)
(* in one of them.                                                         *)
Ages(turn, todo) ==
  /\ turn \in [Live -> Nat] /\ todo \subseteq Live
  /\ \A m, n \in Live : turn[m] = turn[n] => m = n
  /\ \A n \in Live : Lives(fly[n], Moves(turn[n], Done(n, todo)))
  /\ IF pc = "move" THEN LeftToMove(todo) ELSE todo = Live
  /\ pc # "move" /\ phase = 0 => \A n \in Live : turn[n] > 0

AgeInv ==
  /\ phase \in 0 .. Period - 1 /\ pc # "abort"
  /\ \E turn, todo : Ages(turn, todo)

LifeInv == KeyInv /\ LinkInv /\ AgeInv

LEMMA DoneFacts ==
  \A n, todo : /\ Done(n, todo) \in {0, 1}
               /\ n \in todo => Done(n, todo) = 0
               /\ n \notin todo => Done(n, todo) = 1
BY DEF Done

LEMMA MovesFacts ==
  ASSUME NEW t \in Nat, NEW done \in {0, 1}, phase \in 0 .. Period - 1
  PROVE  /\ Period * t \in Nat /\ Period * (t + 1) = Period * t + Period
         /\ Moves(t, done) \in Nat
         /\ Moves(t, done) = Period * t + phase + done
  <1>1. Period \in Nat /\ phase \in Nat
    BY TypingAssumption
  <1>2. Period * t \in Nat /\ Period * (t + 1) = Period * t + Period
    BY <1>1
  <1> QED
    BY <1>1, <1>2 DEF Moves

(* When a letter appears, the others are a Period old and more: there are  *)
(* fewer than the pool has room for.                                       *)
LEMMA NeverFull ==
  ASSUME LifeInv, pc = "chase", phase = 0
  PROVE  IsFree
  <1> SUFFICES ASSUME ~IsFree PROVE FALSE
    OBVIOUS
  <1>1. PICK turn, todo : Ages(turn, todo)
    BY DEF LifeInv, AgeInv
  <1>2. /\ turn \in [Live -> Nat] /\ todo = Live
        /\ \A m, n \in Live : turn[m] = turn[n] => m = n
        /\ \A n \in Live : Lives(fly[n], Moves(turn[n], Done(n, todo))) /\ turn[n] > 0
    BY <1>1 DEF Ages
  <1>3. SIZE \in Nat /\ SIZE > 0 /\ Period \in Nat /\ Period > 0 /\ phase \in 0 .. Period - 1
    BY TypingAssumption
  <1>4. ASSUME NEW n \in Live PROVE turn[n] \in 1 .. SIZE - 1
    <2>1. turn[n] \in Nat /\ turn[n] > 0 /\ Done(n, todo) = 0
      BY <1>2, DoneFacts
    <2>m. Moves(turn[n], Done(n, todo)) = Period * turn[n] + phase + 0
      BY <1>3, <2>1, MovesFacts
    <2>2. Period * turn[n] \in Nat /\ Period * turn[n] <= Lifetime
      <3>1. Period * turn[n] \in Nat /\ Period * turn[n] + phase = Period * turn[n]
        BY <1>3, <2>1
      <3>2. Lives(fly[n], Period * turn[n])
        BY <1>2, <1>3, <2>1, <2>m, <3>1
      <3> QED
        BY <3>1, <3>2, LivesBound
    <2>3. Period * turn[n] < Period * SIZE
      BY <1>3, <2>2, PoolAssumption, LifetimeFacts
    <2>4. turn[n] < SIZE
      <3> DEFINE t == turn[n]
      <3> HIDE DEF t
      <3>1. t \in Nat /\ Period * t < Period * SIZE => t < SIZE
        <4> SUFFICES ASSUME t \in Nat, t >= SIZE PROVE Period * t >= Period * SIZE
          BY <1>3
        <4>1. PICK d \in Nat : t = SIZE + d
          <5>1. t - SIZE \in Nat /\ t = SIZE + (t - SIZE)
            BY <1>3
          <5> QED
            BY <5>1
        <4>2. Period * t = Period * SIZE + Period * d /\ Period * d >= 0
          BY <1>3, <4>1
        <4> QED
          BY <1>3, <4>2
      <3> QED
        BY <2>1, <2>3, <3>1 DEF t
    <2> QED
      BY <1>3, <2>1, <2>4
  <1>5. Live = 0 .. SIZE - 1
    <2> DEFINE F == Nodes \ Live
    <2>1. /\ FirstFree \in F /\ Threaded[FirstFree] = Null
          /\ FreeLinks(Threaded, F, FirstFree) /\ WholeBy(Threaded, F, FirstFree)
      BY ThreadedFacts DEF LifeInv, IsFree
    <2>2. FirstFree = SIZE
      BY <2>1 DEF FreeLinks
    <2>3. ClosedBy(Threaded, {SIZE})
      BY <2>1, <2>2 DEF ClosedBy
    <2>4. {SIZE} = F
      <3>1. {SIZE} \in SUBSET F /\ FirstFree \in {SIZE}
        BY <2>1, <2>2
      <3> QED
        BY <2>1, <2>3, <3>1 DEF WholeBy
    <2>5. Live \subseteq Nodes /\ SIZE \notin Live
      BY DEF LifeInv, LinkInv, LinkTypes
    <2>6. \A n \in 0 .. SIZE : n \in Live <=> n # SIZE
      BY <2>4, <2>5 DEF Nodes
    <2>7. \A n : n \in 0 .. SIZE - 1 <=> n \in 0 .. SIZE /\ n # SIZE
      BY <1>3
    <2> QED
      BY <2>5, <2>6, <2>7 DEF Nodes
  <1>6. turn \in [0 .. SIZE - 1 -> 1 .. SIZE - 1]
    BY <1>2, <1>4, <1>5
  <1>7. /\ IsFiniteSet(0 .. SIZE - 1) /\ Cardinality(0 .. SIZE - 1) = SIZE
        /\ IsFiniteSet(1 .. SIZE - 1) /\ Cardinality(1 .. SIZE - 1) = SIZE - 1
    <2>1. 0 \in Int /\ 1 \in Int /\ SIZE - 1 \in Int
      BY <1>3
    <2>2. /\ IsFiniteSet(0 .. SIZE - 1)
          /\ Cardinality(0 .. SIZE - 1) = IF 0 > SIZE - 1 THEN 0 ELSE SIZE - 1 - 0 + 1
      BY <2>1, FS_Interval
    <2>3. /\ IsFiniteSet(1 .. SIZE - 1)
          /\ Cardinality(1 .. SIZE - 1) = IF 1 > SIZE - 1 THEN 0 ELSE SIZE - 1 - 1 + 1
      BY <2>1, FS_Interval
    <2> QED
      BY <1>3, <2>2, <2>3
  <1>8. \E m, n \in 0 .. SIZE - 1 : m # n /\ turn[m] = turn[n]
    <2>1. Cardinality(1 .. SIZE - 1) < Cardinality(0 .. SIZE - 1)
      BY <1>3, <1>7
    <2> QED
      BY <1>6, <1>7, <2>1, FS_PigeonHole
  <1> QED
    BY <1>2, <1>5, <1>8

-----------------------------------------------------------------------------
(* The steps, by what they do to the letters. *)

LEMMA InitAgeInv == Init => AgeInv
  <1> SUFFICES ASSUME Init PROVE AgeInv
    OBVIOUS
  <1>1. Live = {} /\ phase = 0 /\ pc = "boot"
    BY Zenon DEF Init, Live
  <1>2. Ages([n \in {} |-> 0], {})
    BY <1>1 DEF Ages
  <1> QED
    BY <1>1, <1>2, TypingAssumption DEF AgeInv

(* Events, handlers, strikes and the rest of the main loop leave heights   *)
(* and the list alone, and are no part of the pass over the letters.       *)
LEMMA KeepAges ==
  ASSUME LifeInv, UNCHANGED <<next, it, phase>>, Live' = Live, pc' # "abort",
         (pc' = "move") <=> (pc = "move"),
         \A n \in Live : /\ fly'[n].x = fly[n].x
                         /\ \/ fly'[n].v = fly[n].v
                            \/ fly[n].v > 0 /\ fly'[n].v = -Rise
  PROVE  AgeInv'
  <1>1. PICK turn, todo : Ages(turn, todo)
    BY DEF LifeInv, AgeInv
  <1>2. phase \in 0 .. Period - 1
    BY DEF LifeInv, AgeInv
  <1>3. ASSUME NEW n \in Live PROVE Lives(fly'[n], Moves(turn[n], Done(n, todo)))
    <2>1. turn[n] \in Nat /\ Lives(fly[n], Moves(turn[n], Done(n, todo)))
      BY <1>1 DEF Ages
    <2>2. Moves(turn[n], Done(n, todo)) \in Nat
      BY <1>2, <2>1, DoneFacts, MovesFacts
    <2>3. CASE fly'[n].v = fly[n].v
      BY <2>1, <2>3 DEF Lives
    <2>4. CASE fly[n].v > 0 /\ fly'[n].v = -Rise
      BY <2>1, <2>2, <2>4, StrikeLives
    <2> QED
      BY <2>3, <2>4
  <1>4. \A n \in Live : Moves(turn[n], Done(n, todo))' = Moves(turn[n], Done(n, todo))
    BY DEF Moves
  <1>5. Ages(turn, todo)'
    <2>1. /\ turn \in [Live' -> Nat] /\ todo \subseteq Live'
          /\ \A m, n \in Live' : turn[m] = turn[n] => m = n
          /\ pc' # "move" /\ phase' = 0 => \A n \in Live' : turn[n] > 0
      BY <1>1 DEF Ages
    <2>2. \A n \in Live' : Lives(fly'[n], Moves(turn[n], Done(n, todo))')
      BY <1>3, <1>4
    <2>3. IF pc' = "move" THEN LeftToMove(todo)' ELSE todo = Live'
      BY <1>1 DEF Ages, LeftToMove
    <2> QED
      BY <2>1, <2>2, <2>3 DEF Ages
  <1> QED
    BY <1>2, <1>5 DEF AgeInv

(* After a step to the start of a pass the whole list is left to move.     *)
LEMMA AllLeftToMove ==
  ASSUME LinkInv', it' = head'
  PROVE  LeftToMove(Live)'
  <1>1. ClosedBy(next, Live)' /\ (it' \in Live' \/ (it' = Null /\ Live' = {}))
    BY DEF LinkInv, ListInUse, ClosedBy
  <1>2. ASSUME NEW m \in Live' PROVE next'[m] # it'
    <2>1. m # Null /\ head' # Null /\ prev'[head'] = Null
      BY NodeFacts DEF LinkInv, LinkTypes, ListInUse
    <2>2. next'[m] = head' => prev'[head'] = m
      BY <2>1 DEF LinkInv, ListInUse
    <2> QED
      BY <2>1, <2>2
  <1> QED
    BY <1>1, <1>2 DEF LeftToMove, LinkInv

LEMMA NoNewLetterAges ==
  ASSUME LifeInv, NoNewLetter
  PROVE  AgeInv'
  <1>1. PICK turn, todo : Ages(turn, todo)
    BY DEF LifeInv, AgeInv
  <1>2. /\ pc = "chase" /\ pc' = "move" /\ it' = head
        /\ UNCHANGED <<next, prev, free_head, head, fly, phase>> /\ Live' = Live
    BY DEF NoNewLetter, At, pool, Live, ticks
  <1>3. LinkInv'
    BY NextLinkInv DEF LifeInv, Next, Game
  <1>4. LeftToMove(Live)'
    BY <1>2, <1>3, AllLeftToMove
  <1>5. todo = Live
    BY <1>1, <1>2 DEF Ages
  <1>6. Ages(turn, Live)'
    <2>1. \A n \in Live : Moves(turn[n], Done(n, Live))' = Moves(turn[n], Done(n, todo))
      BY <1>2, <1>5 DEF Moves, Done
    <2>2. /\ turn \in [Live' -> Nat]
          /\ \A m, n \in Live' : turn[m] = turn[n] => m = n
          /\ \A n \in Live' : Lives(fly'[n], Moves(turn[n], Done(n, Live))')
      BY <1>1, <1>2, <2>1 DEF Ages
    <2> QED
      BY <1>2, <1>4, <2>2 DEF Ages
  <1> QED
    BY <1>2, <1>6 DEF AgeInv, LifeInv

LEMMA CreateAges ==
  ASSUME LifeInv, NEW l \in Letters, CreateNewLetter(l)
  PROVE  AgeInv'
  <1>1. PICK turn, todo : Ages(turn, todo)
    BY DEF LifeInv, AgeInv
  <1>2. pc = "chase" /\ phase = 0 /\ phase' = phase
    BY DEF CreateNewLetter, At, ticks
  <1>3. IsFree
    BY <1>2, NeverFull
  <1> DEFINE node == FirstFree
  <1>4. /\ pc' = "move" /\ it' = head' /\ phase' = phase
        /\ fly' = [n \in Live \union {node} |-> IF n = node THEN Letter(l) ELSE fly[n]]
    BY <1>3, Zenon DEF CreateNewLetter, Created, ticks
  <1>5. node \in Nodes \ Live
    BY ThreadedFacts DEF LifeInv
  <1> HIDE DEF node
  <1>6. /\ Live' = Live \union {node} /\ fly'[node] = Letter(l)
        /\ \A n \in Live : fly'[n] = fly[n]
    BY <1>4, <1>5 DEF Live
  <1>7. LinkInv'
    BY NextLinkInv DEF LifeInv, Next, Game
  <1>8. LeftToMove(Live)'
    BY <1>4, <1>7, AllLeftToMove
  <1>t. PICK t : t = [n \in Live \union {node} |-> IF n = node THEN 0 ELSE turn[n]]
    OBVIOUS
  <1>9. /\ turn \in [Live -> Nat] /\ todo = Live
        /\ \A m, n \in Live : turn[m] = turn[n] => m = n
        /\ \A n \in Live : turn[n] > 0 /\ Lives(fly[n], Moves(turn[n], Done(n, todo)))
    BY <1>1, <1>2 DEF Ages
  <1>10. /\ t \in [Live \union {node} -> Nat] /\ t[node] = 0
         /\ \A n \in Live : t[n] = turn[n] /\ n # node
    BY <1>5, <1>9, <1>t
  <1>11. \A m, n \in Live \union {node} : t[m] = t[n] => m = n
    BY <1>9, <1>10
  <1>12. ASSUME NEW n \in Live \union {node}
         PROVE  Lives(fly'[n], Moves(t[n], Done(n, Live))')
    <2>1. CASE n \in Live
      <3>1. Moves(t[n], Done(n, Live))' = Moves(turn[n], Done(n, todo))
        BY <1>2, <1>6, <1>9, <1>10, <2>1 DEF Moves, Done
      <3> QED
        BY <1>6, <1>9, <2>1, <3>1
    <2>2. CASE n = node
      <3>1. Moves(t[n], Done(n, Live))' = 0
        <4>1. Period * 0 = 0 /\ n \in Live'
          BY <1>6, <2>2, TypingAssumption
        <4> QED
          BY <1>2, <1>10, <2>2, <4>1 DEF Moves, Done
      <3> QED
        BY <1>6, <2>2, <3>1, TypingAssumption DEF Lives, Letter
    <2> QED
      BY <2>1, <2>2
  <1>13. Ages(t, Live)'
    BY <1>4, <1>6, <1>8, <1>10, <1>11, <1>12 DEF Ages
  <1> QED
    BY <1>2, <1>4, <1>13 DEF AgeInv, LifeInv

(* One letter is moved, or leaves: the list from the next one on is left.  *)
LEMMA MoveAges ==
  ASSUME LifeInv, MoveLetter \/ RemoveLetter
  PROVE  AgeInv'
  <1>1. PICK turn, todo : Ages(turn, todo)
    BY DEF LifeInv, AgeInv
  <1>2. /\ pc = "move" /\ it # Null /\ it' = next[it] /\ UNCHANGED <<pc, phase>>
        /\ phase \in 0 .. Period - 1
    BY DEF MoveLetter, RemoveLetter, ticks, LifeInv, AgeInv
  <1>3. /\ turn \in [Live -> Nat] /\ todo \subseteq Live /\ LeftToMove(todo)
        /\ \A m, n \in Live : turn[m] = turn[n] => m = n
        /\ \A n \in Live : Lives(fly[n], Moves(turn[n], Done(n, todo)))
    BY <1>1, <1>2 DEF Ages
  <1>4. /\ it \in todo /\ it \in Live /\ ClosedBy(next, todo) /\ WholeBy(next, todo, it)
        /\ \A m \in todo : next[m] # it
    BY <1>2, <1>3 DEF LeftToMove
  <1>5. \A n \in Live : fly[n] \in Flying
    BY DEF LifeInv, KeyInv, Types
  <1>6. /\ Live' \subseteq Live
        /\ \A n \in Live' : n # it => fly'[n] = fly[n]
        /\ it \in Live' => Lives(fly'[it], Moves(turn[it], 0) + 1)
        /\ todo \ {it} \subseteq Live'
        /\ \A m \in todo \ {it} : next'[m] = next[m]
    <2>1. CASE MoveLetter
      <3>1. /\ fly' = [fly EXCEPT ![it].x = Moved(it)] /\ next' = next
            /\ ~(Moved(it) < 0) /\ ~(Moved(it) > Bottom)
        BY <2>1 DEF MoveLetter, Leaves
      <3>2. /\ Live' = Live /\ \A n \in Live : n # it => fly'[n] = fly[n]
            /\ fly'[it].v = fly[it].v /\ fly'[it].x = fly[it].x + fly[it].v
        BY <1>4, <1>5, <3>1 DEF Live, Flying, Moved
      <3>3. Moves(turn[it], 0) \in Nat /\ Lives(fly[it], Moves(turn[it], 0))
        <4>1. turn[it] \in Nat /\ Done(it, todo) = 0
          BY <1>3, <1>4, DoneFacts
        <4>2. Lives(fly[it], Moves(turn[it], 0))
          BY <1>3, <1>4, <4>1
        <4> QED
          BY <1>2, <4>1, <4>2, MovesFacts
      <3>4. Lives(fly'[it], Moves(turn[it], 0) + 1)
        BY <3>1, <3>2, <3>3, MoveLives DEF Moved
      <3> QED
        BY <1>3, <3>1, <3>2, <3>4
    <2>2. CASE RemoveLetter
      <3>1. /\ fly' = [m \in Live \ {it} |-> fly[m]] /\ Live' = Live \ {it}
            /\ next' = [m \in Nodes |-> IF m = it THEN free_head
                                        ELSE IF m = prev[it] THEN next[it] ELSE next[m]]
        BY <2>2 DEF RemoveLetter, Removed, Live
      <3>2. \A m \in todo \ {it} : m # prev[it] /\ m \in Nodes
        <4>1. prev[it] # Null => next[prev[it]] = it
          BY <1>4 DEF LifeInv, LinkInv, ListInUse
        <4>2. \A m \in todo : m \in Nodes /\ m # Null
          BY <1>3, NodeFacts DEF LifeInv, LinkInv, LinkTypes
        <4> QED
          BY <1>4, <4>1, <4>2
      <3> QED
        BY <1>3, <3>1, <3>2
    <2> QED
      BY <2>1, <2>2
  <1>t. PICK t, rest : t = [n \in Live' |-> turn[n]] /\ rest = todo \ {it}
    OBVIOUS
  <1>7. LeftToMove(rest)'
    <2>1. CASE next[it] = Null
      <3>1. ClosedBy(next, {it})
        BY <2>1 DEF ClosedBy
      <3>2. {it} = todo
        BY <1>4, <3>1 DEF WholeBy
      <3>3. rest = {}
        BY <1>t, <3>2
      <3> QED
        BY <1>2, <2>1, <3>3 DEF LeftToMove, ClosedBy, WholeBy
    <2>2. CASE next[it] # Null
      <3>1. ClosedBy(next', rest) /\ WholeBy(next', rest, next[it])
        BY <1>4, <1>6, <1>t, <2>2, PopWhole
      <3>2. next[it] \in rest
        BY <1>4, <1>t, <2>2 DEF ClosedBy
      <3>3. ASSUME NEW m \in rest PROVE next'[m] # next[it]
        <4>1. m \in Live /\ m # it /\ next'[m] = next[m]
          BY <1>3, <1>6, <1>t
        <4>2. next[m] = next[it] => prev[next[m]] = m /\ prev[next[it]] = it
          BY <1>4, <2>2, <4>1 DEF LifeInv, LinkInv, ListInUse
        <4> QED
          BY <4>1, <4>2
      <3> QED
        BY <1>2, <3>1, <3>2, <3>3 DEF LeftToMove
    <2> QED
      BY <2>1, <2>2
  <1>8. ASSUME NEW n \in Live' PROVE Lives(fly'[n], Moves(t[n], Done(n, rest))')
    <2>1. t[n] = turn[n] /\ turn[n] \in Nat
      BY <1>3, <1>6, <1>t
    <2>2. CASE n = it
      <3>1. Moves(t[n], Done(n, rest))' = Moves(turn[it], 0) + 1
        <4>1. turn[it] \in Nat /\ Done(it, rest) = 1
          BY <1>t, <2>1, <2>2, DoneFacts
        <4>2. Moves(t[n], Done(n, rest))' = Moves(turn[it], 1)
          BY <1>2, <2>1, <2>2, <4>1 DEF Moves, Done
        <4>3. /\ Moves(turn[it], 1) = Period * turn[it] + phase + 1
              /\ Moves(turn[it], 0) = Period * turn[it] + phase + 0
              /\ Period * turn[it] + phase \in Int
          <5>1. Period * turn[it] \in Nat /\ phase \in Nat
            BY <1>2, <4>1, MovesFacts
          <5> QED
            BY <1>2, <4>1, <5>1, MovesFacts
        <4> QED
          BY <4>2, <4>3
      <3> QED
        BY <1>6, <2>2, <3>1
    <2>3. CASE n # it
      <3>1. Moves(t[n], Done(n, rest))' = Moves(turn[n], Done(n, todo))
        BY <1>2, <1>t, <2>1, <2>3 DEF Moves, Done
      <3> QED
        BY <1>3, <1>6, <2>3, <3>1
    <2> QED
      BY <2>2, <2>3
  <1>9. Ages(t, rest)'
    <2>1. /\ t \in [Live' -> Nat] /\ rest \subseteq Live'
          /\ \A m, n \in Live' : t[m] = t[n] => m = n
      BY <1>3, <1>6, <1>t
    <2> QED
      BY <1>2, <1>7, <1>8, <2>1 DEF Ages
  <1> QED
    BY <1>2, <1>9 DEF AgeInv

(* The pass is over: every letter is a tick older.                         *)
LEMMA TickAges ==
  ASSUME LifeInv, TickDone
  PROVE  AgeInv'
  <1>1. PICK turn, todo : Ages(turn, todo)
    BY DEF LifeInv, AgeInv
  <1>2. /\ pc = "move" /\ it = Null /\ pc' = "chase" /\ phase' = (phase + 1) % Period
        /\ fly' = fly /\ Live' = Live /\ phase \in 0 .. Period - 1
    BY DEF TickDone, pool, Live, LifeInv, AgeInv
  <1>3. /\ turn \in [Live -> Nat] /\ todo = {}
        /\ \A m, n \in Live : turn[m] = turn[n] => m = n
        /\ \A n \in Live : Lives(fly[n], Moves(turn[n], Done(n, todo)))
    <2>1. Null \notin Live
      BY NodeFacts DEF LifeInv, LinkInv, LinkTypes
    <2> QED
      BY <1>1, <1>2, <2>1 DEF Ages, LeftToMove
  <1>4. Period \in Nat /\ Period > 0
    BY TypingAssumption
  <1>5. phase' = IF phase + 1 = Period THEN 0 ELSE phase + 1
    <2>1. CASE phase + 1 = Period
      BY <1>2, <1>4, <2>1
    <2>2. CASE phase + 1 # Period
      BY <1>2, <1>4, <2>2
    <2> QED
      BY <2>1, <2>2
  <1>6. phase' \in 0 .. Period - 1
    BY <1>2, <1>4, <1>5
  <1>t. PICK t : t = [n \in Live |-> IF phase + 1 = Period THEN turn[n] + 1 ELSE turn[n]]
    OBVIOUS
  <1>7. /\ t \in [Live -> Nat]
        /\ \A n \in Live : t[n] = IF phase + 1 = Period THEN turn[n] + 1 ELSE turn[n]
    BY <1>3, <1>t
  <1>8. \A m, n \in Live : t[m] = t[n] => m = n
    BY <1>3, <1>7
  <1>9. phase' = 0 => \A n \in Live : t[n] > 0
    BY <1>2, <1>3, <1>5, <1>7
  <1>10. ASSUME NEW n \in Live PROVE Lives(fly'[n], Moves(t[n], Done(n, Live))')
    <2>1. turn[n] \in Nat
      BY <1>3
    <2>2. Moves(turn[n], Done(n, todo)) = Period * turn[n] + phase + 1
      BY <1>2, <1>3, <2>1, DoneFacts, MovesFacts
    <2>3. Moves(t[n], Done(n, Live))' = Period * t[n] + phase'
      <3>1. t[n] \in Nat /\ Period * t[n] + phase' \in Int
        BY <1>4, <1>6, <1>7
      <3>2. Moves(t[n], Done(n, Live))' = Period * t[n] + phase' + 0
        <4>1. Done(n, Live)' = 0
          BY <1>2 DEF Done
        <4> QED
          BY <4>1, Zenon DEF Moves
      <3> QED
        BY <1>4, <1>6, <3>1, <3>2
    <2>4. Period * (turn[n] + 1) = Period * turn[n] + Period /\ Period * turn[n] \in Nat
      BY <1>2, <2>1, MovesFacts
    <2>5. Period * t[n] + phase' = Period * turn[n] + phase + 1
      <3>1. CASE phase + 1 = Period
        <4>1. t[n] = turn[n] + 1 /\ phase' = 0
          BY <1>5, <1>7, <3>1
        <4> QED
          BY <1>2, <1>4, <2>4, <3>1, <4>1
      <3>2. CASE phase + 1 # Period
        <4>1. t[n] = turn[n] /\ phase' = phase + 1
          BY <1>5, <1>7, <3>2
        <4> QED
          BY <1>2, <1>4, <2>4, <4>1
      <3> QED
        BY <3>1, <3>2
    <2> QED
      BY <1>2, <1>3, <2>2, <2>3, <2>5
  <1>11. Ages(t, Live)'
    <2>1. \A n \in Live' : Lives(fly'[n], Moves(t[n], Done(n, Live))')
      BY <1>2, <1>10
    <2> QED
      BY <1>2, <1>7, <1>8, <1>9, <2>1 DEF Ages
  <1> QED
    BY <1>2, <1>6, <1>11 DEF AgeInv

LEMMA NextAgeInv == LifeInv /\ [Next]_vars => AgeInv'
  <1> SUFFICES ASSUME LifeInv, [Next]_vars PROVE AgeInv'
    OBVIOUS
  <1>0. pc # "abort" /\ \A n \in Live : fly[n] \in Flying
    BY DEF LifeInv, AgeInv, KeyInv, Types
  <1>1. ASSUME UNCHANGED <<next, it, phase, fly>>, pc' # "abort", (pc' = "move") <=> (pc = "move")
        PROVE  AgeInv'
    BY <1>1, KeepAges DEF Live
  <1>2. CASE User
    <2>1. PICK code \in Letters \union {Other} : KeyEvent(code)
      BY <1>2 DEF User
    <2>2. Live' = Live /\ \A n \in Live : fly'[n].x = fly[n].x /\ fly'[n].v = fly[n].v
      BY <1>0, <2>1 DEF KeyEvent, Called, Live, Flying
    <2> QED
      BY <1>0, <2>1, <2>2, KeepAges DEF KeyEvent, ticks
  <1>3. CASE TimerFires \/ Handler
    <2>1. Woken # "abort" /\ ((Woken = "move") <=> (pc = "move"))
      BY <1>0 DEF Woken
    <2> QED
      BY <1>0, <1>1, <1>3, <2>1
      DEF TimerFires, Handler, TimerIntr, KeyboardIntr, ReadKey, pool, ticks
  <1>4. CASE Game
    <2>1. CASE Boot \/ Hlt \/ Check \/ KeysDone \/ CaughtUp
      BY <1>0, <1>1, <2>1 DEF Boot, Hlt, Check, KeysDone, CaughtUp, At, pool, ticks
    <2>2. CASE NoNewLetter
      BY <2>2, NoNewLetterAges
    <2>3. CASE MoveLetter \/ RemoveLetter
      BY <2>3, MoveAges
    <2>4. CASE TickDone
      BY <2>4, TickAges
    <2>5. CASE \E n \in Nodes : Strike(n)
      <3>1. PICK n \in Nodes : Strike(n)
        BY <2>5
      <3>2. n \in Live /\ fly[n].v > 0 /\ fly' = Struck(n)
        BY <3>1 DEF Strike, IsLowest, Targets, Falling
      <3>3. /\ Live' = Live
            /\ \A m \in Live : /\ fly'[m].x = fly[m].x
                               /\ fly'[m].v = fly[m].v \/ (fly[m].v > 0 /\ fly'[m].v = -Rise)
        BY <1>0, <3>2 DEF Struck, Live, Flying
      <3> QED
        BY <1>0, <3>1, <3>3, KeepAges DEF Strike, ticks
    <2>6. CASE \E l \in Letters : CreateNewLetter(l)
      BY <2>6, CreateAges
    <2> QED
      BY <1>4, <2>1, <2>2, <2>3, <2>4, <2>5, <2>6 DEF Game
  <1>5. CASE UNCHANGED vars
    BY <1>0, <1>1, <1>5 DEF vars, pool, ticks
  <1> QED
    BY <1>2, <1>3, <1>4, <1>5 DEF Next

(* fly_new() always finds a free node: the assertion in linklist.h holds,  *)
(* for every pool that is large enough for the speed letters appear with.  *)
THEOREM PoolNeverEmpty == Spec => []PoolLasts
  <1>1. Init => LifeInv
    BY InitKeyInv, InitLinkInv, InitAgeInv DEF LifeInv
  <1>2. LifeInv /\ [Next]_vars => LifeInv'
    BY NextKeyInv, NextLinkInv, NextAgeInv DEF LifeInv
  <1>3. LifeInv => PoolLasts
    BY DEF LifeInv, AgeInv, PoolLasts
  <1> QED
    BY <1>1, <1>2, <1>3, PTL DEF Spec
=============================================================================
