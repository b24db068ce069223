--------------------------- MODULE DebuggerProofs ---------------------------
(***************************************************************************)
(* What holds of the monitor for every size of the pool, every guest and   *)
(* every sequence of commands.                                             *)
(***************************************************************************)
EXTENDS DebugStops, SequenceTheorems, WellFoundedInduction, TLAPS

Byte == {"op", "int3"}

-----------------------------------------------------------------------------
(* Lists. *)

(* Taking out one element of a sequence moves the later ones up by one.    *)
LEMMA RemoveAtFacts ==
  ASSUME NEW S, NEW s \in Seq(S), NEW i \in DOMAIN s
  PROVE  /\ RemoveAt(s, i) \in Seq(S)
         /\ Len(RemoveAt(s, i)) = Len(s) - 1
         /\ \A j \in 1 .. Len(s) - 1 :
              RemoveAt(s, i)[j] = IF j < i THEN s[j] ELSE s[j + 1]
<1>1. i \in 1 .. Len(s) /\ Len(s) \in Nat /\ \A j \in 1 .. Len(s) : s[j] \in S
  BY LenProperties, ElementOfSeq
<1> DEFINE front == SubSeq(s, 1, i - 1)
           back  == SubSeq(s, i + 1, Len(s))
           rest  == front \o back
<1>2. /\ front \in Seq(S) /\ Len(front) = i - 1
      /\ \A j \in 1 .. i - 1 : front[j] = s[j]
  <2>1. \A j \in 1 .. i - 1 : s[j] \in S
    BY <1>1
  <2> QED BY <1>1, <2>1, SubSeqProperties
<1>3. /\ back \in Seq(S) /\ Len(back) = Len(s) - i
      /\ \A j \in 1 .. Len(s) - i : back[j] = s[i + j]
  <2>1. \A j \in i + 1 .. Len(s) : s[j] \in S
    BY <1>1
  <2>2. /\ back \in Seq(S)
        /\ Len(back) = IF i + 1 <= Len(s) THEN Len(s) - (i + 1) + 1 ELSE 0
        /\ \A j \in 1 .. Len(s) - (i + 1) + 1 : back[j] = s[(i + 1) + j - 1]
    BY <1>1, <2>1, SubSeqProperties
  <2> HIDE DEF back
  <2> QED BY <1>1, <2>2
<1> HIDE DEF front, back
<1>4. /\ rest \in Seq(S)
      /\ Len(rest) = Len(front) + Len(back)
      /\ \A j \in 1 .. Len(front) + Len(back) :
           rest[j] = IF j <= Len(front) THEN front[j] ELSE back[j - Len(front)]
  BY <1>2, <1>3, ConcatProperties
<1>5. RemoveAt(s, i) = rest
  BY Zenon DEF RemoveAt, front, back
<1> HIDE DEF rest
<1>6. Len(front) = i - 1 /\ Len(front) + Len(back) = Len(s) - 1
  BY <1>1, <1>2, <1>3
<1>7. ASSUME NEW j \in 1 .. Len(s) - 1
      PROVE  rest[j] = IF j < i THEN s[j] ELSE s[j + 1]
  <2>1. rest[j] = IF j <= i - 1 THEN front[j] ELSE back[j - (i - 1)]
    BY <1>4, <1>6
  <2>2. CASE j < i
    <3>1. j \in 1 .. i - 1 /\ j <= i - 1
      BY <1>1, <2>2
    <3> QED BY <1>2, <2>1, <2>2, <3>1
  <2>3. CASE ~(j < i)
    <3>1. /\ j - (i - 1) \in 1 .. Len(s) - i /\ ~(j <= i - 1)
          /\ i + (j - (i - 1)) = j + 1
      BY <1>1, <2>3
    <3> QED BY <1>3, <2>1, <2>3, <3>1
  <2> QED BY <2>2, <2>3
<1> QED BY <1>4, <1>5, <1>6, <1>7

(* An element put before a sequence moves the others down by one.          *)
LEMMA PushFacts ==
  ASSUME NEW S, NEW e \in S, NEW s \in Seq(S)
  PROVE  /\ <<e>> \o s \in Seq(S)
         /\ Len(<<e>> \o s) = Len(s) + 1
         /\ (<<e>> \o s)[1] = e
         /\ \A j \in 1 .. Len(s) : (<<e>> \o s)[j + 1] = s[j]
<1> DEFINE first == <<e>>
<1>1. first \in Seq(S) /\ Len(first) = 1 /\ first[1] = e /\ Len(s) \in Nat
  BY LenProperties
<1>2. first \o s = <<e>> \o s
  OBVIOUS
<1> HIDE DEF first
<1>3. /\ first \o s \in Seq(S)
      /\ Len(first \o s) = Len(first) + Len(s)
      /\ \A j \in 1 .. Len(first) + Len(s) :
           (first \o s)[j] = IF j <= Len(first) THEN first[j] ELSE s[j - Len(first)]
  BY <1>1, ConcatProperties
<1>4. /\ (first \o s)[1] = e
      /\ \A j \in 1 .. Len(s) : (first \o s)[j + 1] = s[j]
  BY <1>1, <1>3
<1> QED BY <1>1, <1>2, <1>3, <1>4

(* The fields of a point.                                                  *)
LEMMA PointFacts ==
  ASSUME NEW p \in Point
  PROVE  /\ p.NO \in NOs /\ p.type \in {"B", "W"}
         /\ p.type = "B" => p.addr \in Addrs /\ p.ori_byte \in Byte
         /\ p.type = "W" => p.old_val \in Vals
BY DEF Point, Byte

-----------------------------------------------------------------------------
(* The pool and the types.  They hold with duplicates as well. *)

PoolInv == TypeOK /\ PoolIsShared

(* The places of the two lists, and what they hold.                        *)
LEMMA ListFacts ==
  ASSUME TypeOK
  PROVE  /\ Len(head) \in Nat /\ DOMAIN head = 1 .. Len(head)
         /\ \A i \in 1 .. Len(head) : head[i] \in Point
         /\ Len(free_) \in Nat /\ DOMAIN free_ = 1 .. Len(free_)
         /\ \A i \in 1 .. Len(free_) : free_[i] \in NOs
<1>1. head \in Seq(Point) /\ free_ \in Seq(NOs)
  BY DEF TypeOK
<1> QED BY <1>1, LenProperties, ElementOfSeq

(* Taking the first free point for a new one at the head of the list.      *)
LEMMA TakePreserves ==
  ASSUME PoolInv, NEW p \in Point, free_ # <<>>, p.NO = free_[1],
         head' = <<p>> \o head, free_' = Tail(free_)
  PROVE  /\ head' \in Seq(Point) /\ free_' \in Seq(NOs)
         /\ PoolIsShared'
<1>1. head \in Seq(Point) /\ free_ \in Seq(NOs)
  BY DEF PoolInv, TypeOK
<1>2. /\ head' \in Seq(Point) /\ Len(head') = Len(head) + 1
      /\ head'[1] = p /\ \A j \in 1 .. Len(head) : head'[j + 1] = head[j]
  BY <1>1, PushFacts
<1>3. /\ free_' \in Seq(NOs) /\ Len(free_') = Len(free_) - 1
      /\ \A j \in 1 .. Len(free_) - 1 : free_'[j] = free_[j + 1]
  <2>1. /\ Tail(free_) \in Seq(NOs) /\ Len(Tail(free_)) = Len(free_) - 1
        /\ \A j \in 1 .. Len(Tail(free_)) : Tail(free_)[j] = free_[j + 1]
    BY <1>1, HeadTailProperties
  <2> QED BY <2>1
<1>4. /\ Len(head) \in Nat /\ DOMAIN head = 1 .. Len(head)
      /\ Len(free_) \in Nat /\ DOMAIN free_ = 1 .. Len(free_)
  BY ListFacts DEF PoolInv
<1>5. DOMAIN head' = 1 .. Len(head) + 1 /\ DOMAIN free_' = 1 .. Len(free_) - 1
  BY <1>2, <1>3, LenProperties
<1>6. Len(head') + Len(free_') = NR_BP
  BY <1>2, <1>3, <1>4 DEF PoolInv, PoolIsShared
<1>7. ASSUME NEW no \in NOs
      PROVE  \/ \E i \in DOMAIN head' : head'[i].NO = no
             \/ \E i \in DOMAIN free_' : free_'[i] = no
  <2>1. CASE \E i \in DOMAIN head : head[i].NO = no
    <3>1. PICK i \in DOMAIN head : head[i].NO = no
      BY <2>1
    <3>2. i + 1 \in DOMAIN head' /\ head'[i + 1].NO = no
      BY <1>2, <1>4, <1>5, <3>1
    <3> QED BY <3>2
  <2>2. CASE \E i \in DOMAIN free_ : free_[i] = no
    <3>1. PICK i \in DOMAIN free_ : free_[i] = no
      BY <2>2
    <3>2. CASE i = 1
      <4>1. 1 \in DOMAIN head' /\ head'[1].NO = no
        BY <1>2, <1>4, <1>5, <3>1, <3>2
      <4> QED BY <4>1
    <3>3. CASE i # 1
      <4>1. i - 1 \in 1 .. Len(free_) - 1 /\ (i - 1) + 1 = i
        BY <1>4, <3>3
      <4>2. i - 1 \in DOMAIN free_' /\ free_'[i - 1] = no
        BY <1>3, <1>5, <3>1, <4>1
      <4> QED BY <4>2
    <3> QED BY <3>2, <3>3
  <2> QED BY <2>1, <2>2 DEF PoolInv, PoolIsShared
<1> QED BY <1>2, <1>3, <1>6, <1>7 DEF PoolIsShared

(* Giving a point of the list back.                                        *)
LEMMA GivePreserves ==
  ASSUME PoolInv, NEW i \in DOMAIN head,
         head' = RemoveAt(head, i), free_' = <<head[i].NO>> \o free_
  PROVE  /\ head' \in Seq(Point) /\ free_' \in Seq(NOs)
         /\ PoolIsShared'
<1>1. head \in Seq(Point) /\ free_ \in Seq(NOs)
  BY DEF PoolInv, TypeOK
<1>2. /\ head' \in Seq(Point) /\ Len(head') = Len(head) - 1
      /\ \A j \in 1 .. Len(head) - 1 : head'[j] = IF j < i THEN head[j] ELSE head[j + 1]
  BY <1>1, RemoveAtFacts
<1>3. /\ Len(head) \in Nat /\ DOMAIN head = 1 .. Len(head)
      /\ Len(free_) \in Nat /\ DOMAIN free_ = 1 .. Len(free_)
      /\ head[i].NO \in NOs
  BY ListFacts, PointFacts DEF PoolInv
<1>4. /\ free_' \in Seq(NOs) /\ Len(free_') = Len(free_) + 1
      /\ free_'[1] = head[i].NO /\ \A j \in 1 .. Len(free_) : free_'[j + 1] = free_[j]
  BY <1>1, <1>3, PushFacts
<1>5. DOMAIN head' = 1 .. Len(head) - 1 /\ DOMAIN free_' = 1 .. Len(free_) + 1
  BY <1>2, <1>4, LenProperties
<1>6. Len(head') + Len(free_') = NR_BP
  BY <1>2, <1>3, <1>4 DEF PoolInv, PoolIsShared
<1>7. ASSUME NEW no \in NOs
      PROVE  \/ \E k \in DOMAIN head' : head'[k].NO = no
             \/ \E k \in DOMAIN free_' : free_'[k] = no
  <2>1. CASE \E k \in DOMAIN head : head[k].NO = no
    <3>1. PICK k \in DOMAIN head : head[k].NO = no
      BY <2>1
    <3>2. CASE k = i
      <4>1. 1 \in DOMAIN free_' /\ free_'[1] = no
        BY <1>3, <1>4, <1>5, <3>1, <3>2
      <4> QED BY <4>1
    <3>3. CASE k < i
      <4>1. k \in 1 .. Len(head) - 1
        BY <1>3, <3>3
      <4>2. k \in DOMAIN head' /\ head'[k] = head[k]
        BY <1>2, <1>5, <3>3, <4>1
      <4> QED BY <3>1, <4>2
    <3>4. CASE k > i
      <4>1. k - 1 \in 1 .. Len(head) - 1 /\ ~(k - 1 < i) /\ (k - 1) + 1 = k
        BY <1>3, <3>4
      <4>2. k - 1 \in DOMAIN head' /\ head'[k - 1] = head[k]
        BY <1>2, <1>5, <4>1
      <4> QED BY <3>1, <4>2
    <3> QED BY <1>3, <3>2, <3>3, <3>4
  <2>2. CASE \E k \in DOMAIN free_ : free_[k] = no
    <3>1. PICK k \in DOMAIN free_ : free_[k] = no
      BY <2>2
    <3>2. k + 1 \in DOMAIN free_' /\ free_'[k + 1] = no
      BY <1>3, <1>4, <1>5, <3>1
    <3> QED BY <3>2
  <2> QED BY <2>1, <2>2 DEF PoolInv, PoolIsShared
<1> QED BY <1>2, <1>4, <1>6, <1>7 DEF PoolIsShared

(* Giving them all back.                                                   *)
LEMMA GiveAllPreserves ==
  ASSUME PoolInv, head' = <<>>,
         free_' = [i \in DOMAIN head |-> head[i].NO] \o free_
  PROVE  /\ head' \in Seq(Point) /\ free_' \in Seq(NOs)
         /\ PoolIsShared'
<1> DEFINE nos == [i \in DOMAIN head |-> head[i].NO]
<1>1. /\ head \in Seq(Point) /\ free_ \in Seq(NOs)
      /\ Len(head) \in Nat /\ DOMAIN head = 1 .. Len(head)
      /\ Len(free_) \in Nat /\ DOMAIN free_ = 1 .. Len(free_)
  BY ListFacts DEF PoolInv, TypeOK
<1>2. nos \in Seq(NOs) /\ Len(nos) = Len(head) /\ \A j \in 1 .. Len(head) : nos[j] = head[j].NO
  <2>1. \A j \in 1 .. Len(head) : head[j].NO \in NOs
    BY ListFacts, PointFacts DEF PoolInv
  <2> QED BY <1>1, <2>1
<1>3. free_' = nos \o free_
  OBVIOUS
<1> HIDE DEF nos
<1>4. /\ free_' \in Seq(NOs) /\ Len(free_') = Len(nos) + Len(free_)
      /\ \A j \in 1 .. Len(nos) + Len(free_) :
           free_'[j] = IF j <= Len(nos) THEN nos[j] ELSE free_[j - Len(nos)]
  <2>1. /\ nos \o free_ \in Seq(NOs) /\ Len(nos \o free_) = Len(nos) + Len(free_)
        /\ \A j \in 1 .. Len(nos) + Len(free_) :
             (nos \o free_)[j] = IF j <= Len(nos) THEN nos[j] ELSE free_[j - Len(nos)]
    BY <1>1, <1>2, ConcatProperties
  <2> QED BY <1>3, <2>1
<1>5. DOMAIN free_' = 1 .. Len(head) + Len(free_)
  BY <1>2, <1>4, LenProperties
<1>6. head' \in Seq(Point) /\ Len(head') = 0
  BY EmptySeq
<1>7. Len(head') + Len(free_') = NR_BP
  BY <1>1, <1>2, <1>4, <1>6 DEF PoolInv, PoolIsShared
<1>8. ASSUME NEW no \in NOs PROVE \E k \in DOMAIN free_' : free_'[k] = no
  <2>1. CASE \E k \in DOMAIN head : head[k].NO = no
    <3>1. PICK k \in DOMAIN head : head[k].NO = no
      BY <2>1
    <3>2. k \in DOMAIN free_' /\ free_'[k] = no
      BY <1>1, <1>2, <1>4, <1>5, <3>1
    <3> QED BY <3>2
  <2>2. CASE \E k \in DOMAIN free_ : free_[k] = no
    <3>1. PICK k \in DOMAIN free_ : free_[k] = no
      BY <2>2
    <3>2. /\ k + Len(head) \in 1 .. Len(head) + Len(free_)
          /\ ~(k + Len(head) <= Len(head)) /\ (k + Len(head)) - Len(head) = k
      BY <1>1, <3>1
    <3>3. k + Len(head) \in DOMAIN free_' /\ free_'[k + Len(head)] = no
      BY <1>2, <1>4, <1>5, <3>1, <3>2
    <3> QED BY <3>3
  <2> QED BY <2>1, <2>2 DEF PoolInv, PoolIsShared
<1> QED BY <1>4, <1>6, <1>7, <1>8 DEF PoolIsShared

(* Scanning the watchpoints changes nothing of a point but its old_val.    *)
LEMMA ScanFacts ==
  ASSUME TypeOK, NEW v \in Vals, NEW s, ScanWatchpoints(v, s)
  PROVE  /\ head' \in Seq(Point) /\ Len(head') = Len(head)
         /\ \A i \in 1 .. Len(head) :
              /\ head'[i].NO = head[i].NO /\ head'[i].type = head[i].type
              /\ head'[i].addr = head[i].addr /\ head'[i].ori_byte = head[i].ori_byte
         /\ pc' \in {"ui", "devices"} /\ nemu_state' \in {s, "READY"}
<1> DEFINE changed == {i \in Points("W") : head[i].old_val # v}
<1>1. /\ head \in Seq(Point) /\ Len(head) \in Nat /\ DOMAIN head = 1 .. Len(head)
      /\ \A i \in 1 .. Len(head) : head[i] \in Point
  BY ListFacts DEF TypeOK
<1>2. CASE changed = {}
  <2>1. head' = head /\ pc' = "devices" /\ nemu_state' = s
    BY <1>2 DEF ScanWatchpoints
  <2> QED BY <1>1, <2>1
<1>3. CASE changed # {}
  <2>1. /\ pc' = "ui" /\ nemu_state' = "READY"
        /\ \E i \in changed : head' = [head EXCEPT ![i].old_val = v]
    BY <1>3 DEF ScanWatchpoints
  <2>2. PICK i \in changed : head' = [head EXCEPT ![i].old_val = v]
    BY <2>1
  <2> DEFINE p == [head[i] EXCEPT !.old_val = v]
  <2>3. i \in 1 .. Len(head) /\ head[i].type = "W" /\ head[i] \in Point
    BY <1>1 DEF Points
  <2>4. /\ p \in Point /\ p.NO = head[i].NO /\ p.type = head[i].type
        /\ p.addr = head[i].addr /\ p.ori_byte = head[i].ori_byte
    BY <2>3 DEF Point
  <2>5. head' = [head EXCEPT ![i] = p]
    BY <2>2
  <2> HIDE DEF p
  <2>6. head' \in Seq(Point) /\ Len(head') = Len(head)
    BY <1>1, <2>3, <2>4, <2>5, ExceptSeq
  <2>7. \A k \in 1 .. Len(head) : head'[k] = IF k = i THEN p ELSE head[k]
    BY <1>1, <2>5
  <2> QED BY <2>1, <2>4, <2>6, <2>7
<1> QED BY <1>2, <1>3

(* So it leaves the pool shared out as it is.                              *)
LEMMA ScanPreserves ==
  ASSUME PoolInv, NEW v \in Vals, NEW s, ScanWatchpoints(v, s), free_' = free_
  PROVE  PoolIsShared'
<1>1. /\ head' \in Seq(Point) /\ Len(head') = Len(head)
      /\ \A i \in 1 .. Len(head) : head'[i].NO = head[i].NO
  BY ScanFacts DEF PoolInv
<1>2. Len(head) \in Nat /\ DOMAIN head = 1 .. Len(head)
  BY ListFacts DEF PoolInv
<1>3. DOMAIN head' = DOMAIN head
  BY <1>1, <1>2, LenProperties
<1>4. ASSUME NEW no \in NOs
      PROVE  \/ \E i \in DOMAIN head' : head'[i].NO = no
             \/ \E i \in DOMAIN free_' : free_'[i] = no
  <2>1. CASE \E i \in DOMAIN head : head[i].NO = no
    BY <1>1, <1>2, <1>3, <2>1
  <2>2. CASE \E i \in DOMAIN free_ : free_[i] = no
    BY <2>2
  <2> QED BY <2>1, <2>2 DEF PoolInv, PoolIsShared
<1> QED BY <1>1, <1>4 DEF PoolInv, PoolIsShared

(* A set of naturals has a least element.                                  *)
LEMMA LeastNat ==
  ASSUME NEW T, T \subseteq Nat, T # {}
  PROVE  \E m \in T : \A k \in T : m <= k
<1> DEFINE Below == {p \in Nat \X Nat : p[1] < p[2]}
<1>1. Below = OpToRel(<, Nat)
  BY Zenon DEF OpToRel
<1>2. IsWellFoundedOn(Below, Nat)
  BY <1>1, NatLessThanWellFounded, Zenon
<1>3. \A a, b \in Nat : <<a, b>> \notin Below => b <= a
  OBVIOUS
<1> HIDE DEF Below
<1>4. PICK m \in T : \A k \in T : ~ (<<k, m>> \in Below)
  BY <1>2, WFMin, Zenon
<1> QED BY <1>3, <1>4

(* An address with a breakpoint has a first one in the list.               *)
LEMMA FirstExists ==
  ASSUME TypeOK, NEW a \in BpAddrs
  PROVE  \E i \in At(a) : IsFirst(i, At(a))
<1> DEFINE S == At(a)
<1>1. S # {} /\ S \subseteq Nat
  BY ListFacts DEF At, BpAddrs, Points
<1> HIDE DEF S
<1>2. PICK m \in S : \A k \in S : m <= k
  BY <1>1, LeastNat
<1> QED BY <1>2 DEF S, IsFirst

(* The byte a deletion, a stop or a resumption leaves at an address.       *)
LEMMA BytesFacts ==
  ASSUME TypeOK
  PROVE  /\ Resumed \in [Addrs -> Byte]
         /\ AllRestored \in [Addrs -> Byte]
         /\ \A t \in [Addrs -> Byte], p \in Point : Restored(t, p) \in [Addrs -> Byte]
<1>1. text \in [Addrs -> Byte]
  BY DEF TypeOK, Byte
<1>2. Resumed \in [Addrs -> Byte]
  BY <1>1 DEF Resumed, Byte
<1>3. AllRestored \in [Addrs -> Byte]
  <2>1. ASSUME NEW a \in Addrs
        PROVE  (IF a \in BpAddrs
                  THEN head[CHOOSE i \in At(a) : IsFirst(i, At(a))].ori_byte
                  ELSE text[a]) \in Byte
    <3>1. CASE a \notin BpAddrs
      BY <1>1, <3>1
    <3>2. CASE a \in BpAddrs
      <4>1. \E i \in At(a) : IsFirst(i, At(a))
        BY <3>2, FirstExists
      <4> DEFINE first == CHOOSE i \in At(a) : IsFirst(i, At(a))
      <4>2. first \in At(a)
        BY <4>1
      <4> HIDE DEF first
      <4>3. first \in 1 .. Len(head) /\ head[first].type = "B"
        BY <4>2, ListFacts DEF At, Points
      <4>4. head[first].ori_byte \in Byte
        BY <4>3, ListFacts, PointFacts
      <4> QED BY <3>2, <4>4 DEF first
    <3> QED BY <3>1, <3>2
  <2> QED BY <2>1, Zenon DEF AllRestored
<1>4. ASSUME NEW t \in [Addrs -> Byte], NEW p \in Point
      PROVE  Restored(t, p) \in [Addrs -> Byte]
  BY PointFacts DEF Restored
<1> QED BY <1>2, <1>3, <1>4

LEMMA ManyFacts == Many \in Nat /\ Many > 0 /\ 0 .. Many \subseteq Int
BY DebuggerAssumption DEF Many

(* What every instruction leaves of the pool and of the types.             *)
LEMMA InstructionPool ==
  ASSUME PoolInv, NEW byte, Fetch(byte),
         NEW v \in Vals, NEW s \in {"RUN", "STOP", "BREAK"}, ScanWatchpoints(v, s), x' = v,
         text' \in [Addrs -> Byte], eip' \in Addrs,
         iret' \in Addrs \union {None}, bp' \in Addrs \union {None}
  PROVE  PoolInv'
<1>1. free_' = free_ /\ rerun' = FALSE /\ n > 0 /\ (n' = n \/ n' = n - 1)
  BY DEF Fetch, Running
<1>2. n' \in 0 .. Many
  BY <1>1, ManyFacts DEF PoolInv, TypeOK
<1>3. PoolIsShared'
  BY <1>1, ScanPreserves
<1>4. head' \in Seq(Point) /\ pc' \in {"ui", "devices"} /\ nemu_state' \in {s, "READY"}
  BY ScanFacts DEF PoolInv
<1>5. free_' \in Seq(NOs) /\ x' \in Vals /\ rerun' \in BOOLEAN
  BY <1>1 DEF PoolInv, TypeOK
<1>6. /\ nemu_state' \in {"READY", "RUN", "BREAK", "STOP"}
      /\ pc' \in {"ui", "loop", "devices", "quit", "abort"}
  BY <1>4
<1>7. TypeOK'
  BY <1>2, <1>4, <1>5, <1>6, ZenonT(30) DEF TypeOK, Byte, Many, NOs, Addrs, Point
<1> QED BY <1>3, <1>7 DEF PoolInv

LEMMA InitPool == Init => PoolInv
<1> SUFFICES ASSUME Init PROVE PoolInv
  OBVIOUS
<1>1. NR_BP \in Nat /\ NAddr \in Nat /\ NAddr > 0
  BY DebuggerAssumption
<1>2. head \in Seq(Point) /\ Len(head) = 0
  BY EmptySeq DEF Init
<1>3. free_ \in Seq(NOs) /\ Len(free_) = NR_BP
  <2>1. \A i \in 1 .. NR_BP : i - 1 \in NOs
    BY <1>1 DEF NOs
  <2>2. free_ = [i \in 1 .. NR_BP |-> i - 1]
    BY DEF Init
  <2> QED BY <1>1, <2>1, <2>2
<1>4. text \in [Addrs -> {"op", "int3"}] /\ 0 \in Addrs
  BY <1>1 DEF Init, Original, Addrs
<1>5. 0 \in 0 .. Many
  BY ManyFacts
<1>6. TypeOK
  BY <1>2, <1>3, <1>4, <1>5 DEF Init, TypeOK
<1>7. ASSUME NEW no \in NOs PROVE \E i \in DOMAIN free_ : free_[i] = no
  <2>1. no + 1 \in DOMAIN free_ /\ free_[no + 1] = no
    BY <1>1 DEF Init, NOs
  <2> QED BY <2>1
<1> QED BY <1>1, <1>2, <1>3, <1>6, <1>7 DEF PoolInv, PoolIsShared

LEMMA NextPool == PoolInv /\ [Next]_vars => PoolInv'
<1> SUFFICES ASSUME PoolInv, [Next]_vars PROVE PoolInv'
  OBVIOUS
<1>t. /\ text \in [Addrs -> Byte] /\ eip \in Addrs /\ x \in Vals
      /\ iret \in Addrs \union {None} /\ bp \in Addrs \union {None}
  BY DEF PoolInv, TypeOK, Byte
<1>b. /\ Resumed \in [Addrs -> Byte] /\ AllRestored \in [Addrs -> Byte]
      /\ \A t \in [Addrs -> Byte], p \in Point : Restored(t, p) \in [Addrs -> Byte]
  BY BytesFacts DEF PoolInv
<1>s. (eip + 1) % NAddr \in Addrs
  BY <1>t, DebuggerAssumption DEF Addrs
<1>a. Abort => PoolInv'
  BY DEF Abort, PoolInv, TypeOK, PoolIsShared, guest, list
<1>1. ASSUME NEW a \in Addrs, SetBreakpoint(a) PROVE PoolInv'
  <2>1. CASE free_ = <<>>
    BY <1>1, <1>a, <2>1 DEF SetBreakpoint
  <2>2. CASE free_ # <<>>
    <3> DEFINE p == Break(free_[1], a, text[a])
    <3>1. /\ head' = <<p>> \o head /\ free_' = Tail(free_)
          /\ text' = [text EXCEPT ![a] = "int3"]
          /\ UNCHANGED <<eip, x, iret, loop>>
      BY <1>1, <2>2 DEF SetBreakpoint
    <3>2. p \in Point /\ p.NO = free_[1]
      <4>1. free_[1] \in NOs
        BY <2>2, EmptySeq DEF PoolInv, TypeOK
      <4>2. text[a] \in {"op", "int3"}
        BY <1>t DEF Byte
      <4> QED BY <4>1, <4>2 DEF Break, Point
    <3> HIDE DEF p
    <3>3. head' \in Seq(Point) /\ free_' \in Seq(NOs) /\ PoolIsShared'
      BY <2>2, <3>1, <3>2, TakePreserves
    <3>4. text' \in [Addrs -> {"op", "int3"}]
      BY <1>t, <3>1 DEF Byte
    <3> QED BY <3>1, <3>3, <3>4 DEF PoolInv, TypeOK, loop
  <2> QED BY <2>1, <2>2
<1>2. CASE SetWatchpoint
  <2>1. CASE free_ = <<>>
    BY <1>2, <1>a, <2>1 DEF SetWatchpoint
  <2>2. CASE free_ # <<>>
    <3> DEFINE p == Watch(free_[1], x)
    <3>1. head' = <<p>> \o head /\ free_' = Tail(free_) /\ UNCHANGED <<guest, loop>>
      BY <1>2, <2>2 DEF SetWatchpoint
    <3>2. p \in Point /\ p.NO = free_[1]
      <4>1. free_[1] \in NOs
        BY <2>2, EmptySeq DEF PoolInv, TypeOK
      <4> QED BY <1>t, <4>1 DEF Watch, Point
    <3> HIDE DEF p
    <3>3. head' \in Seq(Point) /\ free_' \in Seq(NOs) /\ PoolIsShared'
      BY <2>2, <3>1, <3>2, TakePreserves
    <3> QED BY <3>1, <3>3 DEF PoolInv, TypeOK, guest, loop
  <2> QED BY <2>1, <2>2
<1>3. ASSUME NEW i \in DOMAIN head, DeleteBreakpoint(i) PROVE PoolInv'
  <2>1. /\ text' = Restored(text, head[i]) /\ head' = RemoveAt(head, i)
        /\ free_' = <<head[i].NO>> \o free_ /\ UNCHANGED <<eip, x, iret, loop>>
    BY <1>3 DEF DeleteBreakpoint
  <2>2. head' \in Seq(Point) /\ free_' \in Seq(NOs) /\ PoolIsShared'
    BY <2>1, GivePreserves
  <2>3. head[i] \in Point
    BY ListFacts DEF PoolInv
  <2>4. text' \in [Addrs -> {"op", "int3"}]
    BY <1>t, <1>b, <2>1, <2>3 DEF Byte
  <2> QED BY <2>1, <2>2, <2>4 DEF PoolInv, TypeOK, loop
<1>4. CASE DeleteAll
  <2>1. /\ text' = AllRestored /\ head' = <<>>
        /\ free_' = [i \in DOMAIN head |-> head[i].NO] \o free_
        /\ UNCHANGED <<eip, x, iret, loop>>
    BY <1>4 DEF DeleteAll
  <2>2. head' \in Seq(Point) /\ free_' \in Seq(NOs) /\ PoolIsShared'
    BY <2>1, GiveAllPreserves
  <2>3. text' \in [Addrs -> {"op", "int3"}]
    BY <1>b, <2>1 DEF Byte
  <2> QED BY <2>1, <2>2, <2>3 DEF PoolInv, TypeOK, loop
<1>5. CASE Quit
  BY <1>5 DEF Quit, PoolInv, TypeOK, PoolIsShared, guest, list
<1>6. ASSUME NEW k \in 1 .. Many, Exec(k) PROVE PoolInv'
  <2>1. rerun' = (nemu_state = "BREAK") /\ UNCHANGED <<guest, list, bp>>
    BY <1>6 DEF Exec
  <2>2. rerun' \in BOOLEAN
    BY <2>1, Zenon
  <2>3. n' \in 0 .. Many
    BY <1>6, ManyFacts DEF Exec
  <2> QED BY <1>6, <2>1, <2>2, <2>3 DEF Exec, PoolInv, TypeOK, PoolIsShared, guest, list
<1>7. CASE ExecReturn
  BY <1>7 DEF ExecReturn, PoolInv, TypeOK, PoolIsShared, guest, list
<1>8. CASE Ordinary
  <2>1. PICK v \in Vals : x' = v /\ ScanWatchpoints(v, "RUN")
    BY <1>8 DEF Ordinary
  <2>2. Fetch("op") /\ eip' \in Addrs /\ text' = Resumed /\ iret' = iret /\ bp' = bp
    BY <1>8 DEF Ordinary
  <2> QED BY <1>t, <1>b, <2>1, <2>2, InstructionPool
<1>9. CASE Iret
  <2>1. /\ Fetch("op") /\ iret # None /\ eip' = iret /\ iret' = None /\ text' = Resumed
        /\ ScanWatchpoints(x, "RUN") /\ x' = x /\ bp' = bp
    BY <1>9 DEF Iret
  <2> QED BY <1>t, <1>b, <2>1, InstructionPool
<1>10. CASE NemuTrap
  <2>1. /\ Fetch("op") /\ eip' = (eip + 1) % NAddr /\ text' = Resumed
        /\ ScanWatchpoints(x, "STOP") /\ x' = x /\ iret' = iret /\ bp' = bp
    BY <1>10 DEF NemuTrap
  <2> QED BY <1>t, <1>b, <1>s, <2>1, InstructionPool
<1>11. CASE HitBreakpoint
  <2>1. /\ Fetch("int3") /\ bp' = eip /\ eip' = eip /\ x' = x /\ iret' = iret
        /\ ScanWatchpoints(x, "BREAK")
    BY <1>11 DEF HitBreakpoint
  <2>2. PICK i \in At(eip) : text' = Restored(Resumed, head[i])
    BY <1>11 DEF HitBreakpoint
  <2>3. head[i] \in Point
    BY <2>2, ListFacts DEF PoolInv, At, Points
  <2>4. text' \in [Addrs -> Byte]
    BY <1>b, <2>2, <2>3
  <2> QED BY <1>t, <2>1, <2>4, InstructionPool
<1>12. CASE PassBreak
  <2>1. /\ Fetch("int3") /\ text' = Resumed /\ eip' = (eip + 1) % NAddr /\ bp' = None
        /\ x' = x /\ iret' = iret /\ ScanWatchpoints(x, "BREAK")
    BY <1>12 DEF PassBreak
  <2> QED BY <1>t, <1>b, <1>s, <2>1, InstructionPool
<1>13. CASE NoEvent
  BY <1>13 DEF NoEvent, PoolInv, TypeOK, PoolIsShared, guest, list
<1>14. CASE WindowClosed
  BY <1>14 DEF WindowClosed, PoolInv, TypeOK, PoolIsShared, guest, list
<1>15. CASE Interrupt
  BY <1>15, DebuggerAssumption DEF Interrupt, PoolInv, TypeOK, PoolIsShared, list
<1>16. CASE UNCHANGED vars
  BY <1>16 DEF vars, guest, list, loop, PoolInv, TypeOK, PoolIsShared
<1> QED
  BY <1>1, <1>2, <1>3, <1>4, <1>5, <1>6, <1>7, <1>8, <1>9, <1>10, <1>11, <1>12, <1>13,
     <1>14, <1>15, <1>16 DEF Next, User, Machine

LEMMA PoolInvariant == Spec => []PoolInv
<1>1. Init => PoolInv
  BY InitPool
<1>2. PoolInv /\ [Next]_vars => PoolInv'
  BY NextPool
<1> QED BY <1>1, <1>2, PTL DEF Spec

(* The monitor's state has its type, whatever the commands: no command     *)
(* takes a point out of bp_list or an instruction count below zero.        *)
THEOREM TypeCorrect == Spec => []TypeOK
<1>1. PoolInv => TypeOK
  BY DEF PoolInv
<1> QED BY <1>1, PoolInvariant, PTL

(* new_BP, free_BP and delete_all lose no point and give none out twice,   *)
(* for every size of the pool.                                             *)
THEOREM PoolShared == Spec => []PoolIsShared
<1>1. PoolInv => PoolIsShared
  BY DEF PoolInv
<1> QED BY <1>1, PoolInvariant, PTL

-----------------------------------------------------------------------------
(* The code of the guest, when no address has two breakpoints. *)

Distinct == \A i, j \in Points("B") : head[i].addr = head[j].addr => i = j

Saved == \A i \in Points("B") : head[i].ori_byte = Original(head[i].addr)

(* t is the guest's code but for the INT3 of breakpoints in the list.      *)
CodeIn(t) == \A a \in Addrs : t[a] = Original(a) \/ (a \in BpAddrs /\ t[a] = "int3")

CodeInv == PoolInv /\ Distinct /\ Saved /\ CodeIn(text)

LEMMA BreakFacts ==
  ASSUME TypeOK
  PROVE  /\ BpAddrs \subseteq Addrs
         /\ \A i \in Points("B") : /\ i \in 1 .. Len(head) /\ head[i].type = "B"
                                   /\ head[i].addr \in Addrs /\ head[i].addr \in BpAddrs
         /\ \A a \in BpAddrs : \E i \in Points("B") : head[i].addr = a
<1>1. \A i \in Points("B") : /\ i \in 1 .. Len(head) /\ head[i].type = "B"
                             /\ head[i].addr \in Addrs
  BY ListFacts, PointFacts DEF Points
<1> QED BY <1>1 DEF BpAddrs

(* Resuming arms breakpoints, and touches no other byte.                   *)
LEMMA ResumedCode ==
  ASSUME CodeInv
  PROVE  CodeIn(Resumed)
BY DEF CodeInv, CodeIn, Resumed

(* What every instruction leaves of the code.                              *)
LEMMA InstructionCode ==
  ASSUME CodeInv, PoolInv', NEW v \in Vals, NEW s, ScanWatchpoints(v, s), CodeIn(text')
  PROVE  CodeInv'
<1>1. /\ Len(head') = Len(head) /\ Len(head) \in Nat
      /\ DOMAIN head = 1 .. Len(head) /\ head' \in Seq(Point)
      /\ \A i \in 1 .. Len(head) :
           /\ head'[i].type = head[i].type /\ head'[i].addr = head[i].addr
           /\ head'[i].ori_byte = head[i].ori_byte
  BY ScanFacts, ListFacts DEF CodeInv, PoolInv
<1>2. DOMAIN head' = DOMAIN head
  BY <1>1, LenProperties
<1>3. Points("B")' = Points("B")
  BY <1>1, <1>2 DEF Points
<1>4. \A i \in Points("B") : i \in 1 .. Len(head)
  BY <1>1 DEF Points
<1>5. BpAddrs' = BpAddrs
  BY <1>1, <1>3, <1>4 DEF BpAddrs
<1>6. Distinct' /\ Saved'
  BY <1>1, <1>3, <1>4 DEF CodeInv, Distinct, Saved
<1>7. CodeIn(text)'
  BY <1>5 DEF CodeIn
<1> QED BY <1>6, <1>7 DEF CodeInv

LEMMA InitCode == Init => CodeInv
<1> SUFFICES ASSUME Init PROVE CodeInv
  OBVIOUS
<1>1. Points("B") = {}
  BY EmptySeq DEF Init, Points
<1>2. CodeIn(text)
  BY DEF Init, CodeIn
<1> QED BY <1>1, <1>2, InitPool DEF CodeInv, Distinct, Saved

LEMMA SetBreakpointCode ==
  ASSUME CodeInv, PoolInv', NEW a \in Addrs, a \notin BpAddrs, free_ # <<>>,
         head' = <<Break(free_[1], a, text[a])>> \o head,
         text' = [text EXCEPT ![a] = "int3"]
  PROVE  CodeInv'
<1> DEFINE p == Break(free_[1], a, text[a])
<1>1. head \in Seq(Point) /\ free_[1] \in NOs /\ text \in [Addrs -> Byte]
  <2>1. head \in Seq(Point) /\ free_ \in Seq(NOs) /\ text \in [Addrs -> Byte]
    BY DEF CodeInv, PoolInv, TypeOK, Byte
  <2> QED BY <2>1, EmptySeq
<1>2. p \in Point /\ p.type = "B" /\ p.addr = a /\ p.ori_byte = text[a]
  BY <1>1 DEF Break, Point, Byte
<1>3. head' = <<p>> \o head
  OBVIOUS
<1> HIDE DEF p
<1>4. /\ head' \in Seq(Point) /\ Len(head') = Len(head) + 1 /\ head'[1] = p
      /\ \A j \in 1 .. Len(head) : head'[j + 1] = head[j]
  BY <1>1, <1>2, <1>3, PushFacts
<1>5. Len(head) \in Nat /\ DOMAIN head = 1 .. Len(head) /\ DOMAIN head' = 1 .. Len(head) + 1
  BY <1>1, <1>4, LenProperties
<1>6. ASSUME NEW i \in Points("B")'
      PROVE  i = 1 \/ (i > 1 /\ i - 1 \in Points("B") /\ head'[i] = head[i - 1])
  <2>1. i \in 1 .. Len(head) + 1 /\ head'[i].type = "B"
    BY <1>5 DEF Points
  <2>2. CASE i # 1
    <3>1. i > 1 /\ i - 1 \in 1 .. Len(head) /\ (i - 1) + 1 = i
      BY <1>5, <2>1, <2>2
    <3>2. head'[i] = head[i - 1]
      BY <1>4, <3>1
    <3> QED BY <1>5, <2>1, <3>1, <3>2 DEF Points
  <2> QED BY <2>2
<1>7. \A j \in Points("B") : j + 1 \in Points("B")' /\ head'[j + 1] = head[j]
  BY <1>4, <1>5 DEF Points
<1>8. 1 \in Points("B")'
  BY <1>2, <1>4, <1>5 DEF Points
<1>9. text[a] = Original(a)
  BY DEF CodeInv, CodeIn
<1>10. \A i \in Points("B") : head[i].addr # a
  BY DEF BpAddrs
<1>11. Distinct'
  <2> SUFFICES ASSUME NEW i \in Points("B")', NEW j \in Points("B")',
                      head'[i].addr = head'[j].addr
               PROVE  i = j
    BY DEF Distinct
  <2>1. CASE i = 1 /\ j = 1
    BY <2>1
  <2>2. CASE i = 1 /\ j # 1
    BY <1>2, <1>4, <1>6, <1>10, <2>2
  <2>3. CASE i # 1 /\ j = 1
    <3>1. head'[j].addr = a
      BY <1>2, <1>4, <2>3
    <3>2. head'[i].addr # a
      BY <1>6, <1>10, <2>3
    <3> QED BY <3>1, <3>2
  <2>4. CASE i # 1 /\ j # 1
    <3>1. i - 1 = j - 1
      BY <1>6, <2>4 DEF CodeInv, Distinct
    <3>2. i \in Int /\ j \in Int
      BY <1>5 DEF Points
    <3> QED BY <3>1, <3>2
  <2> QED BY <2>1, <2>2, <2>3, <2>4
<1>12. Saved'
  <2> SUFFICES ASSUME NEW i \in Points("B")'
               PROVE  head'[i].ori_byte = Original(head'[i].addr)
    BY DEF Saved, Original
  <2>1. CASE i = 1
    BY <1>2, <1>4, <1>9, <2>1
  <2>2. CASE i # 1
    BY <1>6, <2>2 DEF CodeInv, Saved
  <2> QED BY <2>1, <2>2
<1>13. a \in BpAddrs' /\ BpAddrs \subseteq BpAddrs'
  <2>1. a \in BpAddrs'
    BY <1>2, <1>4, <1>8 DEF BpAddrs
  <2>2. ASSUME NEW b \in BpAddrs PROVE b \in BpAddrs'
    <3>1. PICK j \in Points("B") : head[j].addr = b
      BY DEF BpAddrs
    <3>2. j + 1 \in Points("B")' /\ head'[j + 1].addr = b
      BY <1>7, <3>1
    <3> QED BY <3>2 DEF BpAddrs
  <2> QED BY <2>1, <2>2
<1>14. CodeIn(text)'
  BY <1>1, <1>13 DEF CodeInv, CodeIn, Original
<1> QED BY <1>11, <1>12, <1>14 DEF CodeInv

LEMMA SetWatchpointCode ==
  ASSUME CodeInv, PoolInv', free_ # <<>>,
         head' = <<Watch(free_[1], x)>> \o head, text' = text
  PROVE  CodeInv'
<1> DEFINE p == Watch(free_[1], x)
<1>1. head \in Seq(Point) /\ free_[1] \in NOs /\ x \in Vals
  <2>1. head \in Seq(Point) /\ free_ \in Seq(NOs) /\ x \in Vals
    BY DEF CodeInv, PoolInv, TypeOK
  <2> QED BY <2>1, EmptySeq
<1>2. p \in Point /\ p.type = "W"
  BY <1>1 DEF Watch, Point
<1>3. head' = <<p>> \o head
  OBVIOUS
<1> HIDE DEF p
<1>4. /\ head' \in Seq(Point) /\ Len(head') = Len(head) + 1 /\ head'[1] = p
      /\ \A j \in 1 .. Len(head) : head'[j + 1] = head[j]
  BY <1>1, <1>2, <1>3, PushFacts
<1>5. Len(head) \in Nat /\ DOMAIN head = 1 .. Len(head) /\ DOMAIN head' = 1 .. Len(head) + 1
  BY <1>1, <1>4, LenProperties
<1>6. ASSUME NEW i \in Points("B")'
      PROVE  i \in Int /\ i - 1 \in Points("B") /\ head'[i] = head[i - 1]
  <2>1. i \in 1 .. Len(head) + 1 /\ head'[i].type = "B"
    BY <1>5 DEF Points
  <2>2. i # 1
    BY <1>2, <1>4, <2>1
  <2>3. i - 1 \in 1 .. Len(head) /\ (i - 1) + 1 = i
    BY <1>5, <2>1, <2>2
  <2>4. head'[i] = head[i - 1]
    BY <1>4, <2>3
  <2> QED BY <1>5, <2>1, <2>3, <2>4 DEF Points
<1>7. \A j \in Points("B") : j + 1 \in Points("B")' /\ head'[j + 1] = head[j]
  BY <1>4, <1>5 DEF Points
<1>8. Distinct'
  <2> SUFFICES ASSUME NEW i \in Points("B")', NEW j \in Points("B")',
                      head'[i].addr = head'[j].addr
               PROVE  i = j
    BY DEF Distinct
  <2>1. /\ i - 1 \in Points("B") /\ j - 1 \in Points("B")
        /\ head[i - 1].addr = head[j - 1].addr
    BY <1>6
  <2>2. i - 1 = j - 1
    BY <2>1 DEF CodeInv, Distinct
  <2> QED BY <1>6, <2>2
<1>9. Saved'
  <2> SUFFICES ASSUME NEW i \in Points("B")'
               PROVE  head'[i].ori_byte = Original(head'[i].addr)
    BY DEF Saved, Original
  <2> QED BY <1>6 DEF CodeInv, Saved
<1>10. ASSUME NEW b \in BpAddrs PROVE b \in BpAddrs'
  <2>1. PICK j \in Points("B") : head[j].addr = b
    BY DEF BpAddrs
  <2>2. j + 1 \in Points("B")' /\ head'[j + 1].addr = b
    BY <1>7, <2>1
  <2> QED BY <2>2 DEF BpAddrs
<1>11. CodeIn(text)'
  BY <1>10 DEF CodeInv, CodeIn, Original
<1> QED BY <1>8, <1>9, <1>11 DEF CodeInv

LEMMA DeleteBreakpointCode ==
  ASSUME CodeInv, PoolInv', NEW i \in DOMAIN head,
         head' = RemoveAt(head, i), text' = Restored(text, head[i])
  PROVE  CodeInv'
<1>1. head \in Seq(Point) /\ text \in [Addrs -> Byte]
  BY DEF CodeInv, PoolInv, TypeOK, Byte
<1>2. /\ head' \in Seq(Point) /\ Len(head') = Len(head) - 1
      /\ \A j \in 1 .. Len(head) - 1 : head'[j] = IF j < i THEN head[j] ELSE head[j + 1]
  BY <1>1, RemoveAtFacts
<1>3. Len(head) \in Nat /\ DOMAIN head = 1 .. Len(head) /\ DOMAIN head' = 1 .. Len(head) - 1
  BY <1>1, <1>2, LenProperties
<1> DEFINE From(k) == IF k < i THEN k ELSE k + 1
<1>4. ASSUME NEW k \in Points("B")'
      PROVE  k \in Int /\ From(k) \in Points("B") /\ From(k) # i /\ head'[k] = head[From(k)]
  <2>1. k \in 1 .. Len(head) - 1 /\ head'[k].type = "B"
    BY <1>3 DEF Points
  <2>2. head'[k] = head[From(k)]
    BY <1>2, <2>1
  <2>3. From(k) \in 1 .. Len(head) /\ From(k) # i
    BY <1>3, <2>1
  <2> QED BY <1>3, <2>1, <2>2, <2>3 DEF Points
<1>5. ASSUME NEW m \in Points("B"), m # i
      PROVE  \E k \in Points("B")' : head'[k] = head[m]
  <2>1. m \in 1 .. Len(head) /\ head[m].type = "B"
    BY <1>3 DEF Points
  <2>2. CASE m < i
    <3>1. m \in 1 .. Len(head) - 1
      BY <1>3, <2>1, <2>2
    <3>2. head'[m] = head[m]
      BY <1>2, <2>2, <3>1
    <3> QED BY <1>3, <2>1, <3>1, <3>2 DEF Points
  <2>3. CASE m > i
    <3>1. m - 1 \in 1 .. Len(head) - 1 /\ ~(m - 1 < i) /\ (m - 1) + 1 = m
      BY <1>3, <2>1, <2>3
    <3>2. head'[m - 1] = head[m]
      BY <1>2, <3>1
    <3> QED BY <1>3, <2>1, <3>1, <3>2 DEF Points
  <2> QED BY <1>3, <1>5, <2>1, <2>2, <2>3
<1>6. Distinct'
  <2> SUFFICES ASSUME NEW k \in Points("B")', NEW l \in Points("B")',
                      head'[k].addr = head'[l].addr
               PROVE  k = l
    BY DEF Distinct
  <2>1. From(k) = From(l)
    BY <1>4 DEF CodeInv, Distinct
  <2>2. k \in Int /\ l \in Int /\ i \in Int
    BY <1>3, <1>4
  <2> QED BY <2>1, <2>2
<1>7. Saved'
  <2> SUFFICES ASSUME NEW k \in Points("B")'
               PROVE  head'[k].ori_byte = Original(head'[k].addr)
    BY DEF Saved, Original
  <2> QED BY <1>4 DEF CodeInv, Saved
<1>8. ASSUME NEW a \in BpAddrs, ~(head[i].type = "B" /\ head[i].addr = a)
      PROVE  a \in BpAddrs'
  <2>1. PICK m \in Points("B") : head[m].addr = a
    BY DEF BpAddrs
  <2>2. m # i
    BY <1>8, <2>1 DEF Points
  <2>3. PICK k \in Points("B")' : head'[k] = head[m]
    BY <1>5, <2>2
  <2> QED BY <2>1, <2>3 DEF BpAddrs
<1>9. CodeIn(text)'
  <2>1. CASE head[i].type = "B"
    <3>1. i \in Points("B")
      BY <2>1 DEF Points
    <3>2. head[i].addr \in Addrs /\ head[i].ori_byte = Original(head[i].addr)
      BY <3>1, BreakFacts DEF CodeInv, PoolInv, Saved
    <3>3. text' = [text EXCEPT ![head[i].addr] = head[i].ori_byte]
      BY <2>1 DEF Restored
    <3>4. ASSUME NEW a \in Addrs
          PROVE  text'[a] = Original(a) \/ (a \in BpAddrs' /\ text'[a] = "int3")
      <4>1. CASE a = head[i].addr
        BY <1>1, <3>2, <3>3, <4>1
      <4>2. CASE a # head[i].addr
        BY <1>1, <1>8, <3>3, <4>2 DEF CodeInv, CodeIn
      <4> QED BY <4>1, <4>2
    <3> QED BY <3>4 DEF CodeIn, Original
  <2>2. CASE head[i].type # "B"
    <3>1. text' = text
      BY <2>2 DEF Restored
    <3> QED BY <1>8, <2>2, <3>1 DEF CodeInv, CodeIn, Original
  <2> QED BY <2>1, <2>2
<1> QED BY <1>6, <1>7, <1>9 DEF CodeInv

LEMMA DeleteAllCode ==
  ASSUME CodeInv, PoolInv', head' = <<>>, text' = AllRestored
  PROVE  CodeInv'
<1>1. Points("B")' = {}
  BY EmptySeq DEF Points
<1>2. ASSUME NEW a \in Addrs PROVE AllRestored[a] = Original(a)
  <2>1. CASE a \in BpAddrs
    <3> DEFINE first == CHOOSE i \in At(a) : IsFirst(i, At(a))
    <3>1. first \in At(a)
      BY <2>1, FirstExists DEF CodeInv, PoolInv
    <3>2. AllRestored[a] = head[first].ori_byte
      BY <2>1 DEF AllRestored
    <3> HIDE DEF first
    <3> QED BY <3>1, <3>2 DEF CodeInv, Saved, At
  <2>2. CASE a \notin BpAddrs
    BY <2>2 DEF AllRestored, CodeInv, CodeIn
  <2> QED BY <2>1, <2>2
<1>3. CodeIn(text)'
  BY <1>2 DEF CodeIn, Original
<1> QED BY <1>1, <1>3 DEF CodeInv, Distinct, Saved

LEMMA NextCode ==
  ASSUME ~Duplicates, CodeInv, [Next]_vars
  PROVE  CodeInv'
<1>p. PoolInv'
  BY NextPool DEF CodeInv
<1>r. CodeIn(Resumed) /\ Resumed \in [Addrs -> Byte]
  BY ResumedCode, BytesFacts DEF CodeInv, PoolInv
<1>x. x \in Vals /\ BpAddrs \subseteq Addrs
  BY BreakFacts DEF CodeInv, PoolInv, TypeOK
<1>u. ASSUME text' = text, head' = head PROVE CodeInv'
  BY <1>p, <1>u DEF CodeInv, Distinct, Saved, CodeIn, Points, BpAddrs, Original
<1>1. ASSUME NEW a \in Addrs, SetBreakpoint(a) PROVE CodeInv'
  <2>1. CASE free_ = <<>>
    BY <1>1, <1>u, <2>1 DEF SetBreakpoint, Abort, guest, list
  <2>2. CASE free_ # <<>>
    BY <1>1, <1>p, <2>2, SetBreakpointCode DEF SetBreakpoint
  <2> QED BY <2>1, <2>2
<1>2. CASE SetWatchpoint
  <2>1. CASE free_ = <<>>
    BY <1>2, <1>u, <2>1 DEF SetWatchpoint, Abort, guest, list
  <2>2. CASE free_ # <<>>
    BY <1>2, <1>p, <2>2, SetWatchpointCode DEF SetWatchpoint, guest
  <2> QED BY <2>1, <2>2
<1>3. ASSUME NEW i \in DOMAIN head, DeleteBreakpoint(i) PROVE CodeInv'
  BY <1>3, <1>p, DeleteBreakpointCode DEF DeleteBreakpoint
<1>4. CASE DeleteAll
  BY <1>4, <1>p, DeleteAllCode DEF DeleteAll
<1>5. CASE \E k \in 1 .. Many : Exec(k)
  BY <1>5, <1>u DEF Exec, guest, list
<1>6. CASE Quit \/ ExecReturn \/ NoEvent \/ WindowClosed \/ Interrupt
  BY <1>6, <1>u DEF Quit, ExecReturn, NoEvent, WindowClosed, Interrupt, guest, list
<1>7. CASE Ordinary
  <2>1. PICK v \in Vals : ScanWatchpoints(v, "RUN")
    BY <1>7 DEF Ordinary
  <2> QED BY <1>7, <1>p, <1>r, <2>1, InstructionCode DEF Ordinary
<1>8. CASE Iret
  BY <1>8, <1>p, <1>r, <1>x, InstructionCode DEF Iret
<1>9. CASE NemuTrap
  BY <1>9, <1>p, <1>r, <1>x, InstructionCode DEF NemuTrap
<1>10. CASE HitBreakpoint
  <2>1. PICK i \in At(eip) : text' = Restored(Resumed, head[i])
    BY <1>10 DEF HitBreakpoint
  <2>2. /\ head[i].type = "B" /\ head[i].addr \in Addrs
        /\ head[i].ori_byte = Original(head[i].addr)
    <3>1. i \in Points("B")
      BY <2>1 DEF At
    <3> QED BY <3>1, BreakFacts DEF CodeInv, PoolInv, Saved
  <2>3. text' = [Resumed EXCEPT ![head[i].addr] = head[i].ori_byte]
    BY <2>1, <2>2 DEF Restored
  <2>4. CodeIn(text')
    BY <1>r, <2>2, <2>3 DEF CodeIn
  <2> QED BY <1>10, <1>p, <1>x, <2>4, InstructionCode DEF HitBreakpoint
<1>11. CASE PassBreak
  BY <1>11, <1>p, <1>r, <1>x, InstructionCode DEF PassBreak
<1>12. CASE UNCHANGED vars
  BY <1>12, <1>u DEF vars, guest, list
<1> QED
  BY <1>1, <1>2, <1>3, <1>4, <1>5, <1>6, <1>7, <1>8, <1>9, <1>10, <1>11, <1>12
  DEF Next, User, Machine

LEMMA CodeImplies ==
  ASSUME CodeInv
  PROVE  CodeIsKept
<1>1. \A i \in Points("B") : head[i].addr \in Addrs
  BY BreakFacts DEF CodeInv, PoolInv
<1> QED BY <1>1 DEF CodeInv, Saved, CodeIn, CodeIsKept

(* An INT3 the debugger does not know is the guest's.                      *)
LEMMA PassBreakIsTheGuests ==
  ASSUME CodeInv, PassBreak
  PROVE  eip \in Breaks
<1>1. text[eip] = "int3" /\ At(eip) = {}
  BY DEF PassBreak, Fetch
<1>2. eip \in Addrs /\ eip \notin BpAddrs
  BY <1>1 DEF CodeInv, PoolInv, TypeOK, At, BpAddrs
<1>3. text[eip] = Original(eip)
  BY <1>2 DEF CodeInv, CodeIn
<1> QED BY <1>1, <1>3 DEF Original

LEMMA CodeInvariant ==
  ASSUME ~Duplicates
  PROVE  Spec => []CodeInv
<1>1. Init => CodeInv
  BY InitCode
<1>2. CodeInv /\ [Next]_vars => CodeInv'
  BY NextCode
<1> QED BY <1>1, <1>2, PTL DEF Spec

(* As long as no address is given two breakpoints, the guest's code can    *)
(* be had back from the list: every stop, rerun and deletion keeps it.     *)
THEOREM CodeKept ==
  ASSUME ~Duplicates
  PROVE  Spec => []CodeIsKept
<1>1. CodeInv => CodeIsKept
  BY CodeImplies
<1> QED BY <1>1, CodeInvariant, PTL

(* Then an INT3 that is not found in the list is a BREAK_POINT in the code *)
(* of the guest, as the comment of exec() has it.                          *)
THEOREM NotFound ==
  ASSUME ~Duplicates
  PROVE  Spec => NotFoundIsTheGuests
<1>1. CodeInv /\ [Next]_vars => [PassBreak => eip \in Breaks]_vars
  BY PassBreakIsTheGuests
<1> QED BY <1>1, CodeInvariant, PTL DEF Spec, NotFoundIsTheGuests
-----------------------------------------------------------------------------
(* The breakpoints that are armed, when no address has two of them. *)

(* a may be disarmed: the guest has stopped at it, and the next command    *)
(* resumes it, or has done so and its first instruction is still to come.  *)
StoppedAt(a) ==
  /\ bp = a
  /\ pc = "ui" => nemu_state = "BREAK"
  /\ pc \in {"loop", "devices"} => rerun \/ nemu_state # "RUN"

AllArmed == \A a \in BpAddrs : text[a] = "int3" \/ a \in forgotten \/ StoppedAt(a)

StopsInv == CodeInv /\ AllArmed

(* An instruction leaves the breakpoints where they are.                   *)
LEMMA ScanBreaks ==
  ASSUME TypeOK, NEW v \in Vals, NEW s, ScanWatchpoints(v, s)
  PROVE  BpAddrs' = BpAddrs
<1>1. /\ Len(head') = Len(head) /\ Len(head) \in Nat
      /\ DOMAIN head = 1 .. Len(head) /\ head' \in Seq(Point)
      /\ \A i \in 1 .. Len(head) :
           head'[i].type = head[i].type /\ head'[i].addr = head[i].addr
  BY ScanFacts, ListFacts
<1>2. DOMAIN head' = DOMAIN head
  BY <1>1, LenProperties
<1>3. Points("B")' = Points("B")
  BY <1>1, <1>2 DEF Points
<1>4. \A i \in Points("B") : i \in 1 .. Len(head)
  BY <1>1 DEF Points
<1> QED BY <1>1, <1>3, <1>4 DEF BpAddrs

(* A new point adds at most its own address to those with a breakpoint.    *)
LEMMA PushBreaks ==
  ASSUME TypeOK, NEW p \in Point, head' = <<p>> \o head
  PROVE  \A a \in BpAddrs' : a \in BpAddrs \/ (p.type = "B" /\ a = p.addr)
<1>1. head \in Seq(Point)
  BY DEF TypeOK
<1>2. /\ head' \in Seq(Point) /\ Len(head') = Len(head) + 1 /\ head'[1] = p
      /\ \A j \in 1 .. Len(head) : head'[j + 1] = head[j]
  BY <1>1, PushFacts
<1>3. Len(head) \in Nat /\ DOMAIN head = 1 .. Len(head) /\ DOMAIN head' = 1 .. Len(head) + 1
  BY <1>1, <1>2, LenProperties
<1> TAKE a \in BpAddrs'
<1>4. PICK i \in Points("B")' : head'[i].addr = a
  BY DEF BpAddrs
<1>5. i \in 1 .. Len(head) + 1 /\ head'[i].type = "B"
  BY <1>3 DEF Points
<1>6. CASE i = 1
  BY <1>2, <1>4, <1>5, <1>6
<1>7. CASE i # 1
  <2>1. i - 1 \in 1 .. Len(head) /\ (i - 1) + 1 = i
    BY <1>3, <1>5, <1>7
  <2>2. head'[i] = head[i - 1]
    BY <1>2, <2>1
  <2>3. i - 1 \in Points("B") /\ head[i - 1].addr = a
    BY <1>3, <1>4, <1>5, <2>1, <2>2 DEF Points
  <2> QED BY <2>3 DEF BpAddrs
<1> QED BY <1>6, <1>7

(* A point taken out leaves no breakpoint at its address.                  *)
LEMMA RemoveBreaks ==
  ASSUME TypeOK, Distinct, NEW i \in DOMAIN head, head' = RemoveAt(head, i)
  PROVE  \A a \in BpAddrs' : a \in BpAddrs /\ ~(head[i].type = "B" /\ a = head[i].addr)
<1>1. head \in Seq(Point)
  BY DEF TypeOK
<1>2. /\ head' \in Seq(Point) /\ Len(head') = Len(head) - 1
      /\ \A j \in 1 .. Len(head) - 1 : head'[j] = IF j < i THEN head[j] ELSE head[j + 1]
  BY <1>1, RemoveAtFacts
<1>3. Len(head) \in Nat /\ DOMAIN head = 1 .. Len(head) /\ DOMAIN head' = 1 .. Len(head) - 1
  BY <1>1, <1>2, LenProperties
<1> TAKE a \in BpAddrs'
<1>4. PICK k \in Points("B")' : head'[k].addr = a
  BY DEF BpAddrs
<1> DEFINE m == IF k < i THEN k ELSE k + 1
<1>5. k \in 1 .. Len(head) - 1 /\ head'[k].type = "B"
  BY <1>3 DEF Points
<1>6. head'[k] = head[m] /\ m \in 1 .. Len(head) /\ m # i
  BY <1>2, <1>3, <1>5
<1> HIDE DEF m
<1>7. m \in Points("B") /\ head[m].addr = a
  BY <1>3, <1>4, <1>5, <1>6 DEF Points
<1>8. i \in Points("B") => head[i].addr # a
  BY <1>6, <1>7 DEF Distinct
<1> QED BY <1>7, <1>8 DEF BpAddrs, Points

(* Whatever a step does, a breakpoint is remembered that a forgotten stop  *)
(* leaves disarmed.                                                        *)
LEMMA RememberFacts ==
  ASSUME Remember
  PROVE  /\ \A a \in forgotten : text'[a] = "int3" \/ a \in forgotten'
         /\ (Leaves /\ nemu_state' = "READY" /\ bp' # None) =>
              text'[bp'] = "int3" \/ bp' \in forgotten'
BY DEF Remember, Forget

(* An instruction arms every breakpoint but the one it stops at.           *)
LEMMA InstructionArmed ==
  ASSUME StopsInv, Remember, NEW byte, Fetch(byte),
         NEW v \in Vals, NEW s \in {"RUN", "STOP", "BREAK"}, ScanWatchpoints(v, s),
         \A a \in BpAddrs : text'[a] = Resumed[a] \/ (s = "BREAK" /\ bp' = a)
  PROVE  AllArmed'
<1>1. TypeOK /\ BpAddrs' = BpAddrs /\ BpAddrs \subseteq Addrs
  BY ScanBreaks, BreakFacts DEF StopsInv, CodeInv, PoolInv
<1>2. pc = "loop" /\ nemu_state = "RUN" /\ rerun' = FALSE
  BY DEF Fetch, Running
<1>3. \/ pc' = "devices" /\ nemu_state' = s
      \/ pc' = "ui" /\ nemu_state' = "READY"
  BY Zenon DEF ScanWatchpoints
<1> SUFFICES ASSUME NEW a \in BpAddrs
             PROVE  text'[a] = "int3" \/ a \in forgotten' \/ StoppedAt(a)'
  BY <1>1 DEF AllArmed
<1>4. CASE text'[a] = Resumed[a]
  <2>1. CASE rerun
    BY <1>1, <1>4, <2>1 DEF Resumed
  <2>2. CASE ~rerun
    <3>1. text[a] = "int3" \/ a \in forgotten
      BY <1>2, <2>2 DEF StopsInv, AllArmed, StoppedAt
    <3>2. text'[a] = text[a]
      BY <1>4, <2>2 DEF Resumed
    <3> QED BY <3>1, <3>2, RememberFacts
  <2> QED BY <2>1, <2>2
<1>5. CASE s = "BREAK" /\ bp' = a
  <2>1. bp' # None
    BY <1>1, <1>5, DebuggerAssumption
  <2>2. CASE pc' = "ui" /\ nemu_state' = "READY"
    BY <1>2, <1>5, <2>1, <2>2, RememberFacts DEF Leaves
  <2>3. CASE pc' = "devices" /\ nemu_state' = s
    BY <1>5, <2>3 DEF StoppedAt
  <2> QED BY <1>3, <2>2, <2>3
<1> QED BY <1>4, <1>5

LEMMA NextArmed ==
  ASSUME ~Duplicates, StopsInv, [StopsNext]_<<vars, forgotten>>
  PROVE  StopsInv'
<1>c. CodeInv'
  BY NextCode DEF StopsInv, StopsNext
<1>i. CodeInv /\ PoolInv /\ TypeOK /\ Distinct
  BY DEF StopsInv, CodeInv, PoolInv
<1>x. x \in Vals /\ text \in [Addrs -> Byte] /\ BpAddrs \subseteq Addrs
  BY <1>i, BreakFacts DEF TypeOK, Byte
<1>r. Resumed \in [Addrs -> Byte]
  BY <1>i, BytesFacts
(* A command that takes no breakpoint's INT3 away.                         *)
<1>u. ASSUME Remember, bp' = bp, pc = "ui", nemu_state' = nemu_state, pc' \in {"ui", "quit", "abort"},
             \A a \in BpAddrs' : text'[a] = "int3" \/ (a \in BpAddrs /\ text'[a] = text[a])
      PROVE  AllArmed'
  BY <1>u, RememberFacts DEF StopsInv, AllArmed, StoppedAt
<1>1. ASSUME NEW a \in Addrs, SetBreakpoint(a), Remember PROVE AllArmed'
  <2>1. CASE free_ = <<>>
    BY <1>1, <1>u, <2>1 DEF SetBreakpoint, Abort, guest, list, Command, BpAddrs, Points
  <2>2. CASE free_ # <<>>
    <3> DEFINE p == Break(free_[1], a, text[a])
    <3>1. p \in Point /\ p.addr = a
      <4>1. free_[1] \in NOs
        BY <1>i, <2>2, EmptySeq DEF TypeOK
      <4> QED BY <1>x, <4>1 DEF Break, Point, Byte
    <3>2. head' = <<p>> \o head
      BY <1>1, <2>2 DEF SetBreakpoint
    <3> HIDE DEF p
    <3>3. \A b \in BpAddrs' : b \in BpAddrs \/ b = a
      BY <1>i, <3>1, <3>2, PushBreaks
    <3>4. /\ text' = [text EXCEPT ![a] = "int3"] /\ bp' = bp /\ nemu_state' = nemu_state
          /\ pc = "ui" /\ pc' = pc
      BY <1>1, <2>2 DEF SetBreakpoint, Command, loop
    <3> QED BY <1>1, <1>u, <1>x, <3>3, <3>4
  <2> QED BY <2>1, <2>2
<1>2. ASSUME SetWatchpoint, Remember PROVE AllArmed'
  <2>1. CASE free_ = <<>>
    BY <1>2, <1>u, <2>1 DEF SetWatchpoint, Abort, guest, list, Command, BpAddrs, Points
  <2>2. CASE free_ # <<>>
    <3> DEFINE p == Watch(free_[1], x)
    <3>1. p \in Point /\ p.type = "W"
      <4>1. free_[1] \in NOs
        BY <1>i, <2>2, EmptySeq DEF TypeOK
      <4> QED BY <1>x, <4>1 DEF Watch, Point
    <3>2. head' = <<p>> \o head
      BY <1>2, <2>2 DEF SetWatchpoint
    <3> HIDE DEF p
    <3>3. \A b \in BpAddrs' : b \in BpAddrs
      BY <1>i, <3>1, <3>2, PushBreaks
    <3>4. text' = text /\ bp' = bp /\ nemu_state' = nemu_state /\ pc = "ui" /\ pc' = pc
      BY <1>2, <2>2 DEF SetWatchpoint, Command, loop, guest
    <3> QED BY <1>2, <1>u, <3>3, <3>4
  <2> QED BY <2>1, <2>2
<1>3. ASSUME NEW i \in DOMAIN head, DeleteBreakpoint(i), Remember PROVE AllArmed'
  <2>1. /\ text' = Restored(text, head[i]) /\ bp' = bp /\ nemu_state' = nemu_state
        /\ pc = "ui" /\ pc' = pc
    BY <1>3 DEF DeleteBreakpoint, Command, loop
  <2>2. \A a \in BpAddrs' : a \in BpAddrs /\ ~(head[i].type = "B" /\ a = head[i].addr)
    BY <1>3, <1>i, RemoveBreaks DEF DeleteBreakpoint
  <2>3. \A a \in BpAddrs' : text'[a] = text[a]
    BY <1>x, <2>1, <2>2 DEF Restored
  <2> QED BY <1>3, <1>u, <2>1, <2>2, <2>3
<1>4. ASSUME DeleteAll, Remember PROVE AllArmed'
  <2>1. BpAddrs' = {}
    BY <1>4, EmptySeq DEF DeleteAll, BpAddrs, Points
  <2> QED BY <2>1 DEF AllArmed
<1>5. ASSUME NEW k \in 1 .. Many, Exec(k), Remember PROVE AllArmed'
  <2>1. /\ pc = "ui" /\ pc' = "loop" /\ nemu_state' = "RUN" /\ bp' = bp
        /\ nemu_state = "BREAK" => rerun'
        /\ text' = text /\ BpAddrs' = BpAddrs
    BY <1>5, Zenon DEF Exec, Command, guest, list, BpAddrs, Points
  <2> QED BY <1>5, <2>1, RememberFacts DEF StopsInv, AllArmed, StoppedAt
<1>6. ASSUME Quit, Remember PROVE AllArmed'
  BY <1>6, <1>u DEF Quit, guest, list, Command, BpAddrs, Points
<1>7. ASSUME ExecReturn, Remember PROVE AllArmed'
  <2>1. /\ pc = "loop" /\ pc' \in {"ui", "quit"} /\ bp' = bp /\ text' = text /\ BpAddrs' = BpAddrs
        /\ pc' = "ui" => nemu_state' = "READY" \/ nemu_state' \in {"READY", "BREAK"}
    BY <1>7, <1>i DEF ExecReturn, guest, list, BpAddrs, Points, Running, TypeOK
  <2> SUFFICES ASSUME NEW a \in BpAddrs
               PROVE  text'[a] = "int3" \/ a \in forgotten' \/ StoppedAt(a)'
    BY <2>1 DEF AllArmed
  <2>2. CASE text[a] = "int3" \/ a \in forgotten
    BY <1>7, <2>1, <2>2, RememberFacts
  <2>3. CASE StoppedAt(a)
    <3>1. bp' = a /\ a # None
      BY <1>x, <2>1, <2>3, DebuggerAssumption DEF StoppedAt
    <3>2. CASE pc' = "ui" /\ nemu_state' = "READY"
      BY <1>7, <2>1, <3>1, <3>2, RememberFacts DEF Leaves
    <3>3. CASE ~(pc' = "ui" /\ nemu_state' = "READY")
      BY <2>1, <3>1, <3>3 DEF StoppedAt
    <3> QED BY <3>2, <3>3
  <2> QED BY <2>2, <2>3 DEF StopsInv, AllArmed
<1>8. ASSUME NoEvent \/ WindowClosed \/ Interrupt, Remember PROVE AllArmed'
  <2>1. /\ pc = "devices" /\ pc' = "loop" /\ bp' = bp /\ rerun' = rerun
        /\ nemu_state' = nemu_state \/ nemu_state' = "STOP"
        /\ text' = text /\ BpAddrs' = BpAddrs
    BY <1>8 DEF NoEvent, WindowClosed, Interrupt, guest, list, BpAddrs, Points
  <2> QED BY <1>8, <2>1, RememberFacts DEF StopsInv, AllArmed, StoppedAt
<1>9. ASSUME Ordinary, Remember PROVE AllArmed'
  <2>1. PICK v \in Vals : ScanWatchpoints(v, "RUN")
    BY <1>9 DEF Ordinary
  <2>2. Fetch("op") /\ text' = Resumed
    BY <1>9 DEF Ordinary
  <2> QED BY <1>9, <2>1, <2>2, InstructionArmed
<1>10. ASSUME Iret, Remember PROVE AllArmed'
  <2>1. Fetch("op") /\ text' = Resumed /\ ScanWatchpoints(x, "RUN")
    BY <1>10 DEF Iret
  <2> QED BY <1>10, <1>x, <2>1, InstructionArmed
<1>11. ASSUME NemuTrap, Remember PROVE AllArmed'
  <2>1. Fetch("op") /\ text' = Resumed /\ ScanWatchpoints(x, "STOP")
    BY <1>11 DEF NemuTrap
  <2> QED BY <1>11, <1>x, <2>1, InstructionArmed
<1>12. ASSUME HitBreakpoint, Remember PROVE AllArmed'
  <2>1. Fetch("int3") /\ bp' = eip /\ ScanWatchpoints(x, "BREAK")
    BY <1>12 DEF HitBreakpoint
  <2>2. PICK i \in At(eip) : text' = Restored(Resumed, head[i])
    BY <1>12 DEF HitBreakpoint
  <2>3. head[i].type = "B" /\ head[i].addr = eip
    BY <2>2 DEF At, Points
  <2>4. \A a \in BpAddrs : text'[a] = Resumed[a] \/ bp' = a
    BY <1>r, <1>x, <2>1, <2>2, <2>3 DEF Restored
  <2> QED BY <1>12, <1>x, <2>1, <2>4, InstructionArmed
<1>13. ASSUME PassBreak, Remember PROVE AllArmed'
  <2>1. Fetch("int3") /\ text' = Resumed /\ ScanWatchpoints(x, "BREAK")
    BY <1>13 DEF PassBreak
  <2> QED BY <1>13, <1>x, <2>1, InstructionArmed
<1>14. ASSUME UNCHANGED <<vars, forgotten>> PROVE AllArmed'
  <2>1. /\ text' = text /\ BpAddrs' = BpAddrs /\ forgotten' = forgotten /\ bp' = bp
        /\ pc' = pc /\ nemu_state' = nemu_state /\ (rerun <=> rerun')
    BY <1>14 DEF vars, guest, list, loop, BpAddrs, Points
  <2> QED BY <2>1, Zenon DEF StopsInv, AllArmed, StoppedAt
<1>15. ASSUME User, Remember PROVE AllArmed'
  BY <1>1, <1>2, <1>3, <1>4, <1>5, <1>6, <1>15 DEF User
<1>16. ASSUME Machine, Remember PROVE AllArmed'
  BY <1>7, <1>8, <1>9, <1>10, <1>11, <1>12, <1>13, <1>16 DEF Machine
<1>17. AllArmed'
  BY <1>14, <1>15, <1>16, Zenon DEF StopsNext, Next
<1> QED BY <1>c, <1>17 DEF StopsInv

LEMMA InitArmed == StopsInit => StopsInv
<1> SUFFICES ASSUME StopsInit PROVE StopsInv
  OBVIOUS
<1>1. BpAddrs = {}
  BY EmptySeq DEF StopsInit, Init, BpAddrs, Points
<1> QED BY <1>1, InitCode DEF StopsInit, StopsInv, AllArmed

LEMMA StopsInvariant ==
  ASSUME ~Duplicates
  PROVE  StopsSpec => []StopsInv
<1>1. StopsInit => StopsInv
  BY InitArmed
<1>2. StopsInv /\ [StopsNext]_<<vars, forgotten>> => StopsInv'
  BY NextArmed
<1> QED BY <1>1, <1>2, PTL DEF StopsSpec

(* What "info" lists as enabled is armed in the monitor, for every guest   *)
(* and every sequence of commands that gives no address two breakpoints:   *)
(* all but the one the guest is stopped at and those of forgotten stops.   *)
THEOREM ListedArmed ==
  ASSUME ~Duplicates
  PROVE  StopsSpec => []ListedIsArmed
<1>1. StopsInv => ListedIsArmed
  BY DEF StopsInv, AllArmed, StoppedAt, ListedIsArmed
<1> QED BY <1>1, StopsInvariant, PTL

(* So no instruction with a breakpoint is executed but by the command that *)
(* resumes from it, or after a stop at it that was forgotten.              *)
THEOREM BreakpointsAreStops ==
  ASSUME ~Duplicates
  PROVE  StopsSpec => BreakpointsStop
<1>1. ASSUME StopsInv, Running, text[eip] = "op", eip \in BpAddrs
      PROVE  (rerun /\ bp = eip) \/ eip \in forgotten
  BY <1>1 DEF StopsInv, AllArmed, StoppedAt, Running
<1>2. StopsInv => [Running /\ text[eip] = "op" /\ eip \in BpAddrs /\ pc' # pc
                    => (rerun /\ bp = eip) \/ eip \in forgotten]_vars
  BY <1>1
<1> QED BY <1>2, StopsInvariant, PTL DEF BreakpointsStop
=============================================================================
