--------------------------- MODULE SpscRingProofs ---------------------------
(***************************************************************************)
(* Proofs about SpscRing, for every capacity, every word that is a multiple *)
(* of it, and all values: the two threads never meet in a slot, and the     *)
(* ring is a bounded queue.                                                 *)
(***************************************************************************)
EXTENDS SpscRing, SequenceTheorems, TLAPS

(* Going around from tailSeen one meets tail, headSeen and head in this     *)
(* order and within kCap steps; whoever is past its test has a slot.        *)
Around ==
    /\ Minus(tail, tailSeen) + Minus(headSeen, tail) + Minus(head, headSeen)
          = Minus(head, tailSeen)
    /\ Minus(head, tailSeen) <= kCap
    /\ pcP # "idle" => Minus(head, tailSeen) < kCap
    /\ pcC # "idle" => headSeen # tail

(* A push in progress has its value, and once written it is in the slot. *)
Pushing ==
    /\ pcP # "idle" => item \in Values
    /\ pcP = "store" => buf[Index(head)] = item

IInv == TypeOK /\ Around /\ Pushing

-----------------------------------------------------------------------------
(* Unsigned subtraction, without the remainder. *)
LEMMA MinusIs ==
    \A a, b \in Counter : Minus(a, b) = IF b <= a THEN a - b ELSE a - b + Word
<1> SUFFICES ASSUME NEW a \in Counter, NEW b \in Counter
             PROVE  Minus(a, b) = IF b <= a THEN a - b ELSE a - b + Word
  OBVIOUS
<1>1. CASE b <= a
  BY <1>1, RingAssumption DEF Minus, Counter
<1>2. CASE a < b
  BY <1>2, RingAssumption DEF Minus, Counter
<1> QED  BY <1>1, <1>2 DEF Counter

(* The next value of a counter. *)
LEMMA Plus1Is ==
    \A a \in Counter : Plus1(a) = IF a = Word - 1 THEN 0 ELSE a + 1
  BY RingAssumption DEF Plus1, Counter

(* Distances of counters: they are 0 only for equal ones, and a step of one *)
(* end changes them by one.                                                 *)
LEMMA Distances ==
    ASSUME NEW a \in Counter, NEW b \in Counter
    PROVE  /\ Minus(a, b) \in Counter /\ (Minus(a, b) = 0 <=> a = b)
           /\ Minus(a, b) < Word - 1 => Minus(Plus1(a), b) = Minus(a, b) + 1
           /\ a # b => Minus(a, Plus1(b)) = Minus(a, b) - 1
<1>1. Plus1(a) \in Counter /\ Plus1(b) \in Counter
  BY Plus1Is, RingAssumption DEF Counter
<1>2. Minus(a, b) \in Counter /\ (Minus(a, b) = 0 <=> a = b)
  BY MinusIs, RingAssumption DEF Counter
<1>3. Minus(a, b) < Word - 1 => Minus(Plus1(a), b) = Minus(a, b) + 1
  <2>1. Minus(Plus1(a), b) = IF b <= Plus1(a) THEN Plus1(a) - b ELSE Plus1(a) - b + Word
    BY <1>1, MinusIs
  <2>2. Minus(a, b) = IF b <= a THEN a - b ELSE a - b + Word
    BY MinusIs
  <2> QED  BY <2>1, <2>2, Plus1Is, RingAssumption DEF Counter
<1>4. a # b => Minus(a, Plus1(b)) = Minus(a, b) - 1
  <2>1. Minus(a, Plus1(b)) = IF Plus1(b) <= a THEN a - Plus1(b) ELSE a - Plus1(b) + Word
    BY <1>1, MinusIs
  <2>2. Minus(a, b) = IF b <= a THEN a - b ELSE a - b + Word
    BY MinusIs
  <2> QED  BY <2>1, <2>2, Plus1Is, RingAssumption DEF Counter
<1> QED  BY <1>2, <1>3, <1>4

(* A distance is a natural number. *)
LEMMA DistanceNat == \A a, b \in Counter : Minus(a, b) \in Nat
  BY MinusIs, RingAssumption DEF Counter

(* A remainder and its quotient. *)
LEMMA Remainder ==
    ASSUME NEW n \in Nat, n > 0, NEW x \in Nat
    PROVE  x \div n \in Int /\ x % n = x - (x \div n) * n
<1>1. x \div n \in Int
  OBVIOUS
<1>2. x % n = x - (x \div n) * n
  BY SMTT(30)
<1> QED  BY <1>1, <1>2

(* No multiple lies strictly between 0 and n. *)
LEMMA NoMultiple ==
    ASSUME NEW n \in Nat, n > 0, NEW k \in Int, 0 < k * n, k * n < n
    PROVE  FALSE
<1>1. CASE k <= 0
  BY <1>1
<1>2. CASE k >= 1
  BY <1>2
<1> QED  BY <1>1, <1>2

(* A difference of multiples is a multiple. *)
LEMMA Distribute ==
    ASSUME NEW n \in Nat, NEW a \in Int, NEW b \in Int
    PROVE  /\ a - b \in Int /\ a * n - b * n = (a - b) * n
           /\ a + b \in Int /\ a * n + b * n = (a + b) * n
  OBVIOUS

(* The word holds the ring a whole number of times. *)
LEMMA WordIsMultiple == \E w \in Int : Word = w * kCap
<1>1. kCap \in Nat /\ kCap > 0 /\ Word \in Nat
  BY RingAssumption
<1>2. Word \div kCap \in Int /\ 0 = Word - (Word \div kCap) * kCap
  BY <1>1, Remainder, RingAssumption
<1>3. (Word \div kCap) * kCap \in Int
  BY <1>1, <1>2
<1> QED  BY <1>1, <1>2, <1>3

(* Positions less than kCap apart, the wrap of the word included, have      *)
(* different slots.                                                         *)
LEMMA SlotsDiffer ==
    ASSUME NEW x \in Nat, NEW y \in Nat,
           \/ 0 < x - y /\ x - y < kCap
           \/ 0 < x + Word - y /\ x + Word - y < kCap
    PROVE  Index(x) # Index(y)
<1> SUFFICES ASSUME Index(x) = Index(y) PROVE FALSE
  OBVIOUS
<1>1. kCap \in Nat /\ kCap > 0 /\ Word \in Nat
  BY RingAssumption
<1>2. PICK p \in Int : Index(x) = x - p * kCap
  BY <1>1, Remainder DEF Index
<1>3. PICK q \in Int : Index(y) = y - q * kCap
  BY <1>1, Remainder DEF Index
<1>4. PICK w \in Int : Word = w * kCap
  BY WordIsMultiple
<1>5. Index(x) \in Int /\ p * kCap \in Int /\ q * kCap \in Int /\ w * kCap \in Int
  BY <1>1 DEF Index
<1>6. p - q \in Int /\ x - y = (p - q) * kCap
  <2> DEFINE P == p * kCap
             Q == q * kCap
  <2>1. P \in Int /\ Q \in Int /\ Index(x) = x - P /\ Index(y) = y - Q
    BY <1>2, <1>3, <1>5
  <2>2. x - y = P - Q
    <3> HIDE DEF P, Q
    <3>1. x - P = y - Q
      BY <2>1, Zenon
    <3> QED  BY <2>1, <3>1
  <2> QED  BY <1>1, <2>2, Distribute
<1>7. p - q + w \in Int /\ x + Word - y = (p - q + w) * kCap
  <2>1. x + Word - y = (p - q) * kCap + w * kCap
    BY <1>1, <1>4, <1>6
  <2> QED  BY <1>1, <1>6, <2>1, Distribute
<1>8. ASSUME 0 < x - y, x - y < kCap PROVE FALSE
  BY <1>1, <1>6, <1>8, NoMultiple
<1>9. ASSUME 0 < x + Word - y, x + Word - y < kCap PROVE FALSE
  BY <1>1, <1>7, <1>9, NoMultiple
<1> QED  BY <1>8, <1>9

(* The slot of a position does not change when the word wraps. *)
LEMMA SlotAfterWrap ==
    ASSUME NEW x \in Nat
    PROVE  Index(x + Word) = Index(x)
<1>1. kCap \in Nat /\ kCap > 0 /\ Word \in Nat /\ x + Word \in Nat
  BY RingAssumption
<1>2. PICK p \in Int : Index(x) = x - p * kCap
  BY <1>1, Remainder DEF Index
<1>3. PICK r \in Int : Index(x + Word) = x + Word - r * kCap
  BY <1>1, Remainder DEF Index
<1>4. PICK w \in Int : Word = w * kCap
  BY WordIsMultiple
<1>5. Index(x) \in 0 .. kCap - 1 /\ Index(x + Word) \in 0 .. kCap - 1
  BY <1>1 DEF Index
<1>6. p * kCap \in Int /\ r * kCap \in Int /\ w * kCap \in Int
  BY <1>1
<1>7. w + p - r \in Int /\ Index(x + Word) - Index(x) = (w + p - r) * kCap
  <2>1. Index(x + Word) - Index(x) = (w * kCap + p * kCap) - r * kCap
    BY <1>1, <1>2, <1>3, <1>4, <1>6
  <2>2. w + p \in Int /\ w * kCap + p * kCap = (w + p) * kCap
    BY <1>1, Distribute
  <2> QED  BY <1>1, <2>1, <2>2, Distribute
<1>8. r - (w + p) \in Int /\ Index(x) - Index(x + Word) = (r - (w + p)) * kCap
  <2>1. Index(x) - Index(x + Word) = r * kCap - (w * kCap + p * kCap)
    BY <1>1, <1>2, <1>3, <1>4, <1>6
  <2>2. w + p \in Int /\ w * kCap + p * kCap = (w + p) * kCap
    BY <1>1, Distribute
  <2> QED  BY <1>1, <2>1, <2>2, Distribute
<1>9. ~ (0 < Index(x + Word) - Index(x))
  <2>1. Index(x + Word) - Index(x) < kCap
    BY <1>1, <1>5
  <2> QED  BY <1>1, <1>7, <2>1, NoMultiple
<1>10. ~ (0 < Index(x) - Index(x + Word))
  <2>1. Index(x) - Index(x + Word) < kCap
    BY <1>1, <1>5
  <2> QED  BY <1>1, <1>8, <2>1, NoMultiple
<1> QED  BY <1>1, <1>5, <1>9, <1>10

-----------------------------------------------------------------------------
(* An empty ring satisfies the invariant. *)
LEMMA InitInvariant == Init => IInv
<1> SUFFICES ASSUME Init PROVE IInv
  OBVIOUS
<1>1. TypeOK
  BY RingAssumption DEF Init, TypeOK, Counter
<1>2. Around
  BY <1>1, MinusIs, RingAssumption DEF Init, Around, TypeOK, Counter
<1>3. Pushing
  BY DEF Init, Pushing
<1> QED  BY <1>1, <1>2, <1>3 DEF IInv

(* Every step keeps the types. *)
LEMMA TypeStep == IInv /\ Next => TypeOK'
<1> SUFFICES ASSUME IInv, Next PROVE TypeOK'
  OBVIOUS
<1> USE DEF IInv, TypeOK
<1>1. \A c \in Counter : Plus1(c) \in Counter /\ Index(c) \in 0 .. kCap - 1
  BY RingAssumption DEF Plus1, Index, Counter
<1>2. ASSUME NEW v \in Values, PushCheck(v) PROVE TypeOK'
  BY <1>2 DEF PushCheck
<1>3. CASE PushWrite
  BY <1>1, <1>3 DEF PushWrite
<1>4. CASE PushStore
  BY <1>1, <1>4 DEF PushStore
<1>5. CASE PopCheck
  BY <1>5 DEF PopCheck
<1>6. CASE PopRead
  BY <1>1, <1>6 DEF PopRead
<1>7. CASE PopStore
  BY <1>1, <1>7 DEF PopStore
<1>8. CASE HeadVisible
  BY <1>1, <1>8 DEF HeadVisible
<1>9. CASE TailVisible
  BY <1>1, <1>9 DEF TailVisible
<1> QED  BY <1>2, <1>3, <1>4, <1>5, <1>6, <1>7, <1>8, <1>9 DEF Next, Producer, Consumer

(* Every step keeps the counters in their order. *)
LEMMA AroundStep == IInv /\ Next => Around'
<1> SUFFICES ASSUME IInv, Next PROVE Around'
  OBVIOUS
<1> USE DEF IInv, Around
<1>1. /\ head \in Counter /\ tail \in Counter /\ headSeen \in Counter /\ tailSeen \in Counter
      /\ kCap \in Nat /\ kCap + 1 < Word /\ Word \in Nat
  BY RingAssumption DEF TypeOK
<1>2. /\ Minus(tail, tailSeen) \in Nat /\ Minus(headSeen, tail) \in Nat
      /\ Minus(head, headSeen) \in Nat /\ Minus(head, tailSeen) \in Nat
  BY <1>1, DistanceNat
<1>3. ASSUME NEW v \in Values, PushCheck(v) PROVE Around'
  <2>1. Minus(Plus1(head), tailSeen) = Minus(head, tailSeen) + 1
    BY <1>1, <1>2, Distances
  <2> QED  BY <1>1, <1>2, <1>3, <2>1 DEF PushCheck, Full
<1>4. CASE PushWrite
  BY <1>4 DEF PushWrite
<1>5. CASE PushStore
  <2>1. /\ Minus(Plus1(head), tailSeen) = Minus(head, tailSeen) + 1
        /\ Minus(Plus1(head), headSeen) = Minus(head, headSeen) + 1
    BY <1>1, <1>2, Distances
  <2> QED  BY <1>1, <1>2, <1>5, <2>1 DEF PushStore
<1>6. CASE PopCheck
  BY <1>6 DEF PopCheck, Empty
<1>7. CASE PopRead
  BY <1>7 DEF PopRead
<1>8. CASE PopStore
  <2>1. /\ Minus(Plus1(tail), tailSeen) = Minus(tail, tailSeen) + 1
        /\ Minus(headSeen, Plus1(tail)) = Minus(headSeen, tail) - 1
    BY <1>1, <1>2, <1>8, Distances DEF PopStore
  <2> QED  BY <1>1, <1>2, <1>8, <2>1 DEF PopStore
<1>9. CASE HeadVisible
  <2>1. /\ Minus(Plus1(headSeen), tail) = Minus(headSeen, tail) + 1
        /\ Minus(head, Plus1(headSeen)) = Minus(head, headSeen) - 1
    BY <1>1, <1>2, <1>9, Distances DEF HeadVisible
  <2>2. Minus(headSeen', tail) # 0
    BY <1>2, <1>9, <2>1 DEF HeadVisible
  <2>3. headSeen' # tail
    BY <1>1, <2>2, Distances
  <2> QED  BY <1>1, <1>2, <1>9, <2>1, <2>3 DEF HeadVisible
<1>10. CASE TailVisible
  <2>1. /\ Minus(tail, Plus1(tailSeen)) = Minus(tail, tailSeen) - 1
        /\ Minus(head, Plus1(tailSeen)) = Minus(head, tailSeen) - 1
    <3>1. Minus(tail, tailSeen) # 0
      BY <1>1, <1>10, Distances DEF TailVisible
    <3>2. Minus(head, tailSeen) # 0
      BY <1>2, <3>1
    <3>3. head # tailSeen
      BY <1>1, <3>2, Distances
    <3> QED  BY <1>1, <1>10, <3>3, Distances DEF TailVisible
  <2> QED  BY <1>1, <1>2, <1>10, <2>1 DEF TailVisible
<1> QED  BY <1>3, <1>4, <1>5, <1>6, <1>7, <1>8, <1>9, <1>10 DEF Next, Producer, Consumer

(* Every step keeps the value of a push in progress. *)
LEMMA PushingStep == IInv /\ Next => Pushing'
<1> SUFFICES ASSUME IInv, Next PROVE Pushing'
  OBVIOUS
<1> USE DEF IInv, TypeOK, Pushing
<1>1. Index(head) \in 0 .. kCap - 1
  BY RingAssumption DEF Index, Counter
<1>2. ASSUME NEW v \in Values, PushCheck(v) PROVE Pushing'
  BY <1>2 DEF PushCheck
<1>3. CASE PushWrite
  BY <1>1, <1>3 DEF PushWrite
<1>4. CASE PushStore
  BY <1>4 DEF PushStore
<1>5. CASE Consumer \/ HeadVisible \/ TailVisible
  BY <1>5 DEF Consumer, PopCheck, PopRead, PopStore, HeadVisible, TailVisible
<1> QED  BY <1>2, <1>3, <1>4, <1>5 DEF Next, Producer

(* The invariant. *)
THEOREM Invariant == Spec => []IInv
<1>1. Init => IInv
  BY InitInvariant
<1>2. ASSUME IInv, [Next]_vars PROVE IInv'
  <2>1. CASE Next
    BY <1>2, <2>1, TypeStep, AroundStep, PushingStep DEF IInv
  <2>2. CASE UNCHANGED vars
    BY <1>2, <2>2 DEF vars, IInv, TypeOK, Around, Pushing
  <2> QED  BY <1>2, <2>1, <2>2
<1> QED  BY <1>1, <1>2, PTL DEF Spec

(* The members of the ring keep their types, whatever the word. *)
THEOREM TypeCorrect == Spec => []TypeOK
<1>1. IInv => TypeOK
  BY DEF IInv
<1> QED  BY <1>1, Invariant, PTL

(* Short distances add up. *)
LEMMA DistanceSum ==
    ASSUME NEW a \in Counter, NEW b \in Counter, NEW c \in Counter,
           Minus(a, b) + Minus(b, c) < Word
    PROVE  Minus(a, c) = Minus(a, b) + Minus(b, c)
  BY MinusIs, RingAssumption DEF Counter

(* How far the next slot to be read is from head_. *)
LEMMA Filling ==
    ASSUME IInv
    PROVE  /\ First \in Counter /\ head \in Counter
           /\ Minus(head, First) \in Nat /\ Minus(head, First) <= kCap
           /\ pcP # "idle" => Minus(head, First) < kCap
           /\ pcC = "read" => tail # head
<1>1. /\ head \in Counter /\ tail \in Counter /\ headSeen \in Counter /\ tailSeen \in Counter
      /\ kCap \in Nat /\ kCap + 1 < Word /\ Word \in Nat
  BY RingAssumption DEF IInv, TypeOK
<1>2. /\ Minus(tail, tailSeen) \in Nat /\ Minus(headSeen, tail) \in Nat
      /\ Minus(head, headSeen) \in Nat /\ Minus(head, tailSeen) \in Nat
  BY <1>1, DistanceNat
<1>3. Minus(head, tail) = Minus(head, headSeen) + Minus(headSeen, tail)
  BY <1>1, <1>2, DistanceSum DEF IInv, Around
<1>4. pcC # "idle" => Minus(headSeen, tail) # 0
  BY <1>1, Distances DEF IInv, Around
<1>5. pcC # "idle" => tail # head
  <2>1. pcC # "idle" => Minus(head, tail) # 0
    BY <1>2, <1>3, <1>4
  <2> QED  BY <1>1, <2>1, Distances
<1>6. CASE pcC = "store"
  <2>1. Plus1(tail) \in Counter
    BY <1>1, Plus1Is, RingAssumption DEF Counter
  <2>2. Minus(head, Plus1(tail)) = Minus(head, tail) - 1
    BY <1>1, <1>5, <1>6, Distances
  <2>3. Minus(head, Plus1(tail)) \in Nat
    BY <1>1, <2>1, DistanceNat
  <2> QED  BY <1>1, <1>2, <1>3, <1>5, <1>6, <2>1, <2>2, <2>3 DEF First, IInv, Around
<1>7. CASE pcC # "store"
  <2>1. Minus(head, tail) \in Nat
    BY <1>2, <1>3
  <2> QED  BY <1>1, <1>2, <1>3, <1>5, <1>7, <2>1 DEF First, IInv, Around
<1> QED  BY <1>6, <1>7

(* The slot of head_ is none of those that hold the queue, unless the ring  *)
(* is full.                                                                 *)
LEMMA HeadSlotFree ==
    ASSUME NEW h \in Counter, NEW f \in Counter, Minus(h, f) < kCap,
           NEW i \in 1 .. Minus(h, f)
    PROVE  Index(f + i - 1) # Index(h)
<1>1. Minus(h, f) = IF f <= h THEN h - f ELSE h - f + Word
  BY MinusIs
<1>2. h \in Nat /\ f \in Nat /\ Word \in Nat /\ kCap \in Nat
  BY RingAssumption DEF Counter
<1>3. f + i - 1 \in Nat
  BY <1>1, <1>2
<1>4. \/ 0 < h - (f + i - 1) /\ h - (f + i - 1) < kCap
      \/ 0 < h + Word - (f + i - 1) /\ h + Word - (f + i - 1) < kCap
  BY <1>1, <1>2
<1> QED  BY <1>2, <1>3, <1>4, SlotsDiffer

(* For every capacity, the producer's write and the consumer's read never   *)
(* meet in a slot.                                                          *)
THEOREM SlotsApart == Spec => []NoSlotRace
<1>1. ASSUME IInv PROVE NoSlotRace
  <2> SUFFICES ASSUME pcP = "write", pcC = "read", Index(head) = Index(tail) PROVE FALSE
    BY DEF NoSlotRace
  <2>1. /\ tail \in Counter /\ head \in Counter /\ tail # head
        /\ Minus(head, tail) \in Nat /\ Minus(head, tail) < kCap
    BY <1>1, Filling DEF First
  <2>2. 1 \in 1 .. Minus(head, tail)
    BY <2>1, Distances
  <2>3. tail + 1 - 1 = tail
    BY <2>1 DEF Counter
  <2> QED  BY <2>1, <2>2, <2>3, HeadSlotFree
<1> QED  BY <1>1, Invariant, PTL

(* For every capacity, neither thread sees size_approx() beyond it. *)
THEOREM SizeBounded == Spec => []SizeApproxBounded
<1>1. ASSUME IInv PROVE SizeApproxBounded
  <2>1. /\ Minus(tail, tailSeen) \in Nat /\ Minus(headSeen, tail) \in Nat
        /\ Minus(head, headSeen) \in Nat /\ Minus(head, tailSeen) \in Nat /\ kCap \in Nat
    BY <1>1, DistanceNat, RingAssumption DEF IInv, TypeOK
  <2> QED  BY <1>1, <2>1 DEF IInv, Around, SizeApproxBounded, SizeApprox
<1> QED  BY <1>1, Invariant, PTL

-----------------------------------------------------------------------------
(* What a slot may hold, and the slots. *)
Cells == Values \cup {NoValue}
Buffers == [0 .. kCap - 1 -> Cells]

(* n slots from position f on, read as a sequence. *)
LEMMA WindowIsSeq ==
    ASSUME NEW b \in Buffers, NEW f \in Nat, NEW n \in Nat
    PROVE  /\ Window(b, f, n) \in Seq(Cells) /\ Len(Window(b, f, n)) = n
           /\ \A i \in 1 .. n : Window(b, f, n)[i] = b[Index(f + i - 1)]
<1>1. \A i \in 1 .. n : Index(f + i - 1) \in 0 .. kCap - 1
  BY RingAssumption DEF Index
<1>2. Window(b, f, n) \in [1 .. n -> Cells]
  BY <1>1 DEF Window, Buffers
<1>3. \A i \in 1 .. n : Window(b, f, n)[i] = b[Index(f + i - 1)]
  BY DEF Window
<1>4. Window(b, f, n) \in Seq(Cells) /\ Len(Window(b, f, n)) = n
  BY <1>2
<1> QED  BY <1>3, <1>4

(* One slot more at the end. *)
LEMMA WindowGrows ==
    ASSUME NEW b \in Buffers, NEW f \in Nat, NEW n \in Nat
    PROVE  Window(b, f, n + 1) = Append(Window(b, f, n), b[Index(f + n)])
<1> DEFINE s == Window(b, f, n)
           t == Window(b, f, n + 1)
<1>1. s \in Seq(Cells) /\ Len(s) = n /\ \A i \in 1 .. n : s[i] = b[Index(f + i - 1)]
  BY WindowIsSeq
<1>2. t \in Seq(Cells) /\ Len(t) = n + 1 /\ \A i \in 1 .. n + 1 : t[i] = b[Index(f + i - 1)]
  <2>1. n + 1 \in Nat
    OBVIOUS
  <2> QED  BY <2>1, WindowIsSeq
<1>3. b[Index(f + n)] \in Cells
  BY RingAssumption DEF Index, Buffers
<1> DEFINE e == b[Index(f + n)]
<1>4. t[n + 1] = e
  <2>1. f + (n + 1) - 1 = f + n
    OBVIOUS
  <2> QED  BY <1>2, <2>1
<1>5. \A i \in 1 .. n : t[i] = s[i]
  BY <1>1, <1>2
<1> HIDE DEF s, t, e
<1>6. /\ Append(s, e) \in Seq(Cells) /\ Len(Append(s, e)) = n + 1
      /\ \A i \in 1 .. n + 1 : Append(s, e)[i] = t[i]
  BY <1>1, <1>3, <1>4, <1>5 DEF e
<1>7. t = Append(s, e)
  BY <1>2, <1>6, SeqEqual
<1> QED  BY <1>7 DEF s, t, e

(* One slot less at the front, also where the word wraps. *)
LEMMA WindowShrinks ==
    ASSUME NEW b \in Buffers, NEW f \in Counter, NEW n \in Nat, n > 0
    PROVE  /\ Window(b, f, n) # <<>> /\ Head(Window(b, f, n)) = b[Index(f)]
           /\ Tail(Window(b, f, n)) = Window(b, Plus1(f), n - 1)
<1> DEFINE s == Window(b, f, n)
           t == Window(b, Plus1(f), n - 1)
<1>1. f \in Nat /\ Plus1(f) \in Nat /\ n - 1 \in Nat
  BY Plus1Is, RingAssumption DEF Counter
<1>2. s \in Seq(Cells) /\ Len(s) = n /\ \A i \in 1 .. n : s[i] = b[Index(f + i - 1)]
  <2>1. f \in Nat
    BY <1>1
  <2> QED  BY <2>1, WindowIsSeq
<1>3. t \in Seq(Cells) /\ Len(t) = n - 1 /\ \A i \in 1 .. n - 1 : t[i] = b[Index(Plus1(f) + i - 1)]
  BY <1>1, WindowIsSeq
<1>4. ASSUME NEW i \in 1 .. n - 1 PROVE s[i + 1] = t[i]
  <2>1. i + 1 \in 1 .. n /\ i \in Nat /\ i - 1 \in Nat
    BY <1>1
  <2>2. s[i + 1] = b[Index(f + (i + 1) - 1)] /\ f + (i + 1) - 1 = f + i
    BY <1>1, <1>2, <2>1
  <2>3. CASE f = Word - 1
    <3>1. Plus1(f) + i - 1 = i - 1 /\ f + i = (i - 1) + Word
      BY <1>1, <2>1, <2>3, Plus1Is, RingAssumption
    <3> QED  BY <1>3, <2>1, <2>2, <3>1, SlotAfterWrap
  <2>4. CASE f # Word - 1
    <3>1. Plus1(f) + i - 1 = f + i
      BY <1>1, <2>1, <2>4, Plus1Is
    <3> QED  BY <1>3, <2>2, <3>1
  <2> QED  BY <2>3, <2>4
<1>5. s[1] = b[Index(f)]
  <2>1. f + 1 - 1 = f /\ 1 \in 1 .. n
    BY <1>1
  <2> QED  BY <1>2, <2>1
<1> HIDE DEF s, t
<1>6. s # <<>> /\ Head(s) = s[1]
  BY <1>2
<1>7. Tail(s) \in Seq(Cells) /\ Len(Tail(s)) = n - 1 /\ \A i \in 1 .. n - 1 : Tail(s)[i] = s[i + 1]
  BY <1>2, <1>6, HeadTailProperties
<1>8. Tail(s) = t
  BY <1>3, <1>4, <1>7, SeqEqual
<1> QED  BY <1>5, <1>6, <1>8 DEF s, t

(* An empty ring stands for an empty queue. *)
LEMMA FifoInit == Init => F!Init
<1> SUFFICES ASSUME Init PROVE Queue = <<>> /\ out = NoValue
  BY DEF F!Init
<1>1. First = 0 /\ head = 0 /\ 0 \in Counter /\ 0 \in Nat
  BY RingAssumption DEF Init, First, Counter
<1>2. Minus(head, First) = 0
  BY <1>1, Distances
<1>3. buf \in Buffers
  BY DEF Init, Buffers, Cells
<1>4. Queue \in Seq(Cells) /\ Len(Queue) = 0
  BY <1>1, <1>2, <1>3, WindowIsSeq DEF Queue
<1> QED  BY <1>4, EmptySeq DEF Init

(* The release store of head_ is the push, the read of a slot is the pop,   *)
(* and every other step leaves the queue as it is.                          *)
LEMMA FifoStep == IInv /\ [Next]_vars => [F!Next]_<<Queue, out>>
<1> SUFFICES ASSUME IInv, [Next]_vars PROVE F!Next \/ UNCHANGED <<Queue, out>>
  OBVIOUS
<1> DEFINE n == Minus(head, First)
<1>1. /\ First \in Counter /\ First \in Nat /\ head \in Counter /\ n \in Nat /\ n <= kCap
      /\ pcP # "idle" => n < kCap
  BY Filling, RingAssumption DEF Counter
<1>2. buf \in Buffers /\ tail \in Counter
  BY DEF IInv, TypeOK, Buffers, Cells
<1>3. Queue \in Seq(Cells) /\ Len(Queue) = n
  BY <1>1, <1>2, WindowIsSeq DEF Queue
<1>4. ASSUME NEW v \in Values, PushCheck(v) PROVE UNCHANGED <<Queue, out>>
  BY <1>4 DEF PushCheck, Queue, First
<1>5. CASE PushWrite
  <2>1. First' = First /\ head' = head /\ out' = out /\ buf' = [buf EXCEPT ![Index(head)] = item]
    BY <1>5 DEF PushWrite, First
  <2>2. \A i \in 1 .. n : Index(First + i - 1) # Index(head)
    BY <1>1, <1>5, HeadSlotFree DEF PushWrite
  <2>3. \A i \in 1 .. n : buf'[Index(First + i - 1)] = buf[Index(First + i - 1)]
    <3>1. \A i \in 1 .. n : Index(First + i - 1) \in 0 .. kCap - 1
      BY <1>1, RingAssumption DEF Index
    <3> HIDE DEF n
    <3> QED  BY <1>2, <2>1, <2>2, <3>1 DEF Buffers
  <2> QED  BY <2>1, <2>3 DEF Queue, Window
<1>6. CASE PushStore
  <2>1. /\ First' = First /\ head' = Plus1(head) /\ out' = out /\ buf' = buf
        /\ buf[Index(head)] = item /\ item \in Values /\ n < kCap
    BY <1>1, <1>6 DEF PushStore, First, IInv, Pushing
  <2>2. Minus(head', First') = n + 1
    BY <1>1, <2>1, Distances, RingAssumption
  <2>3. Index(First + n) = Index(head)
    <3>1. n = IF First <= head THEN head - First ELSE head - First + Word
      BY <1>1, MinusIs
    <3>2. First + n = head \/ First + n = head + Word
      BY <1>1, <3>1, RingAssumption DEF Counter
    <3>3. head \in Nat
      BY <1>1, RingAssumption DEF Counter
    <3> QED  BY <3>2, <3>3, SlotAfterWrap
  <2>4. Queue' = Append(Queue, item)
    BY <1>1, <1>2, <2>1, <2>2, <2>3, WindowGrows DEF Queue
  <2> QED  BY <1>3, <2>1, <2>4 DEF F!Next, F!Push
<1>7. CASE PopCheck
  BY <1>7 DEF PopCheck, Queue, First
<1>8. CASE PopRead
  <2>1. /\ First = tail /\ First' = Plus1(tail) /\ head' = head /\ buf' = buf
        /\ out' = buf[Index(tail)] /\ tail # head
    BY <1>8, Filling DEF PopRead, First
  <2>2. Minus(head', First') = n - 1 /\ n > 0
    BY <1>1, <1>2, <2>1, Distances
  <2>3. /\ Window(buf, tail, n) # <<>> /\ Head(Window(buf, tail, n)) = buf[Index(tail)]
        /\ Tail(Window(buf, tail, n)) = Window(buf, Plus1(tail), n - 1)
    <3> HIDE DEF n
    <3> QED  BY <1>1, <1>2, <2>2, WindowShrinks
  <2>4. Queue = Window(buf, tail, n) /\ Queue' = Window(buf, Plus1(tail), n - 1)
    BY <2>1, <2>2 DEF Queue
  <2>5. Queue # <<>> /\ Head(Queue) = out' /\ Tail(Queue) = Queue'
    <3> HIDE DEF n
    <3> QED  BY <2>1, <2>3, <2>4, Zenon
  <2> QED  BY <2>5 DEF F!Next, F!Pop
<1>9. CASE PopStore
  BY <1>9 DEF PopStore, Queue, First
<1>10. CASE HeadVisible \/ TailVisible \/ UNCHANGED vars
  BY <1>10 DEF HeadVisible, TailVisible, vars, Queue, First
<1> QED  BY <1>4, <1>5, <1>6, <1>7, <1>8, <1>9, <1>10 DEF Next, Producer, Consumer

(* For every capacity, word and set of values the ring is a bounded queue:  *)
(* nothing is lost, duplicated or reordered.                                *)
THEOREM RingIsFifo == Spec => ImplementsFifo
<1> QED  BY FifoInit, FifoStep, Invariant, PTL DEF Spec, ImplementsFifo, F!Spec
=============================================================================
