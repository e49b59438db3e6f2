------------------------------ MODULE SpscRing ------------------------------
(***************************************************************************)
(* hft::SpscRing (mvp/src/spsc_ring.h): one producer thread in try_push,    *)
(* one consumer thread in try_pop, and the two indices and the slots they   *)
(* share.  Each load, slot access and store is a step of its own.           *)
(*                                                                          *)
(* Memory model.  A thread sees the other's index through an acquire load,  *)
(* which may return an older value than the latest store, but never one     *)
(* older than it has returned before: headSeen and tailSeen lag behind head *)
(* and tail and catch up one store at a time.  Whoever has seen an index    *)
(* also sees every slot access that preceded its release store, so the      *)
(* slots themselves need one copy only, provided no access races another.   *)
(***************************************************************************)
EXTENDS Integers, Sequences

CONSTANTS kCap,    \* number of slots, round_up_pow2(Capacity)
          Word,    \* 2^64, the modulus of std::size_t
          Values,  \* payloads
          NoValue  \* contents of a slot never written

(* The mask h & kMask is h % kCap because kCap is a power of two, and the   *)
(* word is a larger one, so that it wraps in step with the slots.           *)
ASSUME RingAssumption ==
    /\ kCap \in Nat \ {0}
    /\ Word \in Nat
    /\ Word % kCap = 0
    /\ kCap + 1 < Word
    /\ NoValue \notin Values

VARIABLES head,      \* head_, as last stored by the producer
          tail,      \* tail_, as last stored by the consumer
          headSeen,  \* head_ as the consumer's acquire load returns it
          tailSeen,  \* tail_ as the producer's acquire load returns it
          buf,       \* buf_
          pcP,       \* where the producer is in try_push
          item,      \* the argument of the try_push in progress
          pcC,       \* where the consumer is in try_pop
          out        \* what the consumer read last

vars == <<head, tail, headSeen, tailSeen, buf, pcP, item, pcC, out>>

Counter == 0 .. Word - 1
(* Mutant: a mask that is one too small. *)
Index_Short(c) == c % (kCap - 1)
Index(c) == c % kCap
(* Unsigned subtraction. *)
Minus(a, b) == (a - b) % Word
Plus1(a) == (a + 1) % Word

Init ==
    /\ head = 0 /\ tail = 0
    /\ headSeen = 0 /\ tailSeen = 0
    /\ buf = [i \in 0 .. kCap - 1 |-> NoValue]
    /\ pcP = "idle" /\ item = NoValue
    /\ pcC = "idle" /\ out = NoValue

(* Mutants: one slot too many; the last value of the counter taken for full. *)
Full_OffByOne == Minus(head, tailSeen) > kCap
Full_AtWrap == head = Word - 1 \/ Minus(Plus1(head), tailSeen) > kCap
Full == Minus(Plus1(head), tailSeen) > kCap

(* Mutant: a comparison that forgets the wrap. *)
Empty_Unwrapped == tail >= headSeen
Empty == tail = headSeen

(* try_push gets past its full test; when that fails it returns false and   *)
(* nothing has changed.                                                     *)
PushCheck(v) ==
    /\ pcP = "idle"
    /\ ~Full
    /\ item' = v
    /\ pcP' = "write"
    /\ UNCHANGED <<head, tail, headSeen, tailSeen, buf, pcC, out>>

PushWrite ==
    /\ pcP = "write"
    /\ buf' = [buf EXCEPT ![Index(head)] = item]
    /\ pcP' = "store"
    /\ UNCHANGED <<head, tail, headSeen, tailSeen, item, pcC, out>>

PushStore ==
    /\ pcP = "store"
    /\ head' = Plus1(head)
    /\ pcP' = "idle"
    /\ item' = NoValue
    /\ UNCHANGED <<tail, headSeen, tailSeen, buf, pcC, out>>

(* try_pop gets past its empty test; when that fails it returns false. *)
PopCheck ==
    /\ pcC = "idle"
    /\ ~Empty
    /\ pcC' = "read"
    /\ UNCHANGED <<head, tail, headSeen, tailSeen, buf, pcP, item, out>>

PopRead ==
    /\ pcC = "read"
    /\ out' = buf[Index(tail)]
    /\ pcC' = "store"
    /\ UNCHANGED <<head, tail, headSeen, tailSeen, buf, pcP, item>>

PopStore ==
    /\ pcC = "store"
    /\ tail' = Plus1(tail)
    /\ pcC' = "idle"
    /\ UNCHANGED <<head, headSeen, tailSeen, buf, pcP, item, out>>

(* A release store becomes visible to the other thread's acquire loads. *)
HeadVisible ==
    /\ headSeen # head
    /\ headSeen' = Plus1(headSeen)
    /\ UNCHANGED <<head, tail, tailSeen, buf, pcP, item, pcC, out>>

TailVisible ==
    /\ tailSeen # tail
    /\ tailSeen' = Plus1(tailSeen)
    /\ UNCHANGED <<head, tail, headSeen, buf, pcP, item, pcC, out>>

Producer == (\E v \in Values : PushCheck(v)) \/ PushWrite \/ PushStore
Consumer == PopCheck \/ PopRead \/ PopStore

Next == Producer \/ Consumer \/ HeadVisible \/ TailVisible

(* Each thread keeps calling and is scheduled, and a store reaches the      *)
(* other thread in finite time, which the C++ standard asks of atomics.     *)
Fairness ==
    /\ WF_vars(Producer)
    /\ WF_vars(Consumer)
    /\ WF_vars(HeadVisible)
    /\ WF_vars(TailVisible)

Spec == Init /\ [][Next]_vars /\ Fairness

(* size_approx() *)
SizeApprox(h, t) == Minus(h, t)

-----------------------------------------------------------------------------
(* Type correctness; the counters stay in one word. *)
TypeOK ==
    /\ head \in Counter /\ tail \in Counter
    /\ headSeen \in Counter /\ tailSeen \in Counter
    /\ buf \in [0 .. kCap - 1 -> Values \cup {NoValue}]
    /\ pcP \in {"idle", "write", "store"}
    /\ item \in Values \cup {NoValue}
    /\ pcC \in {"idle", "read", "store"}
    /\ out \in Values \cup {NoValue}

(* The plain slot accesses of try_push and try_pop never overlap on a slot, *)
(* also when both counters have wrapped and each thread's view of the other *)
(* is stale: the acquire loads alone keep them apart.                       *)
NoSlotRace ==
    ~(pcP = "write" /\ pcC = "read" /\ Index(head) = Index(tail))

(* size_approx(), called by the producer or by the consumer, never shows    *)
(* more than the capacity: neither view of the pair of counters underflows. *)
SizeApproxBounded ==
    /\ SizeApprox(headSeen, tail) <= kCap
    /\ SizeApprox(head, tailSeen) <= kCap

(* The queue the ring stands for: what lies between the next slot to be     *)
(* read and head_.                                                          *)
First == IF pcC = "store" THEN Plus1(tail) ELSE tail
Window(b, f, n) == [i \in 1 .. n |-> b[Index(f + i - 1)]]
Queue == Window(buf, First, Minus(head, First))

F == INSTANCE BoundedFifo WITH Bound <- kCap, queue <- Queue

(* The ring is a bounded FIFO: a try_push that returns true appends at its  *)
(* release store, a try_pop that returns true takes the oldest value, and   *)
(* nothing is lost, duplicated or reordered across the wrap of the word.    *)
ImplementsFifo == F!Spec

(* No value stays in the ring: whatever try_push stored, try_pop returns.   *)
EveryItemPopped == \A c \in Counter : (tail = c /\ head # c) ~> (tail # c)

(* A full ring does not lock the producer out: its slots come back.         *)
ProducerAdvances == \A c \in Counter : (head = c) ~> (head # c)
=============================================================================
