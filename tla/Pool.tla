-------------------------------- MODULE Pool --------------------------------
(***************************************************************************)
(* hft::Pool (mvp/src/pool.h): a preallocated array of Capacity slots whose *)
(* free slots form a LIFO list threaded through the slots themselves.  The  *)
(* users of the pool (OrderBook) conjoin Acquire and Release to their own   *)
(* actions; the pool has no behaviour of its own.                           *)
(***************************************************************************)
EXTENDS Integers

CONSTANTS Capacity,  \* number of slots, the constructor's argument
          NULL       \* nullptr

ASSUME CapacityAssumption == Capacity \in Nat

Slots == 0 .. Capacity - 1

ASSUME NullAssumption == NULL \notin Int

VARIABLES slotNext,  \* Slot::next, meaningful while the slot is free
          freeHead,  \* free_head_
          inUse      \* in_use_

poolVars == <<slotNext, freeHead, inUse>>

PoolTypeOK ==
    /\ slotNext \in [Slots -> Slots \cup {NULL}]
    /\ freeHead \in Slots \cup {NULL}
    /\ inUse \in Int

(* The constructor threads the list so that the first acquire returns slot 0. *)
PoolInit ==
    /\ slotNext = [s \in Slots |-> IF s = Capacity - 1 THEN NULL ELSE s + 1]
    /\ freeHead = IF Capacity = 0 THEN NULL ELSE 0
    /\ inUse = 0

(* acquire() pops the head; the caller's object overwrites the slot's link.  *)
Acquire(s) ==
    /\ freeHead # NULL
    /\ s = freeHead
    /\ freeHead' = slotNext[s]
    /\ slotNext' = [slotNext EXCEPT ![s] = NULL]
    /\ inUse' = inUse + 1

(* Mutant: the rest of the list is lost. *)
Release_DropsList(s) ==
    /\ freeHead' = s
    /\ inUse' = inUse - 1
    /\ UNCHANGED slotNext

(* release() pushes the slot back; there is no check that it was acquired.   *)
Release(s) ==
    /\ slotNext' = [slotNext EXCEPT ![s] = freeHead]
    /\ freeHead' = s
    /\ inUse' = inUse - 1

(* The slots met on the free list, in at most n links from its head. *)
FreeWalk(n) ==
    LET walk[i \in 0 .. n] ==
          IF i = 0 THEN freeHead
          ELSE IF walk[i - 1] = NULL THEN NULL ELSE slotNext[walk[i - 1]]
    IN  [i \in 0 .. n |-> walk[i]]
=============================================================================
