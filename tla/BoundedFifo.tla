----------------------------- MODULE BoundedFifo -----------------------------
(***************************************************************************)
(* What hft::SpscRing promises: a first-in first-out queue of bounded       *)
(* length.  A try_push or try_pop that returns false changes nothing.       *)
(***************************************************************************)
EXTENDS Naturals, Sequences

CONSTANTS Bound, Values, NoValue

VARIABLES queue,  \* what has been pushed and not popped
          out     \* what the latest successful try_pop read

Init == queue = <<>> /\ out = NoValue

Push(v) ==
    /\ Len(queue) < Bound
    /\ queue' = Append(queue, v)
    /\ UNCHANGED out

Pop ==
    /\ queue # <<>>
    /\ out' = Head(queue)
    /\ queue' = Tail(queue)

Next == Pop \/ \E v \in Values : Push(v)

Spec == Init /\ [][Next]_<<queue, out>>
=============================================================================
