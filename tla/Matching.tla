------------------------------- MODULE Matching -------------------------------
(***************************************************************************)
(* What hft::Engine promises its callers, with no lists, levels or pool: a  *)
(* set of resting orders, and place and cancel as single steps that follow  *)
(* MatchRules.                                                              *)
(***************************************************************************)
EXTENDS MatchRules

CONSTANTS Capacity, Prices, Quantities, MaxOrders

VARIABLES resting,  \* the resting orders
          trades,   \* the trades of the latest place
          nextId    \* the id of the next order

-----------------------------------------------------------------------------
Init == resting = {} /\ trades = <<>> /\ nextId = 1

Place(side, price, qty) ==
    LET order == [id |-> nextId, side |-> side, price |-> price, qty |-> qty]
    IN  /\ nextId <= MaxOrders
        /\ trades' = TradesOf(resting, order)
        /\ resting' = BookAfter(resting, order, Capacity)
        /\ nextId' = nextId + 1

Cancel(o) == resting' = resting \ {o} /\ UNCHANGED <<trades, nextId>>

(* The book is destroyed, and with it its orders. *)
Close == resting' = {} /\ UNCHANGED <<trades, nextId>>

Next ==
    \/ \E side \in Sides, price \in Prices, qty \in Quantities : Place(side, price, qty)
    \/ \E o \in resting : Cancel(o)
    \/ Close

Spec == Init /\ [][Next]_<<resting, trades, nextId>>
=============================================================================
