------------------------------ MODULE MCGateway ------------------------------
(* Instances of Gateway.  Prices are in thousandths, quantities in tenths. *)
EXTENDS Gateway

(* Sessions are interchangeable in the runs that check safety only. *)
SessionSymmetry == Permutations(Sessions)

New(side, milli, tenths) ==
    [type |-> "D", side |-> side, milli |-> milli, tenths |-> tenths]

Plain(type) == [type |-> type]
CancelOf(id) == [type |-> "F", order |-> id]

(* Two crossing orders of different size, so that either may leave a
   remainder, a cancel and a market data request. *)
Trading == {Plain("A"), Plain("V"), New("Buy", 20, 20), New("Sell", 16, 30), CancelOf(1)}

(* Every kind of frame. *)
Everything == {Plain("A"), Plain("5"), Plain("0"), Plain("bad"), Plain("V"), CancelOf(1),
               New("Buy", 20, 10), New("Sell", 20, 20), New("Sell", 0, 10), New("?", 20, 10)}
=============================================================================
