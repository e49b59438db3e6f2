------------------------------ MODULE MCBacktest ------------------------------
(* A file of a few kinds of ticks around a price of 10. *)
EXTENDS Backtest

Add(side, price, qty, ext) ==
    [event |-> "Add", side |-> side, price |-> price, qty |-> qty, ext |-> ext]

Bid == Add("Buy", 8, 2, 1)
Ask == Add("Sell", 12, 2, 2)

(* A bid and an ask that rest, orders that take part or all of a quote and  *)
(* may sweep the book, prints on both sides of the mid, and cancels of an   *)
(* order that may be resting, gone or unknown.                              *)
AnyTick ==
    {Bid, Ask, Add("Sell", 9, 1, 0), Add("Buy", 11, 3, 0),
     [event |-> "Trade", price |-> 8], [event |-> "Trade", price |-> 12],
     [event |-> "Cancel", ext |-> 1], [event |-> "Cancel", ext |-> 2]}

(* Most files open with a bid and an ask, as those of gen_ticks do. *)
MCTicks == <<{Bid, [event |-> "Cancel", ext |-> 1]}, {Ask}, AnyTick, AnyTick, AnyTick, AnyTick>>
=============================================================================
