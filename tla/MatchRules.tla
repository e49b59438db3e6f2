------------------------------ MODULE MatchRules ------------------------------
(***************************************************************************)
(* What one order does to a set of resting orders, in closed form: each     *)
(* counterparty, in price-time order, gets what those ahead of it leave     *)
(* over.  An order is a record of id, side, price and qty; ids are handed   *)
(* out in arrival order, so the id is the time priority.  These are the     *)
(* rules match_against and place_limit (mvp/src/order_book.cpp) carry out   *)
(* step by step.                                                            *)
(***************************************************************************)
EXTENDS Integers, Sequences, FiniteSets, FiniteSetsExt, SequencesExt

Sides == {"Buy", "Sell"}

(* Two resting orders of one side: o trades before p. *)
Before(o, p) ==
    \/ IF o.side = "Sell" THEN o.price < p.price ELSE o.price > p.price
    \/ o.price = p.price /\ o.id < p.id

(* The resting orders an incoming order may trade with. *)
Counterparties(book, order) ==
    {o \in book : /\ o.side # order.side
                  /\ IF order.side = "Buy" THEN o.price <= order.price
                                           ELSE o.price >= order.price}

TotalQty(book) == MapThenSumSet(LAMBDA o : o.qty, book)

(* How much of resting order o an incoming order takes. *)
FillOf(book, order, o) ==
    LET ahead == {p \in Counterparties(book, order) : Before(p, o)}
    IN  IF o \notin Counterparties(book, order) THEN 0
        ELSE Max({0, Min({o.qty, order.qty - TotalQty(ahead)})})

(* The trades an incoming order causes, in the order they happen. *)
TradesOf(book, order) ==
    LET makers == SetToSortSeq({o \in book : FillOf(book, order, o) > 0}, Before)
    IN  [i \in DOMAIN makers |->
           [taker |-> order.id, maker |-> makers[i].id, price |-> makers[i].price,
            qty |-> FillOf(book, order, makers[i])]]

(* What the incoming order has left after them. *)
LeftOf(book, order) ==
    order.qty - MapThenSumSet(LAMBDA o : FillOf(book, order, o), book)

(* Mutant: a maker that is filled stays on the book. *)
AfterTrades_KeepsFilled(book, order) ==
    {[p EXCEPT !.qty = @ - FillOf(book, order, p)] : p \in book}

(* The resting orders after the trades. *)
AfterTrades(book, order) ==
    {o \in {[p EXCEPT !.qty = @ - FillOf(book, order, p)] : p \in book} : o.qty > 0}

(* Does the remainder get a slot? *)
Rests(book, order, capacity) ==
    /\ LeftOf(book, order) > 0
    /\ Cardinality(AfterTrades(book, order)) < capacity

(* The resting orders once place_limit has returned. *)
BookAfter(book, order, capacity) ==
    AfterTrades(book, order) \cup
      (IF Rests(book, order, capacity)
       THEN {[order EXCEPT !.qty = LeftOf(book, order)]} ELSE {})

-----------------------------------------------------------------------------
(* best_bid() is 0 on an empty side. *)
BestBid(book) == Max({0} \cup {o.price : o \in {x \in book : x.side = "Buy"}})

(* best_ask() is INT64_MAX on an empty side, here noAsk. *)
BestAsk(book, noAsk) == Min({noAsk} \cup {o.price : o \in {x \in book : x.side = "Sell"}})

(* qty_at() *)
QtyAt(book, side, price) == TotalQty({o \in book : o.side = side /\ o.price = price})
=============================================================================
