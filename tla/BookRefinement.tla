---------------------------- MODULE BookRefinement ----------------------------
(***************************************************************************)
(* OrderBook implements Matching.  The linked book changes order by order   *)
(* while place_limit runs; Matching changes once, when it returns.  The     *)
(* history variable before keeps what Matching still shows meanwhile.       *)
(***************************************************************************)
EXTENDS OrderBook

VARIABLE before  \* the abstract state when the place_limit in progress was called

(* The resting orders that the index and the nodes stand for. *)
RestingOrders ==
    {[id |-> i, side |-> node[index[i]].side, price |-> node[index[i]].price,
      qty |-> node[index[i]].qty] : i \in DOMAIN index}

View ==
    IF pc = "match" THEN before
    ELSE [resting |-> IF pc = "destroy" THEN {} ELSE RestingOrders,
          trades |-> trades, nextId |-> nextId]

NoCall == [resting |-> {}, trades |-> <<>>, nextId |-> 1]

RInit == Init /\ before = NoCall
RNext == Next /\ before' = IF pc' = "match" THEN View ELSE NoCall
RSpec == RInit /\ [][RNext]_<<vars, before>> /\ Fairness

M == INSTANCE Matching WITH resting <- View.resting, trades <- View.trades,
                            nextId <- View.nextId

(* Engine's promise: whatever the interleaving of lists, levels, pool slots *)
(* and index entries inside, each place_limit behaves as one step that      *)
(* gives each counterparty, in price-time order, what those ahead of it     *)
(* leave over, reports those trades in that order and rests the remainder   *)
(* if a slot is free; each cancel removes that order and nothing else.      *)
ImplementsMatching == M!Spec
=============================================================================
